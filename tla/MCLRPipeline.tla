---------------------------- MODULE MCLRPipeline ----------------------------
(***************************************************************************)
(* Grammars for the generator and parser end to end.  Symbol ids follow    *)
(* the loader's first-seen order; the augmentation rule S_0 -> S is last.  *)
(***************************************************************************)
EXTENDS LRPipeline, TLC

\* S -> a S b S | S -> eps, the S rules of the tests' base_grammar.txt, whose
\* third rule (test_grammar.cpp:10) makes its S_0 4.  Here S=0 a=1 b=2 S_0=3.
BaseProds ==
    0 :> [lhs |-> 0, rhs |-> <<1, 0, 2, 0>>] @@
    1 :> [lhs |-> 0, rhs |-> <<>>] @@
    2 :> [lhs |-> 3, rhs |-> <<0>>]

\* Their names, as Grammar::_id2view holds them.
BaseNames == << <<"S">>, <<"a">>, <<"b">>, <<"S", "_", "0">> >>

\* An LR(0) grammar: S -> a S | S -> b.  S=0 a=1 b=2 S_0=3.
LR0Prods ==
    0 :> [lhs |-> 0, rhs |-> <<1, 0>>] @@
    1 :> [lhs |-> 0, rhs |-> <<2>>] @@
    2 :> [lhs |-> 3, rhs |-> <<0>>]

LR0Names == BaseNames
=============================================================================
