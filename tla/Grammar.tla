------------------------------ MODULE Grammar ------------------------------
(***************************************************************************)
(* The augmented grammar as the generator holds it after loading           *)
(* (src/lr-k/include/grammar.hpp, class Grammar).  Symbols are the ids of  *)
(* _id2view, assigned in first-seen order; numbered_prod and _rhs are      *)
(* merged into one function from rule ids to records; the augmentation     *)
(* rule `start -> S` is the last rule and `start` the last symbol id.      *)
(***************************************************************************)
EXTENDS Naturals, Sequences, FiniteSets

CONSTANTS
    Prods,      \* rule id |-> [lhs |-> symbol id, rhs |-> <<symbol ids>>]
    Start       \* Grammar::start, the id of the synthesised S_0 symbol

Rules == DOMAIN Prods
Symbols == 0..Start

ASSUME /\ Rules = 0..(Cardinality(Rules) - 1)
       /\ \A r \in Rules : Prods[r].lhs \in Symbols
                           /\ \A i \in DOMAIN Prods[r].rhs : Prods[r].rhs[i] \in Symbols

\* Grammar::Grammar, "find nonterms": the image of the lhs of every rule.
nonterminals == {Prods[r].lhs : r \in Rules}
Terminals == Symbols \ nonterminals

\* grammar.productions.equal_range(nt) : the rules of one nonterminal.
RulesOf(nt) == {r \in Rules : Prods[r].lhs = nt}

\* grammar.productions.find(grammar.start)->second : the augmentation rule.
StartRule == CHOOSE r \in Rules : Prods[r].lhs = Start

Rhs(r) == Prods[r].rhs
=============================================================================
