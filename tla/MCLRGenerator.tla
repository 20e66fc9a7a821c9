--------------------------- MODULE MCLRGenerator ---------------------------
(***************************************************************************)
(* The generator's two analyses on the test grammars, one job per          *)
(* behaviour: build_kfirst on the lr-3 grammar with Lookahead = 3, and     *)
(* Builder::build on an LR(2), non-LR(1) grammar with Lookahead = 1 (it    *)
(* must throw) and with Lookahead = 2 (it must build the canonical         *)
(* tables).  Lookahead is a template parameter, so each job is its own     *)
(* instance; the job is fixed in the initial state.  Symbol ids follow     *)
(* the loader's first-seen order, and S_0 -> S comes last.                 *)
(***************************************************************************)
EXTENDS Naturals, Sequences, TLC

\* lr-3 (src/lr-k/tests/test_first.cpp, FirstKTest1); the grammar file is
\* not in the repository, and this one has exactly the FIRST_3 sets the
\* test expects:  S -> A B C | A -> a | A -> eps | B -> b b | B -> eps |
\* C -> c d c C | C -> d.  S=0 A=1 B=2 C=3 a=4 b=5 c=6 d=7 S_0=8.
Lr3Prods ==
    0 :> [lhs |-> 0, rhs |-> <<1, 2, 3>>] @@
    1 :> [lhs |-> 1, rhs |-> <<4>>] @@
    2 :> [lhs |-> 1, rhs |-> <<>>] @@
    3 :> [lhs |-> 2, rhs |-> <<5, 5>>] @@
    4 :> [lhs |-> 2, rhs |-> <<>>] @@
    5 :> [lhs |-> 3, rhs |-> <<6, 7, 6, 3>>] @@
    6 :> [lhs |-> 3, rhs |-> <<7>>] @@
    7 :> [lhs |-> 8, rhs |-> <<0>>]

\* LR(2) but not LR(1): S -> A x y | S -> B x z | S -> c S | A -> a | B -> a.
\* After a, the reductions to A and B share lookahead x; the right-recursive
\* S -> c S meets them again below every c.  S=0 A=1 x=2 y=3 B=4 z=5 a=6
\* c=7 S_0=8.
LR2cProds ==
    0 :> [lhs |-> 0, rhs |-> <<1, 2, 3>>] @@
    1 :> [lhs |-> 0, rhs |-> <<4, 2, 5>>] @@
    2 :> [lhs |-> 0, rhs |-> <<7, 0>>] @@
    3 :> [lhs |-> 1, rhs |-> <<6>>] @@
    4 :> [lhs |-> 4, rhs |-> <<6>>] @@
    5 :> [lhs |-> 8, rhs |-> <<0>>]

VARIABLES
    job,                          \* "first", "k1" or "k2"
    k_first, worklist, worklist_double_entry_check,
    table_, goto_, action_, bworklist, status

fvars == <<worklist, worklist_double_entry_check>>
bvars == <<table_, goto_, action_, bworklist, status>>
vars  == <<job, k_first, fvars, bvars>>

F  == INSTANCE FirstK    WITH K <- 3, Start <- 8, Prods <- Lr3Prods
B1 == INSTANCE LRBuilder WITH K <- 1, Start <- 8, Prods <- LR2cProds, worklist <- bworklist
B2 == INSTANCE LRBuilder WITH K <- 2, Start <- 8, Prods <- LR2cProds, worklist <- bworklist

\* The reference fixed point gives the sets FirstKTest1 asserts.
ASSUME /\ F!FirstKFix[3] = {<<6, 7, 6>>, <<7>>}
       /\ F!FirstKFix[2] = {<<5, 5>>, <<>>}
       /\ F!FirstKFix[1] = {<<4>>, <<>>}
       /\ F!FirstKFix[0] = {<<4, 5, 5>>, <<4, 6, 7>>, <<4, 7>>, <<5, 5, 6>>,
                            <<5, 5, 7>>, <<6, 7, 6>>, <<7>>}

Init ==
    \/ job = "first" /\ F!Init /\ B1!BuilderInit
    \/ job = "k1" /\ B1!Init /\ worklist = <<>> /\ worklist_double_entry_check = {}
    \/ job = "k2" /\ B2!Init /\ worklist = <<>> /\ worklist_double_entry_check = {}

FirstStep == job = "first" /\ F!Next /\ UNCHANGED <<job, bvars>>
BuildK1   == job = "k1" /\ B1!Next /\ UNCHANGED <<job, fvars>>
BuildK2   == job = "k2" /\ B2!Next /\ UNCHANGED <<job, fvars>>

Next == FirstStep \/ BuildK1 \/ BuildK2

\* Each job is one sequential loop that keeps running while it can.  Only
\* build_kfirst's termination is checked, so only its step is fair.
Spec == Init /\ [][Next]_vars /\ WF_vars(FirstStep)

-----------------------------------------------------------------------------
\* Every job's own type invariant.
TypeOK ==
    /\ job \in {"first", "k1", "k2"}
    /\ job = "first" => F!TypeOK
    /\ job = "k1" => B1!TypeOK
    /\ job = "k2" => B2!TypeOK

\* FIRST_k: no intermediate k_first holds a string the fixed point lacks.
FirstKSound == job = "first" => F!FirstKSound

\* FIRST_k: an empty queue means k_first is the fixed point.
FixpointReached == job = "first" => F!FixpointReached

\* build(): a conflict is thrown exactly when the grammar is not LR(k),
\* at Lookahead 1 (where it must throw) and at 2 (where it must not).
ConflictIffNotLRk ==
    /\ job = "k1" => B1!ConflictIffNotLRk
    /\ job = "k2" => B2!ConflictIffNotLRk

\* build(): a finished build has the canonical states and GOTO, in every
\* has_token numbering.
BuiltIsCanonical ==
    /\ job = "k1" => B1!BuiltIsCanonical
    /\ job = "k2" => B2!BuiltIsCanonical

\* build(): a finished build has the canonical ACTION rows, with ACCEPT
\* over REDUCE(S_0 -> S).
ActionsAreCanonical ==
    /\ job = "k1" => B1!ActionsAreCanonical
    /\ job = "k2" => B2!ActionsAreCanonical

\* build_kfirst ends: every FIRST_k set is bounded, so the re-queueing of
\* dependents stops and the queue empties.
Terminates == job = "first" => <>(worklist = <<>>)
=============================================================================
