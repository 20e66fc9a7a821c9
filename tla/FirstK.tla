------------------------------- MODULE FirstK -------------------------------
(***************************************************************************)
(* GrammarAnalysis::build_kfirst (src/lr-k/include/first_k.hpp): the      *)
(* worklist fixed point that computes FIRST_k of every symbol.  One step   *)
(* of the model is one iteration of the `while (!worklist.empty())` loop.  *)
(* The initial queue order comes from iterating an unordered_map and the   *)
(* order in which dependents are re-queued from an unordered_multimap;     *)
(* both are implementation-defined, so both are chosen nondeterministically.*)
(***************************************************************************)
EXTENDS LRReference

VARIABLES
    k_first,                     \* symbol id |-> set of KStrings
    worklist,                    \* std::queue<int> of nonterminals
    worklist_double_entry_check  \* std::unordered_set<int>: ids now queued

vars == <<k_first, worklist, worklist_double_entry_check>>

\* The same, recording only the first rhs symbol.
DependsOnFirstSymbol(nt) == {Prods[r].lhs : r \in {q \in Rules : Rhs(q) # <<>> /\ Rhs(q)[1] = nt}}
\* _depends (constructor): nt |-> the lhs of every rule whose rhs mentions nt.
Depends(nt) == {Prods[r].lhs : r \in {q \in Rules : \E i \in DOMAIN Rhs(q) : Rhs(q)[i] = nt}}

\* The lookahead list one production contributes (loop body, lines 91-101):
\* {eps} for an empty rhs, else FIRST of rhs[0] k-concatenated with the
\* FIRST of every following symbol.
ProductionFirst(f, r) ==
    IF Rhs(r) = <<>> THEN {EmptyKString}
    ELSE FoldLeft(LAMBDA acc, t : k_concat(acc, f[t]), f[Rhs(r)[1]], Tail(Rhs(r)))

\* merge_lookahead_lists(lhs, rhs) reports a change iff the lists differ
\* (`bool changes = lhs != rhs`), not iff rhs adds a string to lhs.
ChangesIfNonEmpty(old, res) == res # {}
Changes(old, res) == old # res

\* `result`: the merge of the lists of all productions of nt.
Result(f, nt) == UNION {ProductionFirst(f, r) : r \in RulesOf(nt)}

\* The same, seeding nonterminals with their own id as well.
InitialFirstAll == [x \in Symbols |-> {KStringOf(x)}]
\* k_first after the initialisation loop: {KString(t)} for a terminal
\* ({KString()} when Lookahead = 0), the empty list for a nonterminal.
InitialFirst == [x \in Symbols |-> IF x \in nonterminals THEN {} ELSE {KStringOf(x)}]

Init ==
    /\ k_first = InitialFirst
    /\ worklist \in SetToSeqs(nonterminals)
    /\ worklist_double_entry_check = nonterminals

\* Pop the front nonterminal and recompute its list.  merge_lookahead_lists
\* reports a change whenever the old list differs from `result`; then every
\* dependent that is not queued any more is pushed, in some order.
PopChanged ==
    /\ worklist # <<>>
    /\ LET nt    == Head(worklist)
           res   == Result(k_first, nt)
           check == worklist_double_entry_check \ {nt}
           fresh == Depends(nt) \ check
       IN  /\ Changes(k_first[nt], res)
           /\ k_first' = [k_first EXCEPT ![nt] = @ \cup res]
           /\ \E order \in SetToSeqs(fresh) : worklist' = Tail(worklist) \o order
           /\ worklist_double_entry_check' = check \cup fresh

PopUnchanged ==
    /\ worklist # <<>>
    /\ LET nt == Head(worklist)
       IN  /\ ~Changes(k_first[nt], Result(k_first, nt))
           /\ worklist' = Tail(worklist)
           /\ worklist_double_entry_check' = worklist_double_entry_check \ {nt}
           /\ UNCHANGED k_first

Next == PopChanged \/ PopUnchanged

\* build_kfirst is a sequential loop: nothing else runs while it iterates.
Spec == Init /\ [][Next]_vars /\ WF_vars(Next)

-----------------------------------------------------------------------------
TypeOK ==
    /\ k_first \in [Symbols -> SUBSET Seq(Terminals)]
    /\ worklist \in Seq(nonterminals)
    /\ worklist_double_entry_check \subseteq nonterminals

\* Soundness of every intermediate state: the worklist never puts into
\* k_first a lookahead string the fixed point does not contain (k_concat
\* and KString::operator+ truncate correctly at K).
FirstKSound == \A x \in Symbols : k_first[x] \subseteq FirstKFix[x]

\* Completeness: once the queue is empty, k_first is the fixed point, and
\* one more round of the equations changes nothing (spec, section 8).  It
\* fails if a nonterminal whose input grew is never re-queued, e.g. because
\* the double-entry check still holds it or dependents are not pushed.
FixpointReached ==
    worklist = <<>> =>
        /\ k_first = FirstKFix
        /\ \A nt \in nonterminals : Result(k_first, nt) \subseteq k_first[nt]

\* The loop terminates: every FIRST_k set is bounded.
Terminates == <>(worklist = <<>>)
=============================================================================
