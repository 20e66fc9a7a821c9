------------------------------- MODULE MinDfa -------------------------------
(***************************************************************************)
(* DfaToMinDfa (src/fsm-pipeline/src/dfa2min_dfa.cpp): the alphabet of    *)
(* the edges, CompleteDfa's trap state, the accepting / non-accepting      *)
(* split, the Hopcroft-style refinement loop over a worklist of splitters, *)
(* and the construction of the quotient automaton.  One step pops a        *)
(* splitter, one step handles one symbol of the alphabet (the whole        *)
(* partition loop of lines 122-160), one step builds the result.           *)
(*                                                                         *)
(* A DFA is a record [n, type, delta]: vertices 0..n-1 (boost vecS         *)
(* descriptors), their VertexType, and delta[v, c] the target of the edge  *)
(* v -c-> or NoEdge.  find_transition_target returns the first such edge;  *)
(* the DFAs given here have at most one per symbol.                        *)
(***************************************************************************)
EXTENDS Integers, Sequences, SequencesExt, FiniteSets, FiniteSetsExt

CONSTANTS
    SigmaSeq,   \* the characters in std::set<char> order
    Inputs,     \* the DFAs DfaToMinDfa is called on
    NoEdge      \* no out-edge with this symbol

Sigma == Range(SigmaSeq)

VARIABLES
    input,      \* the argument, as passed
    dfa,        \* the local copy after CompleteDfa: [n, type, delta]
    alphabet,   \* the symbols of the edges, in set<char> order
    start,      \* start_vertex
    parts,      \* std::list<set<Vertex>> partitions
    worklist,   \* std::list<set<Vertex>> worklist
    A,          \* the splitter being processed
    syms,       \* the symbols of `alphabet` still to process for A
    pc,         \* "init", "loop", "done", "threw"
    min         \* the result graph: [n, type, delta]

vars == <<input, dfa, alphabet, start, parts, worklist, A, syms, pc, min>>

Accepting == {"Terminal", "StartTerminal"}
Starting  == {"Start", "StartTerminal"}

\* The empty graph Graph{}.
EmptyGraph == [n |-> 0, type |-> <<>>, delta |-> [x \in {} |-> NoEdge]]

\* find_transition_target(v, c, g).
Target(g, v, c) == g.delta[<<v, c>>]

-----------------------------------------------------------------------------
(* Steps 1-3                                                               *)

\* set<char> alphabet: the symbols on the edges, iterated in order.
EdgeAlphabet(g) ==
    SelectSeq(SigmaSeq, LAMBDA c : \E v \in 0..(g.n - 1) : Target(g, v, c) # NoEdge)

\* CompleteDfa: vertex n is the trap, Default, with a loop on every symbol;
\* every missing v -c-> edge goes to it.  Symbols outside the alphabet get
\* no edge.
CompleteDfa(g, al) ==
    [n     |-> g.n + 1,
     type  |-> [v \in 0..g.n |-> IF v = g.n THEN "Default" ELSE g.type[v]],
     delta |-> [e \in (0..g.n) \X Sigma |->
                  IF e[2] \notin Range(al) THEN NoEdge
                  ELSE IF e[1] < g.n /\ Target(g, e[1], e[2]) # NoEdge
                       THEN Target(g, e[1], e[2])
                       ELSE g.n]]

InitialPartsKeepEmpty(acc, non) == <<acc, non>>

\* The two initial blocks, the empty one left out, accepting first.
InitialParts(acc, non) ==
    SelectSeq(<<acc, non>>, LAMBDA b : b # {})

\* The smaller initial block, the accepting one on a tie.
InitialWorklist(acc, non) ==
    IF Cardinality(acc) <= Cardinality(non) /\ acc # {} THEN <<acc>>
    ELSE IF non # {} THEN <<non>> ELSE <<>>

Init ==
    /\ input \in Inputs
    /\ dfa = input
    /\ alphabet = <<>>
    /\ start = NoEdge
    /\ parts = <<>>
    /\ worklist = <<>>
    /\ A = {}
    /\ syms = <<>>
    /\ pc = "init"
    /\ min = EmptyGraph

\* Lines 58-102: an empty graph returns at once; otherwise the alphabet,
\* CompleteDfa, the start vertex (the last one typed Start or
\* StartTerminal; none throws), the initial partition and worklist.
Begin ==
    /\ pc = "init"
    /\ IF input.n = 0
       THEN /\ pc' = "done"
            /\ UNCHANGED <<dfa, alphabet, start, parts, worklist>>
       ELSE LET al  == EdgeAlphabet(input)
                g   == CompleteDfa(input, al)
                acc == {v \in 0..(g.n - 1) : g.type[v] \in Accepting}
                sv  == {v \in 0..(g.n - 1) : g.type[v] \in Starting}
            IN  /\ dfa' = g
                /\ alphabet' = al
                /\ IF sv = {}
                   THEN /\ pc' = "threw"
                        /\ UNCHANGED <<start, parts, worklist>>
                   ELSE /\ start' = Max(sv)
                        /\ parts' = InitialParts(acc, (0..(g.n - 1)) \ acc)
                        /\ worklist' = InitialWorklist(acc, (0..(g.n - 1)) \ acc)
                        /\ pc' = "loop"
    /\ UNCHANGED <<input, A, syms, min>>

-----------------------------------------------------------------------------
(* Step 4: the refinement loop                                             *)

PopSplitterKeepFront ==
    /\ pc = "loop"
    /\ syms = <<>>
    /\ worklist # <<>>
    /\ A' = Head(worklist)
    /\ syms' = alphabet
    /\ UNCHANGED <<input, dfa, alphabet, start, parts, worklist, pc, min>>

\* Lines 106-107: A = worklist.front(), popped; its symbols come next.
PopSplitter ==
    /\ pc = "loop"
    /\ syms = <<>>
    /\ worklist # <<>>
    /\ A' = Head(worklist)
    /\ worklist' = Tail(worklist)
    /\ syms' = alphabet
    /\ UNCHANGED <<input, dfa, alphabet, start, parts, pc, min>>

PredecessorsNoTrap(g, B, c) == {u \in 0..(g.n - 2) : Target(g, u, c) \in B}

\* Lines 111-118: S = {u | transition(u, c) is in A}.
Predecessors(g, B, c) == {u \in 0..(g.n - 1) : Target(g, u, c) \in B}

UpdateWorklistNoPush(wl, was, I, D) ==
    LET hits == {j \in 1..Len(wl) : wl[j] = was}
    IN  IF hits # {} THEN Append([wl EXCEPT ![Min(hits)] = I], D) ELSE wl

\* Lines 143-159 after a split of the block `was` into I and D.  `was` is
\* the value the code compares worklist items with: P is a reference to
\* *it, which line 139 has already overwritten, so `was` = I.
UpdateWorklist(wl, was, I, D) ==
    LET hits == {j \in 1..Len(wl) : wl[j] = was}
    IN  IF hits # {}
        THEN Append([wl EXCEPT ![Min(hits)] = I], D)
        ELSE Append(wl, IF Cardinality(I) <= Cardinality(D) THEN I ELSE D)

\* The partition loop of lines 122-160 from position i: a block that S
\* cuts is replaced by the intersection, the difference is inserted after
\* it, and the loop goes on at the difference.
RECURSIVE SplitFrom(_, _, _, _)
SplitFrom(ps, wl, i, S) ==
    IF i > Len(ps) THEN [parts |-> ps, worklist |-> wl]
    ELSE LET P == ps[i]
             I == P \cap S
             D == P \ I
         IN  IF I = {} \/ I = P
             THEN SplitFrom(ps, wl, i + 1, S)
             ELSE SplitFrom(InsertAt([ps EXCEPT ![i] = I], i + 1, D),
                            UpdateWorklist(wl, I, I, D), i + 1, S)

\* One iteration of `for (char c : alphabet)`.
Refine ==
    /\ pc = "loop"
    /\ syms # <<>>
    /\ LET S == Predecessors(dfa, A, Head(syms))
           r == SplitFrom(parts, worklist, 1, S)
       IN  /\ parts' = r.parts
           /\ worklist' = r.worklist
    /\ syms' = Tail(syms)
    /\ UNCHANGED <<input, dfa, alphabet, start, A, pc, min>>

-----------------------------------------------------------------------------
(* Steps 5-6: the quotient automaton                                       *)

\* old_vertex_to_partition_id.
BlockOf(ps, v) == CHOOSE i \in 0..(Len(ps) - 1) : v \in ps[i + 1]

BlockTypeStartOnly(g, b, sv) ==
    IF sv \in b THEN "Start"
    ELSE IF g.type[Min(b)] \in Accepting THEN "Terminal" ELSE "Default"

\* Lines 176-191: the type from the start vertex and the representative.
BlockType(g, b, sv) ==
    LET isStart == sv \in b
        isTerm  == g.type[Min(b)] \in Accepting
    IN  IF isStart /\ isTerm THEN "StartTerminal"
        ELSE IF isStart THEN "Start"
        ELSE IF isTerm THEN "Terminal" ELSE "Default"

\* Lines 203-217: the edges of each block are those of its representative.
Quotient(g, ps, sv) ==
    [n     |-> Len(ps),
     type  |-> [i \in 0..(Len(ps) - 1) |-> BlockType(g, ps[i + 1], sv)],
     delta |-> [e \in (0..(Len(ps) - 1)) \X Sigma |->
                  LET t == Target(g, Min(ps[e[1] + 1]), e[2])
                  IN  IF t = NoEdge THEN NoEdge ELSE BlockOf(ps, t)]]

Construct ==
    /\ pc = "loop"
    /\ syms = <<>>
    /\ worklist = <<>>
    /\ min' = Quotient(dfa, parts, start)
    /\ pc' = "done"
    /\ UNCHANGED <<input, dfa, alphabet, start, parts, worklist, A, syms>>

Next == Begin \/ PopSplitter \/ Refine \/ Construct

\* DfaToMinDfa is a sequential function: once called, it keeps running.
Spec == Init /\ [][Next]_vars /\ WF_vars(Next)

-----------------------------------------------------------------------------
(* Reference: the language of each vertex, read off the input             *)

\* The input's transition with missing edges sent to the dead vertex d.n.
RefStep(d, v, c) ==
    IF v < d.n /\ Target(d, v, c) # NoEdge THEN Target(d, v, c) ELSE d.n

RECURSIVE RefAccepts(_, _, _)
RefAccepts(d, v, w) ==
    IF w = <<>> THEN v < d.n /\ d.type[v] \in Accepting
    ELSE RefAccepts(d, RefStep(d, v, Head(w)), Tail(w))

\* Moore's construction: two of the d.n + 1 vertices are distinguished
\* when one accepts and the other does not, or when some symbol leads
\* them to a distinguished pair; the least fixpoint.
RECURSIVE Distinguished(_, _)
Distinguished(d, D) ==
    LET D2 == D \cup {pq \in (0..d.n) \X (0..d.n) :
                         \E c \in Sigma : <<RefStep(d, pq[1], c), RefStep(d, pq[2], c)>> \in D}
    IN  IF D2 = D THEN D ELSE Distinguished(d, D2)

\* The vertices accepting the same language as each vertex of d.
RefClasses(d) ==
    LET D == Distinguished(d, {pq \in (0..d.n) \X (0..d.n) :
                                  RefAccepts(d, pq[1], <<>>) # RefAccepts(d, pq[2], <<>>)})
    IN  [p \in 0..d.n |-> {q \in 0..d.n : <<p, q>> \notin D}]

\* The vertices reachable from the start of the completed input.
RECURSIVE Reach(_, _)
Reach(d, R) ==
    LET R2 == R \cup {RefStep(d, v, c) : v \in R, c \in Range(EdgeAlphabet(d))}
    IN  IF R2 = R THEN R ELSE Reach(d, R2)

RefStart(d) == CHOOSE v \in 0..(d.n - 1) : d.type[v] \in Starting

Done == pc \in {"done", "threw"}

-----------------------------------------------------------------------------
(* Properties                                                              *)

TypeOK ==
    /\ pc \in {"init", "loop", "done", "threw"}
    /\ parts \in Seq(SUBSET (0..(dfa.n - 1)) \ {{}})
    /\ worklist \in Seq(SUBSET (0..(dfa.n - 1)))
    /\ A \subseteq 0..(dfa.n - 1)
    /\ syms \in Seq(Sigma)

\* Throughout the refinement loop the blocks partition the vertices of the
\* completed DFA (trap included), and no split of lines 139-140 ever puts
\* two vertices with the same language into different blocks.
PartitionRefinesNerode ==
    pc \in {"loop", "done"} =>
        /\ UNION Range(parts) = 0..(dfa.n - 1)
        /\ \A i, j \in 1..Len(parts) : i # j => parts[i] \cap parts[j] = {}
        /\ LET C == RefClasses(input)
           IN  \A i \in 1..Len(parts) : \A v \in parts[i] : C[v] \subseteq parts[i]

\* When the worklist runs dry the blocks are exactly the Myhill-Nerode
\* classes: the worklist update of lines 143-159, which compares worklist
\* items with the already overwritten P, never drops a splitter that was
\* still needed.
PartitionIsNerode ==
    (pc = "done" /\ input.n > 0) => Range(parts) = Range(RefClasses(input))

\* The graph returned is the quotient of the input by its blocks: a block
\* is accepting iff its vertices are, only the block of the start vertex
\* is typed Start or StartTerminal, and the edge of a block on c leads to
\* the block of every member's c-successor (missing edges through the
\* trap).  With PartitionIsNerode this makes the result accept the
\* input's language.
MinIsQuotient ==
    (pc = "done" /\ input.n > 0) =>
        LET B(v) == BlockOf(parts, v)
        IN  /\ \A v \in 0..input.n :
                   /\ (min.type[B(v)] \in Accepting) = RefAccepts(input, v, <<>>)
                   /\ \A c \in Range(alphabet) :
                          min.delta[<<B(v), c>>] = B(RefStep(input, v, c))
            /\ \A b \in 0..(min.n - 1) :
                   (min.type[b] \in Starting) = (b = B(RefStart(input)))

\* DfaToMinDfa returns (or throws) on every input: the worklist empties.
Terminates == <>Done
=============================================================================
