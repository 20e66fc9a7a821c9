------------------------------ MODULE NfaToDfa ------------------------------
(***************************************************************************)
(* NfaToDfa (src/fsm-pipeline/src/nfa2dfa.cpp): the subset construction.  *)
(* The NFA is [n, type, edges] as EpsNfa returns it; the DFA is built as   *)
(* [n, type, delta] (the form MinDfa reads), delta[v, c] the target of    *)
(* the one v -c-> edge or NoEdge.  One step pops one subset from the FIFO *)
(* worklist and handles every symbol of the alphabet for it.  The vertex  *)
(* names (a counter) label the rendered graph only and are left out.      *)
(***************************************************************************)
EXTENDS Integers, Sequences, SequencesExt, FiniteSets

CONSTANTS SigmaSeq, NoEdge

VARIABLES
    nfa,        \* the argument
    out,        \* Graph dfa
    dmap,       \* dfa_states_map: subset |-> DFA vertex
    queue,      \* std::queue<set<Vertex>> worklist
    npc         \* "init", "loop", "done"

nvars == <<nfa, out, dmap, queue, npc>>

Sigma == Range(SigmaSeq)

Accepting == {"Terminal", "StartTerminal"}
Starting  == {"Start", "StartTerminal"}

EmptyGraph == [n |-> 0, type |-> <<>>, delta |-> [x \in {} |-> NoEdge]]

\* boost::add_vertex with its type, and no out-edges yet.
AddVertex(g, t) ==
    [n     |-> g.n + 1,
     type  |-> [v \in 0..g.n |-> IF v = g.n THEN t ELSE g.type[v]],
     delta |-> [e \in (0..g.n) \X Sigma |-> IF e[1] = g.n THEN NoEdge ELSE g.delta[e]]]

\* Lines 66-72: the targets of the c-edges leaving the subset.
Move(g, S, c) == {e[3] : e \in {e \in g.edges : e[1] \in S /\ e[2] = c}}

\* set<char> alphabet, in order.
AlphabetOf(g) == SelectSeq(SigmaSeq, LAMBDA c : \E e \in g.edges : e[2] = c)

NfaInit ==
    /\ out = EmptyGraph
    /\ dmap = [S \in {} |-> 0]
    /\ queue = <<>>
    /\ npc = "init"

\* Lines 11-53: an empty NFA, or one without a start vertex, gives the
\* empty graph; otherwise the subset of the first start vertex becomes
\* DFA vertex 0, typed StartTerminal iff that vertex is.
NfaBegin ==
    /\ npc = "init"
    /\ LET starts == {v \in 0..(nfa.n - 1) : nfa.type[v] \in Starting}
       IN  IF starts = {}
           THEN /\ npc' = "done"
                /\ UNCHANGED <<out, dmap, queue>>
           ELSE LET s0 == CHOOSE s \in starts : \A t \in starts : s <= t
                IN  /\ out' = AddVertex(EmptyGraph,
                                        IF nfa.type[s0] \in Accepting
                                        THEN "StartTerminal" ELSE "Start")
                    /\ dmap' = {s0} :> 0
                    /\ queue' = <<{s0}>>
                    /\ npc' = "loop"
    /\ UNCHANGED nfa

OnSymbolNoPush(acc, S, c) ==
    LET T == Move(nfa, S, c)
        v == acc.dmap[S]
    IN  IF T = {} THEN acc
        ELSE LET new == T \notin DOMAIN acc.dmap
                 g1  == IF new
                        THEN AddVertex(acc.out, IF \E u \in T : nfa.type[u] \in Accepting
                                                THEN "Terminal" ELSE "Default")
                        ELSE acc.out
                 m1  == IF new THEN (T :> acc.out.n) @@ acc.dmap ELSE acc.dmap
             IN  [out |-> [g1 EXCEPT !.delta[<<v, c>>] = m1[T]], dmap |-> m1, queue |-> acc.queue]

\* One symbol of lines 63-109 for the DFA vertex v of subset S: an empty
\* target is skipped; a new target subset gets the next vertex, Terminal
\* iff it holds an accepting vertex, and is queued; then the edge.
OnSymbol(acc, S, c) ==
    LET T == Move(nfa, S, c)
        v == acc.dmap[S]
    IN  IF T = {} THEN acc
        ELSE LET new  == T \notin DOMAIN acc.dmap
                 g1   == IF new
                         THEN AddVertex(acc.out, IF \E u \in T : nfa.type[u] \in Accepting
                                                 THEN "Terminal" ELSE "Default")
                         ELSE acc.out
                 m1   == IF new THEN (T :> acc.out.n) @@ acc.dmap ELSE acc.dmap
             IN  [out   |-> [g1 EXCEPT !.delta[<<v, c>>] = m1[T]],
                  dmap  |-> m1,
                  queue |-> IF new THEN Append(acc.queue, T) ELSE acc.queue]

\* Lines 57-110: one iteration of the worklist loop.
NfaPop ==
    /\ npc = "loop"
    /\ queue # <<>>
    /\ LET S == Head(queue)
           r == FoldLeft(LAMBDA acc, c : OnSymbol(acc, S, c),
                         [out |-> out, dmap |-> dmap, queue |-> Tail(queue)],
                         AlphabetOf(nfa))
       IN  /\ out' = r.out
           /\ dmap' = r.dmap
           /\ queue' = r.queue
    /\ UNCHANGED <<nfa, npc>>

\* Line 115: the worklist is empty.
NfaReturn ==
    /\ npc = "loop"
    /\ queue = <<>>
    /\ npc' = "done"
    /\ UNCHANGED <<nfa, out, dmap, queue>>

NfaNext == NfaBegin \/ NfaPop \/ NfaReturn

-----------------------------------------------------------------------------
(* Properties                                                              *)

\* Every DFA vertex stands for one subset; a subset's vertex is accepting
\* iff the subset holds an accepting vertex (the start subset: iff its
\* vertex is StartTerminal); and a subset no longer queued has exactly the
\* edges of the subset construction, to the vertices of its successor
\* subsets, which are themselves discovered.  At the end nothing is
\* queued, so the DFA is the subset automaton of the reachable subsets.
SubsetAutomaton ==
    npc # "init" =>
        /\ \A S, T \in DOMAIN dmap : S # T => dmap[S] # dmap[T]
        /\ {dmap[S] : S \in DOMAIN dmap} = 0..(out.n - 1)
        /\ \A S \in DOMAIN dmap :
              /\ (out.type[dmap[S]] \in Accepting) = (\E u \in S : nfa.type[u] \in Accepting)
              /\ S \notin Range(queue) =>
                    \A c \in Sigma :
                       out.delta[<<dmap[S], c>>] =
                           IF Move(nfa, S, c) = {} THEN NoEdge
                           ELSE IF Move(nfa, S, c) \in DOMAIN dmap
                                THEN dmap[Move(nfa, S, c)] ELSE "undiscovered"
=============================================================================
