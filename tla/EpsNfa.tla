------------------------------- MODULE EpsNfa -------------------------------
(***************************************************************************)
(* epsNfaToNfa (src/fsm-pipeline/src/eps_nfa2nfa.cpp) on graphs of the     *)
(* form Regex produces: [n, type, edges], edges <<u, symbol, v>> with      *)
(* NoSymbol for an ε-edge.  The result keeps the vertices and their ids;  *)
(* q -c-> r for every r in the closure of the c-successors of q's         *)
(* closure; the types come from the old start and the terminals reached  *)
(* through ε-edges.                                                        *)
(***************************************************************************)
EXTENDS Integers, Sequences, SequencesExt, FiniteSets

CONSTANT NoSymbol

Accepting == {"Terminal", "StartTerminal"}
Starting  == {"Start", "StartTerminal"}

\* The targets of the ε-edges leaving a set of vertices.
EpsStep(g, S) == {e[3] : e \in {e \in g.edges : e[1] \in S /\ e[2] = NoSymbol}}

\* EpsilonClosure: the queue loop adds the ε-successors of every vertex it
\* takes, until nothing new is found.  The grown set is bound to `next`,
\* a value, rather than passed on as an expression over `states`.
RECURSIVE EpsilonClosure(_, _)
EpsilonClosure(states, g) ==
    IF EpsStep(g, states) \subseteq states THEN states
    ELSE UNION {EpsilonClosure(next, g) : next \in {states \cup EpsStep(g, states)}}

\* The c-successors of a set of vertices (lines 88-97).
Successors(g, S, c) == {e[3] : e \in {e \in g.edges : e[1] \in S /\ e[2] = c}}

\* set<char> alphabet of the symbols on the edges.
SymbolsOf(g) == {e[2] : e \in g.edges} \ {NoSymbol}

\* The last vertex typed Start or StartTerminal (lines 65-68, 118).
IsStart(g, q) ==
    LET starts == {v \in 0..(g.n - 1) : g.type[v] \in Starting}
    IN  starts # {} /\ q = CHOOSE s \in starts : \A t \in starts : t <= s

IsTerminalSelf(g, q) == g.type[q] \in Accepting

\* Lines 120-127: some old terminal lies in q's ε-closure.
IsTerminal(g, q) ==
    EpsilonClosure({q}, g) \cap {v \in 0..(g.n - 1) : g.type[v] \in Accepting} # {}

epsNfaToNfa(g) ==
    [n     |-> g.n,
     type  |-> [q \in 0..(g.n - 1) |->
                  IF IsStart(g, q) /\ IsTerminal(g, q) THEN "StartTerminal"
                  ELSE IF IsStart(g, q) THEN "Start"
                  ELSE IF IsTerminal(g, q) THEN "Terminal" ELSE "Default"],
     edges |-> UNION {{<<q, c, r>> :
                          r \in EpsilonClosure(Successors(g, EpsilonClosure({q}, g), c), g)} :
                      q \in 0..(g.n - 1), c \in SymbolsOf(g)}]
=============================================================================
