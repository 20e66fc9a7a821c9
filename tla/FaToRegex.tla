------------------------------ MODULE FaToRegex ------------------------------
(***************************************************************************)
(* faToRegex (src/fsm-pipeline/src/min_dfa2regex.cpp): the McNaughton-     *)
(* Yamada table R[k][i][j] of regex strings, built with union_str,         *)
(* concat_str, kleene_star_str and parenthesize_for_concat.  A string is   *)
(* a sequence of bytes (one-letter strings, "xHH" outside ASCII), so the   *)
(* four bytes of epsilon_utf8 count four in length().  The graph is        *)
(* [n, type, delta] as DfaToMinDfa returns it; boost::edges visits each    *)
(* vertex's out-edges in the order they were added, which for these        *)
(* graphs is the order of SigmaSeq.  One step is one iteration of the      *)
(* k loop (lines 109-124): every dp_curr[i][j] of it reads dp_prev only.   *)
(***************************************************************************)
EXTENDS Integers, Sequences, SequencesExt

CONSTANTS SigmaSeq, NoEdge

VARIABLES
    fa,         \* the argument graph
    dp,         \* dp_prev: <<i, j>> |-> string
    k,          \* the k of the main loop
    xpc,        \* "init", "loop", "done", "threw"
    regexOut    \* the returned string

xvars == <<fa, dp, k, xpc, regexOut>>

\* epsilon_utf8 (graph_type.cpp:4): the bytes of the literal "Ïµ".
epsilon_utf8 == <<"xC3", "x8F", "xC2", "xB5">>

Accepting == {"Terminal", "StartTerminal"}
Starting  == {"Start", "StartTerminal"}

-----------------------------------------------------------------------------
(* The string helpers of the anonymous namespace                          *)

\* Lines 8-17: scanning s[i..Len(s)-1] with the balance b of the
\* characters before i, the balance reaches 0: the first '(' is closed
\* before the last character.
RECURSIVE ClosesEarly(_, _, _)
ClosesEarly(s, i, b) ==
    IF i >= Len(s) THEN FALSE
    ELSE LET b2 == b + (IF s[i] = "(" THEN 1 ELSE IF s[i] = ")" THEN -1 ELSE 0)
         IN  b2 = 0 \/ ClosesEarly(s, i + 1, b2)

parenthesize_for_concat(s) ==
    LET needs_paren == \E i \in DOMAIN s : s[i] = "|"
        outer_paren == s # <<>> /\ s[1] = "(" /\ Last(s) = ")" /\ ~ClosesEarly(s, 1, 0)
    IN  IF s # <<>> /\ needs_paren /\ ~outer_paren THEN <<"(">> \o s \o <<")">> ELSE s

union_str(r1, r2) ==
    CASE r1 = <<>> -> r2
      [] r2 = <<>> -> r1
      [] r1 = r2   -> r1
      [] OTHER     -> r1 \o <<"|">> \o r2

\* A concat_str that does not parenthesize its operands.
concat_str_unparenthesized(r1, r2) ==
    CASE r1 = <<>> \/ r2 = <<>> -> <<>>
      [] r1 = epsilon_utf8      -> r2
      [] r2 = epsilon_utf8      -> r1
      [] OTHER -> r1 \o r2

concat_str(r1, r2) ==
    CASE r1 = <<>> \/ r2 = <<>> -> <<>>
      [] r1 = epsilon_utf8      -> r2
      [] r2 = epsilon_utf8      -> r1
      [] OTHER -> parenthesize_for_concat(r1) \o parenthesize_for_concat(r2)

kleene_star_str(r) ==
    CASE r = <<>>                      -> <<>>
      [] r = epsilon_utf8              -> epsilon_utf8
      [] Len(r) = 1                    -> r \o <<"*">>
      [] Len(r) > 1 /\ Last(r) = "*"   -> r
      [] OTHER                         -> <<"(">> \o r \o <<")", "*">>

-----------------------------------------------------------------------------
(* faToRegex                                                               *)

Idx(g) == 0..(g.n - 1)

\* Lines 79-87: the last Start/StartTerminal vertex, or -1.
StartIdx(g) ==
    LET starts == {i \in Idx(g) : g.type[i] \in Starting}
    IN  IF starts = {} THEN -1 ELSE CHOOSE s \in starts : \A t \in starts : t <= s

\* Lines 94-104: the labels of the u -> v edges, then ε on the diagonal.
InitialTable(g) ==
    LET Labels(u, v) ==
            FoldLeft(LAMBDA acc, c : IF g.delta[<<u, c>>] = v THEN union_str(acc, <<c>>) ELSE acc,
                     <<>>, SigmaSeq)
    IN  [e \in Idx(g) \X Idx(g) |->
            IF e[1] = e[2] THEN union_str(epsilon_utf8, Labels(e[1], e[2]))
            ELSE Labels(e[1], e[2])]

\* Lines 110-123: R[k][i][j] = R[k-1][i][j] | R[k-1][i][k] (R[k-1][k][k])* R[k-1][k][j].
Round(t, kk) ==
    [e \in DOMAIN t |->
        union_str(t[e], concat_str(concat_str(t[<<e[1], kk>>], kleene_star_str(t[<<kk, kk>>])),
                                   t[<<kk, e[2]>>]))]

\* Lines 126-129: the union over the final vertices, in vertex order.
FinalUnion(g, t) ==
    LET finals == SelectSeq([i \in 1..g.n |-> i - 1], LAMBDA i : g.type[i] \in Accepting)
    IN  FoldLeft(LAMBDA acc, f : union_str(acc, t[<<StartIdx(g), f>>]), <<>>, finals)

XInit ==
    /\ dp = [e \in {} |-> <<>>]
    /\ k = 0
    /\ xpc = "init"
    /\ regexOut = <<>>

\* Lines 61-104: an empty graph gives "", a graph without a start throws,
\* otherwise the k = 0 table.
ToRegexBegin ==
    /\ xpc = "init"
    /\ \/ /\ fa.n = 0
          /\ xpc' = "done"
          /\ UNCHANGED <<dp, k, regexOut>>
       \/ /\ fa.n > 0
          /\ StartIdx(fa) = -1
          /\ xpc' = "threw"
          /\ UNCHANGED <<dp, k, regexOut>>
       \/ /\ fa.n > 0
          /\ StartIdx(fa) # -1
          /\ dp' = InitialTable(fa)
          /\ k' = 0
          /\ xpc' = "loop"
          /\ UNCHANGED regexOut
    /\ UNCHANGED fa

\* One iteration of the k loop, ending with dp_prev = dp_curr.
ToRegexRound ==
    /\ xpc = "loop"
    /\ k < fa.n
    /\ dp' = Round(dp, k)
    /\ k' = k + 1
    /\ UNCHANGED <<fa, xpc, regexOut>>

ToRegexEnd ==
    /\ xpc = "loop"
    /\ k = fa.n
    /\ regexOut' = FinalUnion(fa, dp)
    /\ xpc' = "done"
    /\ UNCHANGED <<fa, dp, k>>

XNext == ToRegexBegin \/ ToRegexRound \/ ToRegexEnd
=============================================================================
