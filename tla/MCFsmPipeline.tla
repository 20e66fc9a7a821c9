---------------------------- MODULE MCFsmPipeline ----------------------------
(***************************************************************************)
(* The pipeline on every text of up to MaxText characters over the        *)
(* operands a, b, $, the operators, the parentheses and a blank; on the   *)
(* printed form of every regex tree of up to MaxTree nodes; and on every  *)
(* DFA of up to MaxStates vertices in the shape NfaToDfa produces, given  *)
(* as an FA.  Each input comes with the options of a command line; every  *)
(* combination of the stage options is tried once on an empty input.     *)
(***************************************************************************)
EXTENDS FsmPipeline

MCSigmaSeq == <<"a", "b">>
MCAlnum == {"a", "b"}

MaxText == 3
Chars == {"a", "b", "$", "(", ")", "|", "*", "+", ".", " "}
Texts == UNION {[1..sz -> Chars] : sz \in 0..MaxText}

\* A user's ε is the UTF-8 bytes CF B5, which are not epsilon_utf8.
UserEps == <<"xCF", "xB5">>
EpsTexts == {UserEps, <<"a">> \o UserEps, <<"a", "|">> \o UserEps, <<"(">> \o UserEps \o <<")", "*">>}

MaxTree == 4
Leaves == {[op |-> "sym", c |-> "a"], [op |-> "sym", c |-> "b"], [op |-> "eps"]}

RECURSIVE TreesOfSize(_)
TreesOfSize(sz) ==
    IF sz = 1 THEN Leaves
    ELSE {[op |-> o, l |-> t] : o \in {"*", "+"}, t \in TreesOfSize(sz - 1)}
         \cup UNION {{[op |-> o, l |-> x, r |-> y] :
                         o \in {".", "|"}, x \in TreesOfSize(i), y \in TreesOfSize(sz - 1 - i)} :
                      i \in 1..(sz - 2)}

\* The text of a tree with the fewest parentheses: binding strength 4 for
\* an operand, 3 postfix, 2 concatenation (written by juxtaposition), 1 '|'.
Paren(x, need) == IF x.prec < need THEN <<"(">> \o x.s \o <<")">> ELSE x.s

RECURSIVE Show(_)
Show(t) ==
    CASE t.op = "sym" -> [s |-> <<t.c>>, prec |-> 4]
      [] t.op = "eps" -> [s |-> <<"$">>, prec |-> 4]
      [] t.op \in {"*", "+"} -> [s |-> Paren(Show(t.l), 3) \o <<t.op>>, prec |-> 3]
      [] t.op = "." -> [s |-> Paren(Show(t.l), 2) \o Paren(Show(t.r), 3), prec |-> 2]
      [] t.op = "|" -> [s |-> Paren(Show(t.l), 1) \o <<"|">> \o Paren(Show(t.r), 2), prec |-> 1]

MCRegexes ==
    {[text |-> Show(t).s, ast |-> t] : t \in UNION {TreesOfSize(sz) : sz \in 1..MaxTree}}
    \cup {[text |-> x, ast |-> NoAst] : x \in Texts \cup EpsTexts}

-----------------------------------------------------------------------------
(* The DFAs of stages 4-4: vertex 0 the start, the others Terminal or     *)
(* Default, at most one edge per symbol, numbered in the order NfaToDfa   *)
(* discovers them (FIFO worklist, symbols in order).                      *)

MaxStates == 3

RECURSIVE Discover(_, _, _)
Discover(d, todo, seen) ==
    IF todo = <<>> THEN seen
    ELSE LET u     == Head(todo)
             Add(acc, c) ==
                 LET t == d.delta[<<u, c>>]
                 IN  IF t = NoEdge \/ t \in Range(acc) THEN acc ELSE Append(acc, t)
             found == FoldLeft(Add, seen, SigmaSeq)
         IN  Discover(d, Tail(todo) \o SubSeq(found, Len(seen) + 1, Len(found)), found)

SubsetNumbered(d) == Discover(d, <<0>>, <<0>>) = [i \in 1..d.n |-> i - 1]

TypesOf(n) ==
    {t \in [0..(n - 1) -> {"Start", "StartTerminal", "Terminal", "Default"}] :
        /\ t[0] \in M!Starting
        /\ \A v \in 1..(n - 1) : t[v] \in {"Terminal", "Default"}}

DfasOf(n) ==
    {d \in [n : {n}, type : TypesOf(n),
            delta : [(0..(n - 1)) \X Range(SigmaSeq) -> (0..(n - 1)) \cup {NoEdge}]] :
        SubsetNumbered(d)}

MCFaInputs == {M!EmptyGraph} \cup UNION {DfasOf(n) : n \in 1..MaxStates}

-----------------------------------------------------------------------------
(* The jobs: --input-type, -f and -l, with an input.                      *)

Job(r, f, l, rx, d) ==
    [is_regex_input |-> r, first_stage |-> f, last_stage |-> l, regex |-> rx, fa |-> d]

\* The record an FA job carries in place of a regex.
FaRegex == [text |-> <<>>, ast |-> NoAst]

TreeRegexes == {x \in MCRegexes : x.ast # NoAst}

\* The DFAs of one vertex, and those of two whose vertex 1 alone accepts.
SmallDfas ==
    DfasOf(1) \cup {d \in DfasOf(2) : d.type = (0 :> "Start" @@ 1 :> "Terminal")}
TinyDfas == DfasOf(1)

\* Every -f and -l from -1 (the default) to one past the last stage.
StageOptions == -1..6

MCJobs ==
    \* regex input, default stages 1-4, and 1-5 for the trees
    {Job(TRUE, -1, -1, x, EmptyFa) : x \in MCRegexes}
    \cup {Job(TRUE, 1, 5, x, EmptyFa) : x \in TreeRegexes}
    \* FA input: -f 4 -l 4 on every DFA, -f 4 (to stage 5) on SmallDfas,
    \* -f 5 and the defaults (stages 2-5) on TinyDfas
    \cup {Job(FALSE, 4, 4, FaRegex, d) : d \in MCFaInputs}
    \cup {Job(FALSE, 4, -1, FaRegex, d) : d \in SmallDfas}
    \cup {Job(FALSE, f, -1, FaRegex, d) : f \in {-1, 5}, d \in TinyDfas}
    \* every option on an empty input
    \cup {Job(r, f, l, [text |-> <<>>, ast |-> NoAst], EmptyFa) :
             r \in BOOLEAN, f \in StageOptions, l \in StageOptions}
=============================================================================
