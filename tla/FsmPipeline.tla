---------------------------- MODULE FsmPipeline ----------------------------
(***************************************************************************)
(* The fsm-pipeline program (src/fsm-pipeline/src/main.cpp): getPipeline  *)
(* turns the options into a list of steps, and Pipeline::execute runs     *)
(* them one after another, each step's result the next one's argument     *)
(* (an std::any cast to the type the next step takes).  A regex input     *)
(* starts with parseRegex, an FA input with parseFa, whose JSON reading   *)
(* is taken as given: its graph is the job's `fa`.  epsNfaToNfa is one    *)
(* step (a pure function); parseRegex, NfaToDfa, DfaToMinDfa and          *)
(* faToRegex step through their loops.  The last step renders the graph  *)
(* (not modelled beyond its call) or prints the regex with a '\n'.        *)
(***************************************************************************)
EXTENDS Integers, Sequences, SequencesExt, FiniteSets

CONSTANTS
    SigmaSeq,   \* the symbols, in set<char> order
    Alnum,      \* the characters std::isalnum accepts
    NoSymbol,   \* an ε-edge
    NoEdge,     \* no edge on a symbol
    NoAst,      \* a regex input with no tree of its own
    Jobs        \* [is_regex_input, first_stage, last_stage, regex, fa]:
                \* the options, the regex input ([text, ast]) and the FA input

VARIABLES
    job,        \* the options and the input
    stage,      \* "options", "run", "done", "threw"
    steps,      \* Pipeline::m_steps, by the name of each function
    at,         \* the step execute is at
    printed,    \* what printRegex writes
    infix, postfix, ops, pos, g, frags, rpc,                   \* parseRegex
    nfa, out, dmap, queue, npc,                                \* NfaToDfa
    input, dfa, alphabet, start, parts, worklist, A, syms, pc, min,  \* DfaToMinDfa
    fa, dp, k, xpc, regexOut                                   \* faToRegex

rvars == <<infix, postfix, ops, pos, g, frags, rpc>>
nvars == <<nfa, out, dmap, queue, npc>>
mvars == <<input, dfa, alphabet, start, parts, worklist, A, syms, pc, min>>
xvars == <<fa, dp, k, xpc, regexOut>>
vars  == <<job, stage, steps, at, printed, rvars, nvars, mvars, xvars>>

R == INSTANCE Regex WITH raw <- job.regex.text
E == INSTANCE EpsNfa
N == INSTANCE NfaToDfa
M == INSTANCE MinDfa WITH Inputs <- {}   \* MinDfa!Init is not used here
X == INSTANCE FaToRegex

-----------------------------------------------------------------------------
(* getPipeline (main.cpp:247-318)                                          *)

\* Lines 248-266: the stage range after the defaults.
FirstStage(o) ==
    IF o.is_regex_input \/ o.first_stage # -1 THEN (IF o.is_regex_input THEN 1 ELSE o.first_stage)
    ELSE 2

LastStage(o) ==
    IF o.last_stage # -1 THEN o.last_stage
    ELSE IF o.is_regex_input THEN 4 ELSE 5

\* Lines 249-251, 257-259 and 268-270: the runtime_errors it throws.
PipelineThrows(o) ==
    \/ o.is_regex_input /\ o.first_stage \notin {1, -1}
    \/ ~o.is_regex_input /\ o.first_stage = 1
    \/ LastStage(o) < FirstStage(o)
    \/ LastStage(o) > 5
    \/ FirstStage(o) < 1

\* The step of each Stage value (lines 288-306).
StageStep == <<"parseRegex", "epsNfaToNfa", "NfaToDfa", "DfaToMinDfa", "faToRegex">>

\* A getPipeline that renders the graph only after stages 1-3.
getPipelineRenderBelowMin(o) ==
    LET f == FirstStage(o)
        l == LastStage(o)
    IN  (IF f > 1 THEN <<"parseFa">> ELSE <<>>)
        \o [i \in 1..(l - f + 1) |-> StageStep[f + i - 1]]
        \o <<IF l >= 1 /\ l < 4 THEN "renderGraph" ELSE "printRegex">>

\* Lines 282-316: parseFa unless the regex stage comes first, the stages
\* in order, then renderGraph after a graph stage or printRegex.
getPipeline(o) ==
    LET f == FirstStage(o)
        l == LastStage(o)
    IN  (IF f > 1 THEN <<"parseFa">> ELSE <<>>)
        \o [i \in 1..(l - f + 1) |-> StageStep[f + i - 1]]
        \o <<IF l >= 1 /\ l <= 4 THEN "renderGraph" ELSE "printRegex">>

\* The function of the step being executed.
Cur == steps[at]

\* The step after it, which takes its result.
Following == steps[at + 1]

\* parseFa's graph as the ε-NFA stages read a graph: its edge set.
EdgeForm(d) ==
    [n     |-> d.n,
     type  |-> d.type,
     edges |-> {<<e[1], e[2], d.delta[e]>> : e \in {e \in DOMAIN d.delta : d.delta[e] # NoEdge}}]

\* execute (pipeline.hpp:55-61): the result becomes the argument of the
\* following step.
PassOn(gr) ==
    /\ g'     = IF Following = "epsNfaToNfa" THEN gr ELSE g
    /\ nfa'   = IF Following = "NfaToDfa" THEN gr ELSE nfa
    /\ input' = IF Following = "DfaToMinDfa" THEN gr ELSE input
    /\ dfa'   = IF Following = "DfaToMinDfa" THEN gr ELSE dfa
    /\ fa'    = IF Following = "faToRegex" THEN gr ELSE fa
    /\ at'    = at + 1

EmptyFa == [n |-> 0, type |-> <<>>, delta |-> [x \in {} |-> NoEdge]]

Init ==
    /\ job \in Jobs
    /\ stage = "options"
    /\ steps = <<>>
    /\ at = 0
    /\ printed = <<>>
    /\ R!RInit
    /\ nfa = R!EmptyNfa /\ N!NfaInit
    /\ input = M!EmptyGraph /\ dfa = M!EmptyGraph
    /\ alphabet = <<>> /\ start = NoEdge /\ parts = <<>> /\ worklist = <<>>
    /\ A = {} /\ syms = <<>> /\ pc = "init" /\ min = M!EmptyGraph
    /\ fa = EmptyFa /\ X!XInit

\* main.cpp:323: getPipeline builds the steps, or throws.
GetPipeline ==
    /\ stage = "options"
    /\ IF PipelineThrows(job)
       THEN /\ stage' = "threw"
            /\ UNCHANGED <<steps, at>>
       ELSE /\ steps' = getPipeline(job)
            /\ at' = 1
            /\ stage' = "run"
    /\ UNCHANGED <<job, printed, rvars, nvars, mvars, xvars>>

\* parseFa (main.cpp:96-175): the parsed graph goes to the following step.
\* EmptyFa stands for the input it throws on (no JSON object, a start not
\* in S, a bad transition); every graph it returns has a Start vertex.
ParseFa ==
    /\ stage = "run" /\ Cur = "parseFa"
    /\ job.fa # EmptyFa
    /\ PassOn(IF Following \in {"epsNfaToNfa", "NfaToDfa"} THEN EdgeForm(job.fa) ELSE job.fa)
    /\ UNCHANGED <<job, stage, steps, printed, infix, postfix, ops, pos, frags, rpc,
                   out, dmap, queue, npc, alphabet, start, parts, worklist, A, syms, pc, min,
                   dp, k, xpc, regexOut>>

\* Stage 1, one step of parseRegex (regex2eps_nfa.cpp:229-234).
Parse ==
    /\ stage = "run" /\ Cur = "parseRegex"
    /\ UNCHANGED job
    /\ R!RNext
    /\ UNCHANGED <<stage, steps, at, printed, nvars, mvars, xvars>>

\* Whether the step being executed has thrown: parseRegex and parseFa on
\* their input, DfaToMinDfa (dfa2min_dfa.cpp:89-91) and faToRegex
\* (min_dfa2regex.cpp:88-91) on a graph without a start vertex.
Status(st) ==
    CASE st = "parseRegex"  -> rpc
      [] st = "parseFa"     -> IF job.fa = EmptyFa THEN "threw" ELSE "run"
      [] st = "DfaToMinDfa" -> pc
      [] st = "faToRegex"   -> xpc
      [] OTHER              -> "run"

\* main.cpp:321-330: nothing catches an exception, which ends the program
\* before anything more is written.
StepThrew ==
    /\ stage = "run"
    /\ Status(Cur) = "threw"
    /\ stage' = "threw"
    /\ UNCHANGED <<job, steps, at, printed, rvars, nvars, mvars, xvars>>

\* parseRegex returns its ε-NFA.
ParseDone ==
    /\ stage = "run" /\ Cur = "parseRegex"
    /\ rpc = "done"
    /\ PassOn(g)
    /\ UNCHANGED <<job, stage, steps, printed, infix, postfix, ops, pos, frags, rpc,
                   out, dmap, queue, npc, alphabet, start, parts, worklist, A, syms, pc, min,
                   dp, k, xpc, regexOut>>

\* Stage 2: epsNfaToNfa, a function without a loop of its own.
EpsFree ==
    /\ stage = "run" /\ Cur = "epsNfaToNfa"
    /\ PassOn(E!epsNfaToNfa(g))
    /\ UNCHANGED <<job, stage, steps, printed, infix, postfix, ops, pos, frags, rpc,
                   out, dmap, queue, npc, alphabet, start, parts, worklist, A, syms, pc, min,
                   dp, k, xpc, regexOut>>

\* Stage 3, one step of NfaToDfa, and its return.
Subset ==
    /\ stage = "run" /\ Cur = "NfaToDfa"
    /\ N!NfaNext
    /\ UNCHANGED <<job, stage, steps, at, printed, rvars, mvars, xvars>>

SubsetDone ==
    /\ stage = "run" /\ Cur = "NfaToDfa"
    /\ npc = "done"
    /\ PassOn(out)
    /\ UNCHANGED <<job, stage, steps, printed, infix, postfix, ops, pos, frags, rpc,
                   out, dmap, queue, npc, alphabet, start, parts, worklist, A, syms, pc, min,
                   dp, k, xpc, regexOut>>

\* Stage 4, one step of DfaToMinDfa, and its return.
Minimise ==
    /\ stage = "run" /\ Cur = "DfaToMinDfa"
    /\ M!Next
    /\ UNCHANGED <<job, stage, steps, at, printed, rvars, nvars, xvars>>

MinimiseDone ==
    /\ stage = "run" /\ Cur = "DfaToMinDfa"
    /\ pc = "done"
    /\ PassOn(min)
    /\ UNCHANGED <<job, stage, steps, printed, infix, postfix, ops, pos, frags, rpc,
                   out, dmap, queue, npc, alphabet, start, parts, worklist, A, syms, pc, min,
                   dp, k, xpc, regexOut>>

\* Stage 5, one step of faToRegex, and its return.
ToRegex ==
    /\ stage = "run" /\ Cur = "faToRegex"
    /\ X!XNext
    /\ UNCHANGED <<job, stage, steps, at, printed, rvars, nvars, mvars>>

ToRegexDone ==
    /\ stage = "run" /\ Cur = "faToRegex"
    /\ xpc = "done"
    /\ at' = at + 1
    /\ UNCHANGED <<job, stage, steps, printed, rvars, nvars, mvars, xvars>>

\* renderGraph writes the .dot file; the program ends.
Render ==
    /\ stage = "run" /\ Cur = "renderGraph"
    /\ stage' = "done"
    /\ UNCHANGED <<job, steps, at, printed, rvars, nvars, mvars, xvars>>

\* printRegex (main.cpp:235-238): the string and a newline.
PrintRegex ==
    /\ stage = "run" /\ Cur = "printRegex"
    /\ printed' = regexOut \o <<"\n">>
    /\ stage' = "done"
    /\ UNCHANGED <<job, steps, at, rvars, nvars, mvars, xvars>>

Next ==
    \/ GetPipeline \/ StepThrew
    \/ ParseFa
    \/ Parse \/ ParseDone
    \/ EpsFree
    \/ Subset \/ SubsetDone
    \/ Minimise \/ MinimiseDone
    \/ ToRegex \/ ToRegexDone
    \/ Render \/ PrintRegex

\* execute runs the steps in sequence; nothing else runs.
Spec == Init /\ [][Next]_vars /\ WF_vars(Next)

-----------------------------------------------------------------------------
(* Reference: regular expressions as the usual grammar and language,     *)
(* written without the shunting-yard or Thompson's construction.          *)
(*   alt  ::= cat ('|' cat)*     cat ::= post ('.'? post)*                *)
(*   post ::= atom ('*' | '+')*  atom ::= operand | '(' alt ')'           *)
(* Blanks are insignificant.  A tree is [op |-> "sym", c |-> ch],         *)
(* [op |-> "eps"], [op |-> "*" or "+", l |-> t], or [op |-> "." or "|",   *)
(* l |-> t, r |-> t].                                                     *)

\* The positions just after an atom, post, cat or alt starting at i.
RECURSIVE AltEnds(_, _), AltFrom(_, _), CatEnds(_, _), CatFrom(_, _), PostEnds(_, _), AtomEnds(_, _)
AtomEnds(s, i) ==
    IF i > Len(s) THEN {}
    ELSE IF R!isOperand(s[i]) THEN {i + 1}
    ELSE IF s[i] = "(" THEN {j + 1 : j \in {j \in AltEnds(s, i + 1) : j <= Len(s) /\ s[j] = ")"}}
    ELSE {}

RECURSIVE Postfixed(_, _)
Postfixed(s, Js) ==
    LET J2 == Js \cup {j + 1 : j \in {j \in Js : j <= Len(s) /\ s[j] \in {"*", "+"}}}
    IN  IF J2 = Js THEN Js ELSE Postfixed(s, J2)

PostEnds(s, i) == Postfixed(s, AtomEnds(s, i))

\* The ends of cat and alt: add the post or cat after a '.' or '|' to a
\* set of ends until nothing new comes.
CatStep(s, Js) ==
    Js \cup UNION {PostEnds(s, j) \cup (IF j <= Len(s) /\ s[j] = "." THEN PostEnds(s, j + 1) ELSE {}) : j \in Js}

CatFrom(s, Js) ==
    IF CatStep(s, Js) = Js THEN Js ELSE CatFrom(s, CatStep(s, Js))

CatEnds(s, i) == CatFrom(s, PostEnds(s, i))

AltStep(s, Js) ==
    Js \cup UNION {IF j <= Len(s) /\ s[j] = "|" THEN CatEnds(s, j + 1) ELSE {} : j \in Js}

AltFrom(s, Js) ==
    IF AltStep(s, Js) = Js THEN Js ELSE AltFrom(s, AltStep(s, Js))

AltEnds(s, i) == AltFrom(s, CatEnds(s, i))

\* The characters the grammar is about.
RegexChars == Alnum \cup {R!replace_eps, "(", ")", "|", "*", "+", "."} \cup R!Blank

WellFormed(text) ==
    LET s == SelectSeq(text, LAMBDA c : c \notin R!Blank)
    IN  Len(s) + 1 \in AltEnds(s, 1)

RECURSIVE Matches(_, _)
Matches(t, w) ==
    CASE t.op = "sym" -> w = <<t.c>>
      [] t.op = "eps" -> w = <<>>
      [] t.op = "|"   -> Matches(t.l, w) \/ Matches(t.r, w)
      [] t.op = "."   -> \E i \in 0..Len(w) :
                            Matches(t.l, SubSeq(w, 1, i)) /\ Matches(t.r, SubSeq(w, i + 1, Len(w)))
      [] t.op = "*"   -> \/ w = <<>>
                         \/ \E i \in 1..Len(w) :
                               Matches(t.l, SubSeq(w, 1, i)) /\ Matches(t, SubSeq(w, i + 1, Len(w)))
      [] t.op = "+"   -> \E i \in 0..Len(w) :
                            Matches(t.l, SubSeq(w, 1, i))
                            /\ Matches([op |-> "*", l |-> t.l], SubSeq(w, i + 1, Len(w)))

\* What the rendered graph accepts: from its start vertex along delta.
RECURSIVE Runs(_, _, _)
Runs(gr, v, w) ==
    IF w = <<>> THEN gr.type[v] \in M!Accepting
    ELSE gr.delta[<<v, Head(w)>>] # NoEdge /\ Runs(gr, gr.delta[<<v, Head(w)>>], Tail(w))

GraphAccepts(gr, w) == \E v \in 0..(gr.n - 1) : gr.type[v] \in M!Starting /\ Runs(gr, v, w)

\* The words the language properties compare on.
MaxWord == 4
Words == UNION {[1..m -> Range(SigmaSeq)] : m \in 0..MaxWord}

-----------------------------------------------------------------------------
(* Reference: a well-formed text read as a tree, by splitting at the last *)
(* top-level '|', then at the last top-level '.' or atom start, then off  *)
(* the postfix operators; and a tree's language as the set of its words  *)
(* up to MaxWord.                                                          *)

\* The nesting depth of the parentheses before each position.
Depths(s) ==
    [i \in 1..Len(s) |->
        LET pre == SubSeq(s, 1, i - 1)
        IN  Len(SelectSeq(pre, LAMBDA c : c = "(")) - Len(SelectSeq(pre, LAMBDA c : c = ")"))]

\* The last position of lo..hi at the depth of lo that satisfies P, or 0.
LastTop(D, lo, hi, P(_)) ==
    LET top == {i \in lo..hi : D[i] = D[lo] /\ P(i)}
    IN  IF top = {} THEN 0 ELSE CHOOSE i \in top : \A j \in top : j <= i

\* s[lo..hi] read as an alt, a cat and a post.
RECURSIVE ReadAlt(_, _, _, _), ReadCat(_, _, _, _), ReadPost(_, _, _, _)
ReadAlt(s, D, lo, hi) ==
    LET m == LastTop(D, lo, hi, LAMBDA i : s[i] = "|")
    IN  IF m = 0 THEN ReadCat(s, D, lo, hi)
        ELSE [op |-> "|", l |-> ReadAlt(s, D, lo, m - 1), r |-> ReadCat(s, D, m + 1, hi)]

\* A cat splits before its last top-level atom, an explicit '.' dropped.
ReadCat(s, D, lo, hi) ==
    LET m == LastTop(D, lo, hi, LAMBDA i : i > lo /\ (R!isOperand(s[i]) \/ s[i] = "("))
    IN  IF m = 0 THEN ReadPost(s, D, lo, hi)
        ELSE [op |-> ".", l |-> ReadCat(s, D, lo, IF s[m - 1] = "." THEN m - 2 ELSE m - 1),
                          r |-> ReadPost(s, D, m, hi)]

ReadPost(s, D, lo, hi) ==
    CASE s[hi] \in {"*", "+"}            -> [op |-> s[hi], l |-> ReadPost(s, D, lo, hi - 1)]
      [] lo = hi /\ s[lo] = R!replace_eps -> [op |-> "eps"]
      [] lo = hi                         -> [op |-> "sym", c |-> s[lo]]
      [] OTHER                           -> ReadAlt(s, D, lo + 1, hi - 1)

ReadTree(s) == ReadAlt(s, Depths(s), 1, Len(s))

\* The words of at most MaxWord symbols of each language.
CatWords(L1, L2) == {w \in {u \o v : u \in L1, v \in L2} : Len(w) <= MaxWord}

RECURSIVE StarWords(_, _)
StarWords(L, S) ==
    LET S2 == S \cup CatWords(L, S)
    IN  IF S2 = S THEN S ELSE StarWords(L, S2)

RECURSIVE Lang(_)
Lang(t) ==
    CASE t.op = "sym" -> {<<t.c>>}
      [] t.op = "eps" -> {<<>>}
      [] t.op = "|"   -> Lang(t.l) \cup Lang(t.r)
      [] t.op = "."   -> CatWords(Lang(t.l), Lang(t.r))
      [] t.op = "*"   -> StarWords(Lang(t.l), {<<>>})
      [] t.op = "+"   -> LET L == Lang(t.l) IN CatWords(L, StarWords(L, {<<>>}))

\* A printed text as parseRegex's preprocessRegex reads it back: every
\* epsilon_utf8 replaced by replace_eps, the blanks dropped.
ReadBack(text) == SelectSeq(R!ReplaceEps(text, 1), LAMBDA c : c \notin R!Blank)

\* The language of the job's input, where the model has one.
HasReference == IF job.is_regex_input THEN job.regex.ast # NoAst ELSE TRUE

InputLanguage ==
    IF job.is_regex_input THEN {w \in Words : Matches(job.regex.ast, w)}
    ELSE {w \in Words : GraphAccepts(job.fa, w)}

Finished == stage \in {"done", "threw"}

\* The argument and result types of each step (pipeline.hpp:33-34).
ArgType(st) == IF st \in {"parseRegex", "parseFa", "printRegex"} THEN "string" ELSE "Graph"
RetType(st) ==
    CASE st \in {"renderGraph", "printRegex"} -> "void"
      [] st = "faToRegex"                     -> "string"
      [] OTHER                                -> "Graph"

-----------------------------------------------------------------------------
(* Properties                                                              *)

TypeOK ==
    /\ stage \in {"options", "run", "done", "threw"}
    /\ stage = "run" => at \in DOMAIN steps
    /\ npc \in {"init", "loop", "done"}
    /\ xpc \in {"init", "loop", "done", "threw"}
    /\ M!TypeOK

\* NfaToDfa's graph is the subset automaton of the ε-free NFA, built one
\* worklist pop at a time (NfaToDfa!SubsetAutomaton).
SubsetAutomaton == N!SubsetAutomaton

\* DfaToMinDfa never splits two vertices with the same language, on the
\* graphs NfaToDfa returns and on the parsed DFAs alike.
PartitionRefinesNerode == M!PartitionRefinesNerode

\* DfaToMinDfa's final blocks are the Myhill-Nerode classes.
PartitionIsNerode == M!PartitionIsNerode

\* DfaToMinDfa returns the quotient of its argument by the blocks.
MinIsQuotient == M!MinIsQuotient

\* The graph DfaToMinDfa returns for a regex accepts exactly the words the
\* regex denotes (on the words up to MaxWord): the shunting-yard with its
\* precedence map and explicit '.', Thompson's fragments, the ε-closure
\* of epsNfaToNfa with its start taken as the last Start vertex, the
\* subset construction and the minimisation compose to the language.
RegexLanguage ==
    (pc = "done" /\ job.is_regex_input /\ job.regex.ast # NoAst) =>
        \A w \in Words : GraphAccepts(min, w) = Matches(job.regex.ast, w)

\* A regex over operands, operators, parentheses and blanks ends in an
\* exception (from infixToPostfix or buildNfa) exactly when it is not
\* a well-formed expression; none of the stages after parseRegex throws.
ThrowsIffMalformed ==
    (Finished /\ job.is_regex_input /\ ~PipelineThrows(job)
      /\ Range(job.regex.text) \subseteq RegexChars)
        => (stage = "threw" <=> ~WellFormed(job.regex.text))

\* Every list of steps getPipeline accepts chains: the input string goes
\* to a step taking a string, and each result to a step taking its type,
\* so no std::any_cast in execute throws bad_any_cast, whatever the
\* options.
StepsChain ==
    stage \in {"run", "done"} =>
        /\ ArgType(steps[1]) = "string"
        /\ \A i \in 1..(Len(steps) - 1) : RetType(steps[i]) = ArgType(steps[i + 1])
        /\ RetType(Last(steps)) = "void"

\* The regex printRegex writes, read back as parseRegex reads a regex
\* (epsilon_utf8 as replace_eps, blanks and the newline dropped), is a
\* well-formed regex denoting exactly the language of the input, on the
\* words up to MaxWord; an input with no such word prints an empty line.
\* It takes faToRegex's union/concat/star string building with its
\* parenthesization, the k loop and the final union, and, for a regex
\* input, every stage before them.
PrintedRegexLanguage ==
    (stage = "done" /\ Last(steps) = "printRegex" /\ HasReference) =>
        IF InputLanguage = {} THEN regexOut = <<>>
        ELSE LET s == ReadBack(printed)
             IN  WellFormed(s) /\ Lang(ReadTree(s)) = InputLanguage

\* Every input is rendered, printed or rejected: all the loops end.
Terminates == <>Finished
=============================================================================
