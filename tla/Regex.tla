------------------------------- MODULE Regex --------------------------------
(***************************************************************************)
(* parseRegex (src/fsm-pipeline/src/regex2eps_nfa.cpp): preprocessRegex    *)
(* (epsilon replacement, whitespace removal, explicit '.') in one step,    *)
(* then infixToPostfix (shunting-yard with the precedence map) and        *)
(* buildNfa (Thompson's construction) one token per step.  A character    *)
(* is a one-letter string; a byte outside ASCII is a string "xHH".  The   *)
(* ε-NFA is a record [n, type, edges]: vertices 0..n-1 in the order       *)
(* add_vertex creates them, their VertexType, and the set of edges        *)
(* <<u, symbol, v>>, where NoSymbol stands for an empty std::optional.     *)
(***************************************************************************)
EXTENDS Integers, Sequences, SequencesExt, FiniteSets

CONSTANTS
    Alnum,      \* the characters of the inputs that std::isalnum accepts
    NoSymbol    \* EdgeProperties::symbol == std::nullopt

VARIABLES
    raw,        \* the argument of parseRegex
    infix,      \* processed_regex, infixToPostfix's argument
    postfix,    \* the postfix string, built and then read by buildNfa
    ops,        \* std::stack<char> ops, its top at the end
    pos,        \* the index of the token the current loop reads next
    g,          \* buildNfa's Graph g
    frags,      \* std::stack<NfaFragment> fragments, its top at the end
    rpc         \* "pre", "postfix", "build", "done", "threw"

rvars == <<raw, infix, postfix, ops, pos, g, frags, rpc>>

\* epsilon_utf8 (graph_type.cpp:4): the bytes of the literal "Ïµ".
epsilon_utf8 == <<"xC3", "x8F", "xC2", "xB5">>

\* replace_eps.
replace_eps == "$"

isOperator(c) == c \in {"|", "*", "+", "."}

isOperand(c) == c \in Alnum \/ c = replace_eps

\* The precedence map; operator[] on any other character yields 0.
Precedence(c) ==
    CASE c = "|" -> 1
      [] c = "." -> 2
      [] c \in {"*", "+"} -> 3
      [] OTHER -> 0

-----------------------------------------------------------------------------
(* preprocessRegex                                                         *)

\* Step 1: every epsilon_utf8 from position at on becomes replace_eps,
\* and the search resumes one character after it.
RECURSIVE ReplaceEps(_, _)
ReplaceEps(s, at) ==
    IF at + Len(epsilon_utf8) - 1 > Len(s) THEN s
    ELSE IF SubSeq(s, at, at + Len(epsilon_utf8) - 1) = epsilon_utf8
         THEN ReplaceEps(SubSeq(s, 1, at - 1) \o <<replace_eps>>
                         \o SubSeq(s, at + Len(epsilon_utf8), Len(s)), at + 1)
         ELSE ReplaceEps(s, at + 1)

NeedsDotNoPostfixOperand(prev, curr) ==
    \/ isOperand(prev) /\ isOperand(curr)
    \/ prev = ")" /\ isOperand(curr)
    \/ isOperand(prev) /\ curr = "("
    \/ prev = ")" /\ curr = "("
    \/ prev \in {"*", "+"} /\ curr = "("

\* The conditions of lines 61-66 for a '.' between prev and curr.
NeedsDot(prev, curr) ==
    \/ isOperand(prev) /\ isOperand(curr)
    \/ prev = ")" /\ isOperand(curr)
    \/ prev \in {"*", "+"} /\ isOperand(curr)
    \/ isOperand(prev) /\ curr = "("
    \/ prev = ")" /\ curr = "("
    \/ prev \in {"*", "+"} /\ curr = "("

\* Step 2: the characters std::isspace accepts (the '\v' of the C locale
\* never occurs in the inputs).
Blank == {" ", "\t", "\n", "\f", "\r"}

preprocessRegex(raw_infix) ==
    LET stripped == SelectSeq(ReplaceEps(raw_infix, 1), LAMBDA c : c \notin Blank)
    IN  IF stripped = <<>> THEN <<>>
        ELSE FlattenSeq([i \in 1..Len(stripped) |->
                 IF i > 1 /\ NeedsDot(stripped[i - 1], stripped[i])
                 THEN <<".", stripped[i]>> ELSE <<stripped[i]>>])

-----------------------------------------------------------------------------
(* infixToPostfix: the operator stack is a sequence, its top at the end.  *)

Top(st) == st[Len(st)]

\* Line 104: pop while the top is an operator binding at least as tightly.
RECURSIVE PopTighter(_, _, _)
PopTighter(out, st, t) ==
    IF st # <<>> /\ Top(st) # "(" /\ isOperator(Top(st))
       /\ Precedence(Top(st)) >= Precedence(t)
    THEN PopTighter(Append(out, Top(st)), Front(st), t)
    ELSE [out |-> out, ops |-> st]

\* Lines 97-100: pop down to the nearest '('.
RECURSIVE PopToParen(_, _)
PopToParen(out, st) ==
    IF st # <<>> /\ Top(st) # "("
    THEN PopToParen(Append(out, Top(st)), Front(st))
    ELSE [out |-> out, ops |-> st]

\* Lines 112-116: the rest of the stack; a '(' left over throws.
RECURSIVE PopAll(_, _)
PopAll(out, st) ==
    IF st = <<>> THEN [ok |-> TRUE, postfix |-> out]
    ELSE IF Top(st) = "(" THEN [ok |-> FALSE, postfix |-> out]
    ELSE PopAll(Append(out, Top(st)), Front(st))

-----------------------------------------------------------------------------
(* buildNfa: fragments [start, accept] on a stack, its top at the end.    *)

\* add_default_vertex twice, and an edge from the first to the second.
NewFragment(gr, sym) ==
    [g     |-> [gr EXCEPT !.n = gr.n + 2,
                         !.type = [v \in 0..(gr.n + 1) |-> "Default"],
                         !.edges = @ \cup {<<gr.n, sym, gr.n + 1>>}],
     frag  |-> [start |-> gr.n, accept |-> gr.n + 1]]

\* The ε-edges a binary or unary operator adds, and the fragment it
\* pushes; new_start and new_accept are the next two vertices.
Combine(gr, op, a, b) ==
    LET ns == gr.n
        na == gr.n + 1
        eps(u, v) == <<u, NoSymbol, v>>
    IN  CASE op = "." ->
               [edges |-> {eps(a.accept, b.start)}, fresh |-> 0,
                frag |-> [start |-> a.start, accept |-> b.accept]]
          [] op = "|" ->
               [edges |-> {eps(ns, a.start), eps(ns, b.start),
                           eps(a.accept, na), eps(b.accept, na)}, fresh |-> 2,
                frag |-> [start |-> ns, accept |-> na]]
          [] op = "*" ->
               [edges |-> {eps(ns, na), eps(ns, b.start), eps(b.accept, na),
                           eps(b.accept, b.start)}, fresh |-> 2,
                frag |-> [start |-> ns, accept |-> na]]
          [] op = "+" ->
               [edges |-> {eps(ns, b.start), eps(b.accept, na),
                           eps(b.accept, b.start)}, fresh |-> 2,
                frag |-> [start |-> ns, accept |-> na]]

\* How many fragments an operator pops.
Arity(op) == IF op \in {".", "|"} THEN 2 ELSE 1

EmptyNfa == [n |-> 0, type |-> <<>>, edges |-> {}]

-----------------------------------------------------------------------------
(* The steps of parseRegex                                                 *)

RInit ==
    /\ infix = <<>> /\ postfix = <<>> /\ ops = <<>> /\ pos = 1
    /\ g = EmptyNfa /\ frags = <<>>
    /\ rpc = "pre"

\* Line 230.
Preprocess ==
    /\ rpc = "pre"
    /\ infix' = preprocessRegex(raw)
    /\ rpc' = "postfix"
    /\ UNCHANGED <<raw, postfix, ops, pos, g, frags>>

\* Lines 91-110, one token each.
ReadOperand ==
    /\ rpc = "postfix"
    /\ pos <= Len(infix)
    /\ isOperand(infix[pos])
    /\ postfix' = Append(postfix, infix[pos])
    /\ pos' = pos + 1
    /\ UNCHANGED <<raw, infix, ops, g, frags, rpc>>

ReadOpenParen ==
    /\ rpc = "postfix"
    /\ pos <= Len(infix)
    /\ infix[pos] = "("
    /\ ops' = Append(ops, "(")
    /\ pos' = pos + 1
    /\ UNCHANGED <<raw, infix, postfix, g, frags, rpc>>

\* No '(' under the operators throws "Mismatched parentheses".
ReadCloseParen ==
    /\ rpc = "postfix"
    /\ pos <= Len(infix)
    /\ infix[pos] = ")"
    /\ LET r == PopToParen(postfix, ops)
       IN  IF r.ops = <<>>
           THEN /\ rpc' = "threw"
                /\ UNCHANGED <<postfix, ops, pos>>
           ELSE /\ postfix' = r.out
                /\ ops' = Front(r.ops)
                /\ pos' = pos + 1
                /\ UNCHANGED rpc
    /\ UNCHANGED <<raw, infix, g, frags>>

\* Any other character: an operator, or one of precedence 0.
ReadOperator ==
    /\ rpc = "postfix"
    /\ pos <= Len(infix)
    /\ ~isOperand(infix[pos]) /\ infix[pos] \notin {"(", ")"}
    /\ LET r == PopTighter(postfix, ops, infix[pos])
       IN  /\ postfix' = r.out
           /\ ops' = Append(r.ops, infix[pos])
    /\ pos' = pos + 1
    /\ UNCHANGED <<raw, infix, g, frags, rpc>>

\* Lines 112-118, then buildNfa starts on the postfix string.
PostfixEnd ==
    /\ rpc = "postfix"
    /\ pos > Len(infix)
    /\ LET r == PopAll(postfix, ops)
       IN  IF r.ok
           THEN /\ postfix' = r.postfix
                /\ ops' = <<>>
                /\ pos' = 1
                /\ rpc' = "build"
           ELSE /\ rpc' = "threw"
                /\ UNCHANGED <<postfix, ops, pos>>
    /\ UNCHANGED <<raw, infix, g, frags>>

\* Lines 146-158: '$' makes an ε-edge fragment, an operand a symbol one.
BuildOperand ==
    /\ rpc = "build"
    /\ pos <= Len(postfix)
    /\ isOperand(postfix[pos])
    /\ LET r == NewFragment(g, IF postfix[pos] = replace_eps THEN NoSymbol ELSE postfix[pos])
       IN  /\ g' = r.g
           /\ frags' = Append(frags, r.frag)
    /\ pos' = pos + 1
    /\ UNCHANGED <<raw, infix, postfix, ops, rpc>>

\* Lines 160-206: too few fragments throws; otherwise the fragments are
\* popped and the combined one pushed.
BuildOperator ==
    /\ rpc = "build"
    /\ pos <= Len(postfix)
    /\ isOperator(postfix[pos])
    /\ LET t == postfix[pos]
       IN  IF Len(frags) < Arity(t)
           THEN /\ rpc' = "threw"
                /\ UNCHANGED <<g, frags, pos>>
           ELSE LET b  == frags[Len(frags)]
                    a  == IF Arity(t) = 2 THEN frags[Len(frags) - 1] ELSE b
                    c  == Combine(g, t, a, b)
                    n2 == g.n + c.fresh
                IN  /\ g' = [n |-> n2, type |-> [v \in 0..(n2 - 1) |-> "Default"],
                             edges |-> g.edges \cup c.edges]
                    /\ frags' = Append(SubSeq(frags, 1, Len(frags) - Arity(t)), c.frag)
                    /\ pos' = pos + 1
                    /\ UNCHANGED rpc
    /\ UNCHANGED <<raw, infix, postfix, ops>>

\* A character that is neither: the switch has no case for it.
BuildSkip ==
    /\ rpc = "build"
    /\ pos <= Len(postfix)
    /\ ~isOperand(postfix[pos]) /\ ~isOperator(postfix[pos])
    /\ pos' = pos + 1
    /\ UNCHANGED <<raw, infix, postfix, ops, g, frags, rpc>>

\* Lines 211-220: one fragment must be left; it is typed and returned.
BuildEnd ==
    /\ rpc = "build"
    /\ pos > Len(postfix)
    /\ IF Len(frags) # 1
       THEN /\ rpc' = "threw"
            /\ UNCHANGED g
       ELSE /\ g' = [g EXCEPT !.type = [@ EXCEPT ![frags[1].start] = "Start",
                                                 ![frags[1].accept] = "Terminal"]]
            /\ rpc' = "done"
    /\ UNCHANGED <<raw, infix, postfix, ops, pos, frags>>

RNext ==
    \/ Preprocess
    \/ ReadOperand \/ ReadOpenParen \/ ReadCloseParen \/ ReadOperator \/ PostfixEnd
    \/ BuildOperand \/ BuildOperator \/ BuildSkip \/ BuildEnd
=============================================================================
