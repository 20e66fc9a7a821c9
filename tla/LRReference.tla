---------------------------- MODULE LRReference ----------------------------
(***************************************************************************)
(* What the generator promises, written from the definitions of the spec   *)
(* (sections 3, 4.2, 4.3, 8) and not from the code: FIRST_k as a least     *)
(* fixed point, the canonical LR(k) collection, its conflicts, the         *)
(* language of the grammar on bounded inputs and right-most derivations.   *)
(* The modules that model the code are checked against these operators.    *)
(***************************************************************************)
EXTENDS Grammar, KString, SequencesExt

\* FIRST_k[t] = {t} for a terminal (the empty string when K = 0).
RefTerminalFirst(t) == IF K = 0 THEN {<<>>} ELSE {<<t>>}

\* Least fixed point of FIRST_k[A] = UNION of FIRST_k(rhs) over A's rules,
\* by round-robin iteration from the empty sets.
RECURSIVE IterateFirst(_)
IterateFirst(f) ==
    LET g == [x \in Symbols |->
                IF x \in nonterminals
                THEN f[x] \cup UNION {RefFirst(f, Rhs(r)) : r \in RulesOf(x)}
                ELSE f[x]]
    IN  IF g = f THEN f ELSE IterateFirst(g)

FirstKFix ==
    IterateFirst([x \in Symbols |-> IF x \in nonterminals THEN {} ELSE RefTerminalFirst(x)])

-----------------------------------------------------------------------------
(* Canonical LR(k) items [rule, la, dot] (dot 0-based) and states.         *)
RefComplete(i) == i.dot = Len(Rhs(i.rule))
RefNext(i) == Rhs(i.rule)[i.dot + 1]
RefRest(i, from) == SubSeq(Rhs(i.rule), from + 1, Len(Rhs(i.rule)))

\* A -> alpha . B beta, la  yields  B -> . gamma, mu  for mu in FIRST_k(beta la).
RefPredicted(items) ==
    UNION {{[rule |-> p, la |-> mu, dot |-> 0]
              : p \in RulesOf(RefNext(i)),
                mu \in SetConcat(RefFirst(FirstKFix, RefRest(i, i.dot + 1)), {i.la})}
           : i \in {j \in items : ~RefComplete(j) /\ RefNext(j) \in nonterminals}}

RECURSIVE RefClosure(_)
RefClosure(items) ==
    LET more == items \cup RefPredicted(items)
    IN  IF more = items THEN items ELSE RefClosure(more)

RefOut(C) == {RefNext(i) : i \in {j \in C : ~RefComplete(j)}}
RefGoto(kernel, X) ==
    LET C == RefClosure(kernel)
    IN  {[i EXCEPT !.dot = @ + 1] : i \in {j \in C : ~RefComplete(j) /\ RefNext(j) = X}}

InitialKernel == {[rule |-> StartRule, la |-> <<>>, dot |-> 0]}

RECURSIVE Reach(_)
Reach(ks) ==
    LET more == ks \cup UNION {{RefGoto(k, X) : X \in RefOut(RefClosure(k))} : k \in ks}
    IN  IF more = ks THEN ks ELSE Reach(more)

CanonicalKernels == Reach({InitialKernel})

\* SHIFT is predicted by FIRST_k(X beta la) for a terminal X after the dot;
\* REDUCE r by the lookahead of a complete item of r.
RefShifts(kernel) ==
    LET C == RefClosure(kernel)
    IN  UNION {SetConcat(RefFirst(FirstKFix, RefRest(i, i.dot)), {i.la})
               : i \in {j \in C : ~RefComplete(j) /\ RefNext(j) \notin nonterminals}}
RefReduces(kernel) ==
    {<<i.la, i.rule>> : i \in {j \in RefClosure(kernel) : RefComplete(j)}}

\* Shift/reduce or reduce/reduce: one lookahead, two different actions.
RefConflict(kernel) ==
    \E c \in RefReduces(kernel) :
        \/ c[1] \in RefShifts(kernel)
        \/ \E d \in RefReduces(kernel) : d[1] = c[1] /\ d[2] # c[2]

IsLRk == \A kernel \in CanonicalKernels : ~RefConflict(kernel)

-----------------------------------------------------------------------------
(* The language on a given word w: the triples <<X, i, j>> such that X     *)
(* derives w[i+1..j], as a least fixed point (it handles empty and cyclic  *)
(* rules), and membership of w in L(S) with S the rhs of S' -> S.          *)
RECURSIVE SplitsOK(_, _, _, _, _)
SplitsOK(R, w, rhs, i, j) ==
    IF rhs = <<>> THEN i = j
    ELSE \E m \in i..j : <<Head(rhs), i, m>> \in R /\ SplitsOK(R, w, Tail(rhs), m, j)

RECURSIVE DerivesFix(_, _)
DerivesFix(R, w) ==
    LET more == R \cup {<<x, i, j>> \in Symbols \X (0..Len(w)) \X (0..Len(w)) :
                          /\ i <= j
                          /\ \E r \in RulesOf(x) : SplitsOK(R, w, Rhs(r), i, j)}
    IN  IF more = R THEN R ELSE DerivesFix(more, w)

Derives(w) ==
    DerivesFix({<<w[i], i - 1, i>> : i \in {p \in DOMAIN w : w[p] \in Terminals}}, w)

InLanguage(w) ==
    /\ \A i \in DOMAIN w : w[i] \in Terminals
    /\ <<Rhs(StartRule)[1], 0, Len(w)>> \in Derives(w)

\* Replaying reductions backwards as right-most expansions from S: each rule
\* must rewrite the right-most nonterminal; the result is the final form.
RightmostNT(form) == CHOOSE p \in DOMAIN form : form[p] \in nonterminals
                        /\ \A q \in DOMAIN form : q > p => form[q] \notin nonterminals
\* A form no expansion of a word can equal (Start never occurs in a rhs).
Stuck == <<Start>>
RECURSIVE Expand(_, _)
Expand(form, rules) ==
    IF rules = <<>> THEN form
    ELSE IF ~\E p \in DOMAIN form : form[p] \in nonterminals THEN Stuck
    ELSE LET p == RightmostNT(form)
             r == Head(rules)
         IN  IF Prods[r].lhs # form[p] THEN Stuck
             ELSE Expand(SubSeq(form, 1, p - 1) \o Rhs(r) \o SubSeq(form, p + 1, Len(form)), Tail(rules))

\* `out` (reductions in the order the parser emits them) is a right-most
\* derivation of the terminal word w, in reverse.
IsRightmostDerivation(out, w) ==
    /\ \A i \in DOMAIN w : w[i] \in Terminals
    /\ Expand(<<Rhs(StartRule)[1]>>, Reverse(out)) = w
=============================================================================
