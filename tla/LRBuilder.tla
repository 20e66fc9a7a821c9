------------------------------ MODULE LRBuilder ------------------------------
(***************************************************************************)
(* Builder<Lookahead>::build and Builder::closure (src/lr-k/include/       *)
(* builder.hpp): the canonical LR(k) collection, its GOTO and its ACTION   *)
(* table.  One step of the model is one iteration of the build loop: the   *)
(* whole processing of the state at the front of the worklist.  A kernel   *)
(* is a set of items: the code sorts every candidate kernel before it      *)
(* looks it up, so two kernels are the same state iff their item sets are  *)
(* equal.  State ids keep the code's 0-based numbering.                    *)
(***************************************************************************)
EXTENDS LRReference, LRAction

VARIABLES
    k_first,     \* GrammarAnalysis::k_first, read only
    table_,      \* state id |-> kernel (set of items)
    goto_,       \* state id |-> (symbol id |-> state id)
    action_,     \* state id |-> (KString |-> encoded Action)
    worklist,    \* std::deque<uint32_t> of state ids still to process
    status       \* "building", "built", or "conflict" (the runtime_error)

builder_vars == <<table_, goto_, action_, worklist, status>>
vars == <<k_first, builder_vars>>

\* Item<Lookahead>(rule_id, lookahead, dot); dot is 0-based as in the code.
Item(r, la, d) == [rule |-> r, la |-> la, dot |-> d]
Complete(i) == i.dot = Len(Rhs(i.rule))
NextSym(i) == Rhs(i.rule)[i.dot + 1]

NumStates == Cardinality(DOMAIN table_)

\* The lookaheads built from an rhs suffix and the item's own lookahead:
\* start from {KString()}, k_concat the FIRST_k of rhs[from..] one symbol at
\* a time, then k_concat {lookahead}.  closure() starts at dot+1 (symbols
\* after the nonterminal), build() at dot (the terminal to shift included).
Lookaheads(rhs, from, la) ==
    k_concat(FoldLeft(LAMBDA acc, t : k_concat(acc, k_first[t]), {EmptyKString},
                      SubSeq(rhs, from + 1, Len(rhs))),
             {la})

\* The items one pass of closure() adds for the items in `items`.
Predicted(items) ==
    UNION {{Item(p, la, 0) : p \in RulesOf(NextSym(i)),
                             la \in Lookaheads(Rhs(i.rule), i.dot + 1, i.la)}
           : i \in {j \in items : ~Complete(j) /\ NextSym(j) \in nonterminals}}

\* Builder::closure: the kernel plus everything the worklist derives; the
\* duplicate check makes the result the least closed superset.
ClosureOnePass(items) == items \cup Predicted(items)
RECURSIVE closure(_)
closure(items) ==
    LET more == items \cup Predicted(items)
    IN  IF more = items THEN items ELSE closure(more)

\* The advanced item pushed into the bucket of the item's next symbol.
Advance(i) == Item(i.rule, i.la, i.dot + 1)

Bucket(C, X) == {Advance(i) : i \in {j \in C : ~Complete(j) /\ NextSym(j) = X}}
OutSymbols(C) == {NextSym(i) : i \in {j \in C : ~Complete(j)}}

\* Lookaheads at which a non-complete item with a terminal next installs
\* SHIFT, and the (lookahead, rule) cells complete items install as REDUCE.
ShiftLookaheadsAfterDot(C) ==
    UNION {Lookaheads(Rhs(i.rule), i.dot + 1, i.la)
           : i \in {j \in C : ~Complete(j) /\ NextSym(j) \notin nonterminals}}
ShiftLookaheads(C) ==
    UNION {Lookaheads(Rhs(i.rule), i.dot, i.la)
           : i \in {j \in C : ~Complete(j) /\ NextSym(j) \notin nonterminals}}
ReduceCells(C) == {<<i.la, i.rule>> : i \in {j \in C : Complete(j)}}

\* A REDUCE finding its cell taken (by SHIFT or another REDUCE), or a SHIFT
\* finding a REDUCE: both throw, whatever order the items come in.
HasConflictShiftReduceOnly(C) ==
    \E c \in ReduceCells(C) : c[1] \in ShiftLookaheads(C)
ShiftItems(C) == {j \in C : ~Complete(j) /\ NextSym(j) \notin nonterminals}
HasConflictShiftTwice(C) ==
    \/ \E c \in ReduceCells(C) :
          \/ c[1] \in ShiftLookaheads(C)
          \/ \E d \in ReduceCells(C) : d[1] = c[1] /\ d[2] # c[2]
    \/ \E i, j \in ShiftItems(C) :
          i # j /\ Lookaheads(Rhs(i.rule), i.dot, i.la) \cap Lookaheads(Rhs(j.rule), j.dot, j.la) # {}
HasConflict(C) ==
    \E c \in ReduceCells(C) :
        \/ c[1] \in ShiftLookaheads(C)
        \/ \E d \in ReduceCells(C) : d[1] = c[1] /\ d[2] # c[2]

ActionRow(C) ==
    [la \in ShiftLookaheads(C) \cup {c[1] : c \in ReduceCells(C)} |->
        IF la \in ShiftLookaheads(C) THEN SHIFT
        ELSE Reduce(CHOOSE r \in Rules : <<la, r>> \in ReduceCells(C))]

\* Ids of the m kernels appended to a table of n states (table_.size() - 1
\* right after each push_back).
NewIdsOffByOne(n, m) == [j \in 1..m |-> n + j]
NewIds(n, m) == [j \in 1..m |-> n + j - 1]

IdOf(kernel, table) == CHOOSE s \in DOMAIN table : table[s] = kernel

\* The Builder as constructed: empty deques.
BuilderInit ==
    /\ table_ = <<>> /\ goto_ = <<>> /\ action_ = <<>>
    /\ worklist = <<>>
    /\ status = "idle"

\* build() starts: the initial kernel {(S' -> . S, eps, 0)} is state 0 with
\* empty rows, and the worklist holds 0.
BuildStart ==
    /\ status = "idle"
    /\ table_' = 0 :> {Item(StartRule, EmptyKString, 0)}
    /\ goto_' = 0 :> <<>>
    /\ action_' = 0 :> <<>>
    /\ worklist' = <<0>>
    /\ status' = "building"
    /\ UNCHANGED k_first

\* One build-loop iteration without a conflict: install the ACTION row of
\* the state, then, in the iteration order of has_token (unspecified, so any
\* order), look every sorted bucket up, append the new ones as states with
\* empty rows, enqueue them, and set the GOTO row.
ProcessState ==
    /\ status = "building"
    /\ worklist # <<>>
    /\ LET s     == Head(worklist)
           C     == closure(table_[s])
           known == {table_[t] : t \in DOMAIN table_}
           fresh == {X \in OutSymbols(C) : Bucket(C, X) \notin known}
           n     == NumStates
       IN  /\ ~HasConflict(C)
           /\ \E order \in SetToSeqs(fresh) :
                LET m      == Len(order)
                    table2 == [t \in 0..(n + m - 1) |->
                                 IF t < n THEN table_[t] ELSE Bucket(C, order[t - n + 1])]
                IN  /\ table_' = table2
                    /\ goto_' = [t \in 0..(n + m - 1) |->
                                   IF t = s THEN [X \in OutSymbols(C) |-> IdOf(Bucket(C, X), table2)]
                                   ELSE IF t < n THEN goto_[t] ELSE <<>>]
                    /\ action_' = [t \in 0..(n + m - 1) |->
                                     IF t = s THEN ActionRow(C)
                                     ELSE IF t < n THEN action_[t] ELSE <<>>]
                    /\ worklist' = Tail(worklist) \o NewIds(n, m)
           /\ UNCHANGED <<k_first, status>>

\* The same iteration when two items claim one ACTION cell: runtime_error,
\* the build is abandoned (the row written so far dies with the Builder).
ConflictFound ==
    /\ status = "building"
    /\ worklist # <<>>
    /\ HasConflict(closure(table_[Head(worklist)]))
    /\ status' = "conflict"
    /\ UNCHANGED <<k_first, table_, goto_, action_, worklist>>

\* After the loop: action_[goto_[0][S]][KString()] = ACCEPT (assignment,
\* so it overwrites the REDUCE of S' -> S installed there).
SetAccept ==
    /\ status = "building"
    /\ worklist = <<>>
    /\ LET acc == goto_[0][Rhs(StartRule)[1]]
       IN  action_' = [action_ EXCEPT ![acc] = (EmptyKString :> ACCEPT) @@ @]
    /\ status' = "built"
    /\ UNCHANGED <<k_first, table_, goto_, worklist>>

BuildNext == BuildStart \/ ProcessState \/ ConflictFound \/ SetAccept

\* Build on the FIRST_k the analysis produced (a constant during the build).
Init == k_first = FirstKFix /\ BuilderInit
Next == BuildNext
\* build() is one sequential loop; it keeps running while it can.
Spec == Init /\ [][Next]_vars /\ WF_vars(Next)

-----------------------------------------------------------------------------
TypeOK ==
    /\ status \in {"idle", "building", "built", "conflict"}
    /\ DOMAIN table_ = 0..(NumStates - 1)
    /\ DOMAIN goto_ = DOMAIN table_ /\ DOMAIN action_ = DOMAIN table_
    /\ \A s \in DOMAIN goto_ : \A X \in DOMAIN goto_[s] : goto_[s][X] \in DOMAIN table_
    /\ \A s \in DOMAIN action_ : \A la \in DOMAIN action_[s] : action_[s][la] \in Nat
    /\ worklist \in Seq(DOMAIN table_)

\* A finished build has one state per canonical LR(k) kernel and no two
\* ids for one kernel, and GOTO of every state is the canonical GOTO: the
\* worklist visits every state, the kernel lookup merges equal kernels and
\* has_token groups the advanced items by the right symbol.
BuiltIsCanonical ==
    status = "built" =>
        /\ {table_[s] : s \in DOMAIN table_} = CanonicalKernels
        /\ \A s, t \in DOMAIN table_ : table_[s] = table_[t] => s = t
        /\ \A s \in DOMAIN table_ :
              /\ DOMAIN goto_[s] = RefOut(RefClosure(table_[s]))
              /\ \A X \in DOMAIN goto_[s] : table_[goto_[s][X]] = RefGoto(table_[s], X)

\* Every ACTION row of a finished build holds exactly the canonical SHIFT
\* and REDUCE entries of its state, and the single ACCEPT sits at the empty
\* lookahead of GOTO(0, S), where it replaced REDUCE(S' -> S).
ActionsAreCanonical ==
    status = "built" =>
        \A s \in DOMAIN table_ :
            LET acc  == goto_[0][Rhs(StartRule)[1]]
                row  == action_[s]
                red  == RefReduces(table_[s])
            IN  /\ DOMAIN row = RefShifts(table_[s]) \cup {c[1] : c \in red}
                /\ \A la \in DOMAIN row :
                     IF s = acc /\ la = <<>>
                     THEN row[la] = ACCEPT /\ <<la, StartRule>> \in red
                     ELSE IF la \in RefShifts(table_[s]) THEN row[la] = SHIFT
                     ELSE IsReduce(row[la]) /\ <<la, RuleOf(row[la])>> \in red

\* The build aborts with a conflict exactly when the grammar is not LR(k):
\* no conflict is missed, none is reported for an LR(k) grammar.
ConflictIffNotLRk ==
    /\ status = "conflict" => ~IsLRk
    /\ status = "built" => IsLRk
=============================================================================
