------------------------------- MODULE Loader -------------------------------
(***************************************************************************)
(* The grammar text loader (src/lr-k/src/grammar.cpp): Parser::Parser      *)
(* reads the file line by line, and Grammar::Grammar checks for S and      *)
(* augments the grammar.  A file is a sequence of lines, and a line is     *)
(* the sequence of its non-empty pieces after splitting on ' ' (the        *)
(* filter of line 19); a blank line, for instance after a trailing         *)
(* newline, is the empty sequence.  Names are TLA+ strings.  One step is   *)
(* one iteration of the loop over lines, or one of the two constructor     *)
(* tails.                                                                  *)
(***************************************************************************)
EXTENDS Integers, Sequences, SequencesExt

CONSTANT Files    \* the grammar files to load

EPS == "eps"
SEPARATOR == "->"

VARIABLES
    file,         \* the file being loaded
    line,         \* how many lines the loop has read
    view2id,      \* _view2id: name |-> id
    id2view,      \* _id2view: the names by id, 1-based
    storage,      \* _rhs_storage
    numbered,     \* numbered_prod: the lhs of every rule, by rule id (1-based)
    temp_rhs,     \* temp_rhs: the rhs length of every line
    spans,        \* _rhs: <<offset, length>> into _rhs_storage, by rule id
    start,        \* Grammar::start
    nonterminals, \* Grammar::nonterminals
    status        \* "parsing", "parsed", "incorrect_production", "no_start", "loaded"

vars == <<file, line, view2id, id2view, storage, numbered, temp_rhs, spans, start, nonterminals, status>>

Init ==
    /\ file \in Files
    /\ line = 0
    /\ view2id = <<>> /\ id2view = <<>>
    /\ storage = <<>> /\ numbered = <<>> /\ temp_rhs = <<>> /\ spans = <<>>
    /\ start = -1 /\ nonterminals = {}
    /\ status = "parsing"

\* Lines 23-26: a name not seen before (and not eps) gets the next id.
Intern(acc, w) ==
    IF w \in DOMAIN acc.v2i \/ w = EPS THEN acc
    ELSE [v2i |-> (w :> Len(acc.i2v)) @@ acc.v2i, i2v |-> Append(acc.i2v, w)]

\* _view2id[token] for the lhs: operator[] inserts 0 for a name it lacks.
Lookup(v2i, w) == IF w \in DOMAIN v2i THEN v2i[w] ELSE 0
Inserted(v2i, w) == IF w \in DOMAIN v2i THEN v2i ELSE (w :> 0) @@ v2i

\* The rhs tokens of a line: everything after the separator but eps.
Body(toks) == SelectSeq(SubSeq(toks, 3, Len(toks)), LAMBDA w : w # EPS)

\* The names a line interns, in order: the lhs, then every rhs token; the
\* separator is read by hand (line 33) and never interned.
Named(toks) == IF toks = <<>> THEN <<>> ELSE <<toks[1]>> \o SubSeq(toks, 3, Len(toks))

IncorrectNoLoneLhs(toks) == Len(toks) > 1 /\ toks[2] # SEPARATOR

\* Lines 30-37: a line that is only a lhs, or whose second token is not
\* "->", throws "Incorrect production".
Incorrect(toks) == Len(toks) = 1 \/ (Len(toks) > 1 /\ toks[2] # SEPARATOR)

\* One iteration of the loop of lines 12-46.  A blank line leaves lhs at
\* -1 and still emplaces a production, with an empty rhs.
ParseLine ==
    /\ status = "parsing"
    /\ line < Len(file)
    /\ LET toks == file[line + 1]
           in   == FoldLeft(Intern, [v2i |-> view2id, i2v |-> id2view], Named(toks))
           rhs  == [i \in 1..Len(Body(toks)) |-> in.v2i[Body(toks)[i]]]
       IN  IF Incorrect(toks)
           THEN /\ status' = "incorrect_production"
                /\ UNCHANGED <<line, view2id, id2view, storage, numbered, temp_rhs>>
           ELSE /\ line' = line + 1
                /\ view2id' = IF toks = <<>> THEN view2id ELSE Inserted(in.v2i, toks[1])
                /\ id2view' = in.i2v
                /\ storage' = storage \o rhs
                /\ numbered' = Append(numbered, IF toks = <<>> THEN -1 ELSE Lookup(in.v2i, toks[1]))
                /\ temp_rhs' = Append(temp_rhs, Len(rhs))
                /\ UNCHANGED status
    /\ UNCHANGED <<file, spans, start, nonterminals>>

FinishParserOffByOne ==
    /\ status = "parsing"
    /\ line = Len(file)
    /\ storage' = Append(storage, -1)
    /\ spans' = [r \in 1..Len(temp_rhs) |->
                   <<SumFunction([i \in 1..r |-> temp_rhs[i]]), temp_rhs[r]>>]
    /\ status' = "parsed"
    /\ UNCHANGED <<file, line, view2id, id2view, numbered, temp_rhs, start, nonterminals>>

\* Lines 47-54: a -1 slot for S_0 -> S after everything, then one span per
\* line, each starting where the previous one ended.
FinishParser ==
    /\ status = "parsing"
    /\ line = Len(file)
    /\ storage' = Append(storage, -1)
    /\ spans' = [r \in 1..Len(temp_rhs) |->
                   <<SumFunction([i \in 1..(r - 1) |-> temp_rhs[i]]), temp_rhs[r]>>]
    /\ status' = "parsed"
    /\ UNCHANGED <<file, line, view2id, id2view, numbered, temp_rhs, start, nonterminals>>

\* Lines 66-69: "S_0", with '0' appended until no symbol has that name.
RECURSIVE FreshName(_, _)
FreshName(v2i, t) == IF t \in DOMAIN v2i THEN FreshName(v2i, t \o "0") ELSE t

AugmentNoRule ==
    /\ status = "parsed"
    /\ IF "S" \notin DOMAIN view2id
       THEN /\ status' = "no_start"
            /\ UNCHANGED <<view2id, id2view, storage, numbered, spans, start, nonterminals>>
       ELSE LET s0 == FreshName(view2id, "S_0")
            IN  /\ start' = Len(id2view)
                /\ view2id' = (s0 :> Len(id2view)) @@ view2id
                /\ id2view' = Append(id2view, s0)
                /\ storage' = [storage EXCEPT ![Len(storage)] = view2id["S"]]
                /\ spans' = Append(spans, <<Len(storage) - 1, 1>>)
                /\ nonterminals' = Range(numbered) \cup {Len(id2view)}
                /\ status' = "loaded"
                /\ UNCHANGED numbered
    /\ UNCHANGED <<file, line, temp_rhs>>

\* Grammar::Grammar after the Parser base: "S" must be a known name; then
\* S_0 gets the next id, the -1 slot becomes S, S_0 -> S is the last rule,
\* and the nonterminals are the keys of productions.
Augment ==
    /\ status = "parsed"
    /\ IF "S" \notin DOMAIN view2id
       THEN /\ status' = "no_start"
            /\ UNCHANGED <<view2id, id2view, storage, numbered, spans, start, nonterminals>>
       ELSE LET s0 == FreshName(view2id, "S_0")
            IN  /\ start' = Len(id2view)
                /\ view2id' = (s0 :> Len(id2view)) @@ view2id
                /\ id2view' = Append(id2view, s0)
                /\ storage' = [storage EXCEPT ![Len(storage)] = view2id["S"]]
                /\ spans' = Append(spans, <<Len(storage) - 1, 1>>)
                /\ numbered' = Append(numbered, Len(id2view))
                /\ nonterminals' = Range(numbered')
                /\ status' = "loaded"
    /\ UNCHANGED <<file, line, temp_rhs>>

Next == ParseLine \/ FinishParser \/ Augment

\* The loader runs once and the generator goes on or exits.
Spec == Init /\ [][Next]_vars

\* Grammar's Prods: numbered_prod with each span read through _rhs_storage.
Prods == [r \in 0..(Len(numbered) - 1) |->
            [lhs |-> numbered[r + 1],
             rhs |-> SubSeq(storage, spans[r + 1][1] + 1, spans[r + 1][1] + spans[r + 1][2])]]

-----------------------------------------------------------------------------
(* The grammar file as the spec describes it (section "Loader"), written   *)
(* without the loader's ids, maps or buffers: one production per non-blank *)
(* line, `LHS -> rhs...` or `LHS -> eps`; names get ids in the order they  *)
(* are first met, eps and the separator excluded; S_0 (with 0s appended    *)
(* until unique) gets the next id and the rule S_0 -> S comes last.        *)

RefLines(f) == SelectSeq(f, LAMBDA l : l # <<>>)
RefMalformed(l) == Len(l) = 1 \/ (Len(l) > 1 /\ l[2] # SEPARATOR)
RefRhs(l) == SelectSeq(SubSeq(l, 3, Len(l)), LAMBDA w : w # EPS)
RefNames(f) ==
    FoldLeft(LAMBDA seen, w : IF \E i \in DOMAIN seen : seen[i] = w THEN seen ELSE Append(seen, w),
             <<>>, FlattenSeq([i \in DOMAIN RefLines(f) |-> <<RefLines(f)[i][1]>> \o RefRhs(RefLines(f)[i])]))
RefId(f, w) == (CHOOSE i \in DOMAIN RefNames(f) : RefNames(f)[i] = w) - 1

RECURSIVE Zeros(_)
Zeros(n) == IF n = 0 THEN "" ELSE Zeros(n - 1) \o "0"
RefStartName(f) ==
    LET taken(n) == \E i \in DOMAIN RefNames(f) : RefNames(f)[i] = "S_0" \o Zeros(n)
    IN  "S_0" \o Zeros(CHOOSE n \in 0..Len(RefNames(f)) : ~taken(n) /\ \A m \in 0..(n - 1) : taken(m))

RefProds(f) ==
    LET ls == RefLines(f)
    IN  [r \in 0..Len(ls) |->
           IF r < Len(ls)
           THEN [lhs |-> RefId(f, ls[r + 1][1]),
                 rhs |-> [i \in DOMAIN RefRhs(ls[r + 1]) |-> RefId(f, RefRhs(ls[r + 1])[i])]]
           ELSE [lhs |-> Len(RefNames(f)), rhs |-> <<RefId(f, "S")>>]]

Done == status \in {"incorrect_production", "no_start", "loaded"}

TypeOK ==
    /\ status \in {"parsing", "parsed", "incorrect_production", "no_start", "loaded"}
    /\ line \in 0..Len(file)
    /\ id2view \in Seq(STRING)
    /\ storage \in Seq(Int)
    /\ numbered \in Seq(Int)
    /\ DOMAIN spans \subseteq DOMAIN numbered

\* The loader throws "Incorrect production" exactly when some non-blank
\* line of the file lacks "->" in second place or holds only a lhs, and
\* only "no start nonterminal" or success otherwise; which line throws
\* depends on the order in which the loop reads and interns them.
RejectsExactlyMalformed ==
    Done => (status = "incorrect_production" <=> \E i \in DOMAIN file : file[i] # <<>> /\ RefMalformed(file[i]))

\* A loaded grammar is the spec's reading of the file: the same names by
\* id in first-seen order, S_0 made unique and last, the same rules in line
\* order with eps dropped, each rhs read back through its span of the
\* shared storage, S_0 -> S last, and the lhs ids as the nonterminals.
AcceptedGrammarIsSpecGrammar ==
    status = "loaded" =>
        /\ id2view = RefNames(file) \o <<RefStartName(file)>>
        /\ start = Len(RefNames(file))
        /\ Prods = RefProds(file)
        /\ nonterminals = {RefProds(file)[r].lhs : r \in DOMAIN RefProds(file)}

=============================================================================
