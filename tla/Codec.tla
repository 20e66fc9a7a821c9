------------------------------- MODULE Codec -------------------------------
(***************************************************************************)
(* The table file between the generator and the parser                     *)
(* (src/lr-k/include/connector.hpp): Exporter::serialize writes the        *)
(* symbol names, the productions and the GOTO and ACTION tables as one     *)
(* binary stream, and Importer::load reads them back.  The stream is a     *)
(* sequence with one element per out.write: an integer for a scalar, a     *)
(* sequence for the bytes of a name or the ints of a right-hand side, and  *)
(* the KString itself for an ACTION key (its raw bytes keep len and        *)
(* str[0..len), all that KString equality reads).  An unordered_map is     *)
(* written in its iteration order, which is unspecified: here SetToSeq.    *)
(* load copies the names into one `tokens` string and the right-hand sides *)
(* into one `_rhs_storage` vector, and keeps views into them at the        *)
(* offsets ptr_to_string / ptr_to_int; a view is resolved against the      *)
(* buffer as it stands when load returns.                                  *)
(***************************************************************************)
EXTENDS KString, Grammar, SequencesExt

CONSTANTS
    Names,    \* Grammar::_id2view: symbol id |-> its name, a sequence of characters
    GARBAGE   \* a value read from a stream that has ended: left uninitialised

ASSUME /\ DOMAIN Names = 1..(Start + 1)
       /\ \A i \in DOMAIN Names : Len(Names[i]) > 0

\* The character '\0' that std::string::resize fills `tokens` with.
NulChar == ""

-----------------------------------------------------------------------------
(* Exporter::serialize                                                     *)

\* One unordered_map row: its size, then key and value of every entry.
RowFields(row) ==
    LET ks == SetToSeq(DOMAIN row)
    IN  <<Len(ks)>> \o FlattenSeq([i \in 1..Len(ks) |-> <<ks[i], row[ks[i]]>>])

\* A deque of rows: its size, then every row in order.
TableFields(t) ==
    <<Cardinality(DOMAIN t)>> \o FlattenSeq([s \in 1..Cardinality(DOMAIN t) |-> RowFields(t[s - 1])])

\* total_length: the sum of the name lengths.
TotalLength == SumFunction([i \in DOMAIN Names |-> Len(Names[i])])

\* get_storage_size(): every right-hand side, S_0 -> S included.
StorageSize == SumFunction([r \in Rules |-> Len(Rhs(r))])

serialize(goto, action) ==
    <<K, Start + 1, TotalLength>>
    \o FlattenSeq([i \in DOMAIN Names |-> <<Len(Names[i]), Names[i]>>])
    \o <<Cardinality(Rules), StorageSize>>
    \o FlattenSeq([r \in 1..Cardinality(Rules) |->
                     <<Prods[r - 1].lhs, Len(Rhs(r - 1)), Rhs(r - 1)>>])
    \o TableFields(goto)
    \o TableFields(action)

-----------------------------------------------------------------------------
(* Importer::load on a stream that holds every field it reads              *)

\* in.read(ptr, n): the n elements of `data` overwrite buf from offset ptr
\* (they always fit: the buffer was sized by the sum of the lengths).
WriteAt(buf, ptr, data) ==
    SubSeq(buf, 1, ptr) \o data \o SubSeq(buf, ptr + Len(data) + 1, Len(buf))

\* A string_view or span <<offset, length>> read through its buffer.
View(buf, v) == SubSeq(buf, v[1] + 1, v[1] + v[2])

RECURSIVE ReadTokensSamePtr(_, _, _, _, _, _)
ReadTokensSamePtr(st, p, n, tokens, ptr, views) ==
    IF n = 0 THEN [p |-> p, buf |-> tokens, views |-> views]
    ELSE ReadTokensSamePtr(st, p + 2, n - 1, WriteAt(tokens, ptr, st[p + 1]),
                           ptr, Append(views, <<ptr, st[p]>>))

\* The token loop: n more names from position p, each read into tokens at
\* ptr_to_string and kept as a view, after which the pointer moves on.
RECURSIVE ReadTokens(_, _, _, _, _, _)
ReadTokens(st, p, n, tokens, ptr, views) ==
    IF n = 0 THEN [p |-> p, buf |-> tokens, views |-> views]
    ELSE LET len == st[p]
         IN  ReadTokens(st, p + 2, n - 1, WriteAt(tokens, ptr, st[p + 1]),
                        ptr + len, Append(views, <<ptr, len>>))

RECURSIVE ReadProdsSamePtr(_, _, _, _, _, _)
ReadProdsSamePtr(st, p, n, storage, ptr, prods) ==
    IF n = 0 THEN [p |-> p, buf |-> storage, prods |-> prods]
    ELSE ReadProdsSamePtr(st, p + 3, n - 1, WriteAt(storage, ptr, st[p + 2]),
                          ptr, Append(prods, [lhs |-> st[p], span |-> <<ptr, st[p + 1]>>]))

\* The prod loop: lhs_id, rhs_len, and the rhs ints read into _rhs_storage
\* at ptr_to_int, kept as a span, after which the pointer moves on.
RECURSIVE ReadProds(_, _, _, _, _, _)
ReadProds(st, p, n, storage, ptr, prods) ==
    IF n = 0 THEN [p |-> p, buf |-> storage, prods |-> prods]
    ELSE LET len == st[p + 1]
         IN  ReadProds(st, p + 3, n - 1, WriteAt(storage, ptr, st[p + 2]),
                       ptr + len, Append(prods, [lhs |-> st[p], span |-> <<ptr, len>>]))

RECURSIVE ReadEntriesSwapped(_, _, _, _)
ReadEntriesSwapped(st, p, n, row) ==
    IF n = 0 THEN [p |-> p, row |-> row]
    ELSE ReadEntriesSwapped(st, p + 2, n - 1, (st[p + 1] :> st[p]) @@ row)

\* local_table[key] = value for n more pairs: a later key overwrites.
RECURSIVE ReadEntries(_, _, _, _)
ReadEntries(st, p, n, row) ==
    IF n = 0 THEN [p |-> p, row |-> row]
    ELSE ReadEntries(st, p + 2, n - 1, (st[p] :> st[p + 1]) @@ row)

\* resize(size), then every row: its size and its pairs.
RECURSIVE ReadRows(_, _, _, _)
ReadRows(st, p, n, rows) ==
    IF n = 0 THEN [p |-> p, rows |-> rows]
    ELSE LET e == ReadEntries(st, p + 1, st[p], <<>>)
         IN  ReadRows(st, e.p, n - 1, Append(rows, e.row))

ReadTable(st, p) ==
    LET r == ReadRows(st, p + 1, st[p], <<>>)
    IN  [p |-> r.p, table |-> [s \in 0..(Len(r.rows) - 1) |-> r.rows[s + 1]]]

\* What load leaves in the RuntimeParser, with how it ended.
Parser(status, id2view, prod, goto, action) ==
    [status |-> status, id2view |-> id2view, prod |-> prod, goto |-> goto, action |-> action]

load(st) ==
    IF st[1] # K THEN Parser("k_mismatch", <<>>, <<>>, <<>>, <<>>)
    ELSE
    LET t  == ReadTokens(st, 4, st[2], [i \in 1..st[3] |-> NulChar], 0, <<>>)
        pr == ReadProds(st, t.p + 2, st[t.p], [i \in 1..st[t.p + 1] |-> 0], 0, <<>>)
        g  == ReadTable(st, pr.p)
        a  == ReadTable(st, g.p)
    IN  Parser("returned",
               [i \in DOMAIN t.views |-> View(t.buf, t.views[i])],
               [r \in 0..(Len(pr.prods) - 1) |->
                   [lhs |-> pr.prods[r + 1].lhs, rhs |-> View(pr.buf, pr.prods[r + 1].span)]],
               g.table, a.table)

\* load on a stream that ends after its first n fields.  From the cut on
\* every in.read fails and leaves its variable uninitialised; load checks
\* the stream state nowhere.  If the lookahead itself is missing the K test
\* may go either way; otherwise load returns tables whose remaining
\* contents are indeterminate, or a resize or reserve of an uninitialised
\* count throws.
TruncatedLoad(n) ==
    (IF n = 0 THEN {Parser("k_mismatch", <<>>, <<>>, <<>>, <<>>)} ELSE {})
    \cup {Parser("returned", GARBAGE, GARBAGE, GARBAGE, GARBAGE),
          Parser("threw", <<>>, <<>>, <<>>, <<>>)}
=============================================================================
