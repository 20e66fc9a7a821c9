------------------------------ MODULE MCLoader ------------------------------
(***************************************************************************)
(* Grammar files of one or two lines over the names S, A, a and S_0 (the   *)
(* last one forces a longer start name).  Well-formed lines have one or    *)
(* two rhs names or eps; malformed ones are a lone lhs or a wrong          *)
(* separator.  Blank lines are the files with a trailing newline.          *)
(***************************************************************************)
EXTENDS Loader

Vocabulary == {"S", "A", "a", "S_0"}
Rhss == {<<EPS>>} \cup {<<x>> : x \in Vocabulary} \cup {<<x, y>> : x, y \in Vocabulary}
WellFormedLines == {<<l, SEPARATOR>> \o r : l \in Vocabulary, r \in Rhss}
MalformedLines == {<<l>> : l \in Vocabulary} \cup {<<l, "a">> : l \in Vocabulary}
Lines == WellFormedLines \cup MalformedLines

\* Files without a blank line: one or two lines.
PlainFiles == {<<l>> : l \in Lines} \cup {<<l1, l2>> : l1, l2 \in Lines}

\* One or two well-formed lines, the first defining S, the file ending in
\* a newline.
NewlineFiles ==
    LET first == {l \in WellFormedLines : l[1] = "S"}
    IN  {<<l, <<>>>> : l \in first} \cup {<<l1, l2, <<>>>> : l1 \in first, l2 \in WellFormedLines}

=============================================================================
