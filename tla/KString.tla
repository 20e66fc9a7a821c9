------------------------------ MODULE KString ------------------------------
(***************************************************************************)
(* Bounded lookahead strings of the LR(k) generator (src/lr-k/include/     *)
(* utils.hpp, struct KString) and the lookahead-list concatenation of      *)
(* GrammarAnalysis::k_concat (first_k.hpp).  A KString is a sequence of at *)
(* most K symbol ids; its fixed array and uint8_t length are abstracted to *)
(* a TLA+ sequence, whose Len is the `len` field.  A lookahead_list is a   *)
(* sorted, duplicate-free vector; since every use sorts and deduplicates   *)
(* it, it is modelled as a set.                                            *)
(***************************************************************************)
EXTENDS Naturals, Sequences

CONSTANT K          \* the compile-time Lookahead template parameter

ASSUME K \in Nat

\* KString() : the empty lookahead string (len = 0).
EmptyKString == <<>>

\* KString(int nt) : a one-symbol string; for Lookahead = 0 the generator
\* uses KString() instead (build_kfirst, `if constexpr (Lookahead != 0)`).
KStringOf(t) == IF K # 0 THEN <<t>> ELSE EmptyKString

KConcatOverrun(a, b) ==
    LET room == IF K - Len(a) + 1 < Len(b) THEN K - Len(a) + 1 ELSE Len(b)
    IN  a \o SubSeq(b, 1, room)

\* KString::operator+ : copy of the left string extended by the first
\* symbols of the right one while the total length stays below K.
KConcat(a, b) ==
    LET room == IF K - Len(a) < Len(b) THEN K - Len(a) ELSE Len(b)
    IN  a \o SubSeq(b, 1, room)

\* GrammarAnalysis::k_concat : every left string that is already full is
\* kept as it is (even when the right list is empty); every other left
\* string is extended by every right string; then sort + unique.
k_concat(lhs, rhs) ==
    {i \in lhs : Len(i) = K}
      \cup {KConcat(i, j) : i \in {x \in lhs : Len(x) # K}, j \in rhs}

-----------------------------------------------------------------------------
(* Reference definitions (spec, section 3): a string truncated to K        *)
(* symbols, a set concatenation as the pairwise concatenation followed by  *)
(* truncation, and FIRST_k of a symbol sequence given FIRST_k of each      *)
(* symbol in f.  They use neither KConcat nor k_concat.                    *)
Trunc(s) == SubSeq(s, 1, IF Len(s) < K THEN Len(s) ELSE K)
SetConcat(X, Y) == {Trunc(x \o y) : x \in X, y \in Y}
RECURSIVE RefFirst(_, _)
RefFirst(f, w) == IF w = <<>> THEN {<<>>} ELSE SetConcat(f[Head(w)], RefFirst(f, Tail(w)))

=============================================================================
