----------------------------- MODULE AbstractMap -----------------------------
(***************************************************************************)
(* What UnorderedMap (src/hash-map/unordered_map.h) promises as a drop-in  *)
(* std::unordered_map: a finite partial function from keys to values.      *)
(* insert/emplace add a key that is absent and leave a present one alone,  *)
(* operator[] assigns (adding the key first), erase removes one key, and   *)
(* reserve/rehash change nothing a caller can observe.                     *)
(***************************************************************************)
EXTENDS FiniteSets

CONSTANTS Keys, Values

VARIABLE dict

Init == dict = [k \in {} |-> CHOOSE v \in Values : TRUE]

\* A function equal to dict on the old keys and to v on k.
Put(k, v) == [x \in DOMAIN dict \cup {k} |-> IF x = k THEN v ELSE dict[x]]

Insert(k, v) ==
    /\ k \notin DOMAIN dict
    /\ dict' = Put(k, v)

Assign(k, v) == dict' = Put(k, v)

Erase(k) ==
    /\ k \in DOMAIN dict
    /\ dict' = [x \in DOMAIN dict \ {k} |-> dict[x]]

Next ==
    \E k \in Keys :
        \/ Erase(k)
        \/ \E v \in Values : Insert(k, v) \/ Assign(k, v)

\* Reserving buckets, and inserting a key that is already present, are
\* stuttering steps of this specification.
Spec == Init /\ [][Next]_dict
=============================================================================
