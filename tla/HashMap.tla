------------------------------ MODULE HashMap ------------------------------
(***************************************************************************)
(* UnorderedMap<Key, Value> of src/hash-map/unordered_map.h, instantiated  *)
(* with an integer key and std::hash<int> (the identity), so a node's      *)
(* hash_ is its key.  All nodes form one circular singly linked list       *)
(* through the sentinel fake_node_; bkt_ptr_[b] points at the node BEFORE  *)
(* the first node of bucket b (or is null), and bkt_ptr_[bkt_count_] at    *)
(* the last node of the list.  A node is named by its key: keys are unique *)
(* in the list as long as the map behaves as a map.                        *)
(***************************************************************************)
EXTENDS Integers, Sequences, FiniteSets, SequencesExt

CONSTANTS
    Keys,          \* the integer keys the program uses
    Values,        \* the mapped values
    DefaultValue,  \* value_type(), what operator[] inserts
    ReserveSizes,  \* the arguments of reserve()
    FAKE,          \* &fake_node_, also end()
    NULL           \* nullptr, and a node that is not allocated

ASSUME DefaultValue \in Values

VARIABLES
    right,       \* node -> node: the `right` pointer of fake_node_ and of every node
    bkt_ptr_,    \* NULL, or the array 0..bkt_count_ of before-first pointers and the tail
    bkt_count_,
    n_elt_,
    val,         \* key -> the value stored in its node (NULL: no node)
    fault        \* "none", or how the program died

vars == <<right, bkt_ptr_, bkt_count_, n_elt_, val, fault>>

Node == {FAKE} \cup Keys
Ptr == Node \cup {NULL}

\* The first bucket count rehash_if_need_ chooses, and growth_factor_.
InitialBuckets == 11
GrowthFactor == 2

\* UnorderedMap(): no bucket array; fake_node_.right == &fake_node_.
Init ==
    /\ right = [p \in Node |-> IF p = FAKE THEN FAKE ELSE NULL]
    /\ bkt_ptr_ = NULL
    /\ bkt_count_ = 0
    /\ n_elt_ = 0
    /\ val = [k \in Keys |-> NULL]
    /\ fault = "none"

\* The nodes in iteration order, from begin() (fake_node_.right) to end().
RECURSIVE ListFrom(_, _, _)
ListFrom(r, p, fuel) ==
    IF p = FAKE \/ fuel = 0 THEN <<>> ELSE <<p>> \o ListFrom(r, r[p], fuel - 1)
Iteration == ListFrom(right, right[FAKE], Cardinality(Keys) + 1)

\* get_addr: hash_ % bkt_count_.
Addr(p) == p % bkt_count_

\* The same, without re-pointing the bucket that used to be first.
AddToIndexKeepOldFirst(st, nd, mod) ==
    LET r == st.right
        h == st.bkt
        b == nd % mod
    IN  CASE h[b] # NULL ->
               [st EXCEPT !.right = [r EXCEPT ![nd] = r[h[b]], ![h[b]] = nd]]
          [] h[mod] = FAKE ->
               [right |-> [r EXCEPT ![nd] = FAKE, ![FAKE] = nd],
                bkt   |-> [h EXCEPT ![mod] = nd, ![b] = FAKE]]
          [] OTHER ->
               [right |-> [r EXCEPT ![nd] = r[FAKE], ![FAKE] = nd],
                bkt   |-> [h EXCEPT ![b] = FAKE]]

\* add_to_index_(new_node, bkt_holder, mod) on st = [right, bkt]: a node of
\* a non-empty bucket goes right after the bucket's before-first node; into
\* an empty list it becomes the only node and the tail; otherwise it goes
\* to the front of the list and becomes the before-first node of the
\* bucket that used to be first.
AddToIndex(st, nd, mod) ==
    LET r == st.right
        h == st.bkt
        b == nd % mod
    IN  CASE h[b] # NULL ->
               [st EXCEPT !.right = [r EXCEPT ![nd] = r[h[b]], ![h[b]] = nd]]
          [] h[mod] = FAKE ->
               [right |-> [r EXCEPT ![nd] = FAKE, ![FAKE] = nd],
                bkt   |-> [h EXCEPT ![mod] = nd, ![b] = FAKE]]
          [] OTHER ->
               [right |-> [r EXCEPT ![nd] = r[FAKE], ![FAKE] = nd],
                bkt   |-> [h EXCEPT ![r[FAKE] % mod] = nd, ![b] = FAKE]]

\* rehash_(new_sz): a fresh array of nulls whose tail slot is end(), then
\* every node, in the old iteration order, re-added with add_to_index_.
Rehashed(new_sz) ==
    FoldLeft(LAMBDA st, nd : AddToIndex(st, nd, new_sz),
             [right |-> right,
              bkt   |-> [i \in 0..new_sz |-> IF i = new_sz THEN FAKE ELSE NULL]],
             Iteration)

\* find(key): walk the bucket from its before-first node while the next
\* node is in the bucket and has another key.
RECURSIVE FindFrom(_, _, _, _)
\* The same, returning the next node without checking it is in the bucket.
FindFromAnyBucket(cur, key, b, fuel) ==
    LET nx == right[cur]
    IN  IF nx # FAKE /\ Addr(nx) = b /\ nx # key /\ fuel > 0
        THEN FindFrom(nx, key, b, fuel - 1)
        ELSE IF nx # FAKE THEN nx ELSE FAKE

FindFrom(cur, key, b, fuel) ==
    LET nx == right[cur]
    IN  IF nx # FAKE /\ Addr(nx) = b /\ nx # key /\ fuel > 0
        THEN FindFrom(nx, key, b, fuel - 1)
        ELSE IF nx # FAKE /\ Addr(nx) = b THEN nx ELSE FAKE

Find(key) ==
    IF bkt_count_ = 0 THEN FAKE
    ELSE IF bkt_ptr_[key % bkt_count_] = NULL THEN FAKE
    ELSE FindFrom(bkt_ptr_[key % bkt_count_], key, key % bkt_count_, Cardinality(Keys))

\* rehash_if_need_: 11 buckets for the first node, doubled when
\* load_factor() = n_elt_ / bkt_count_ exceeds max_load_factor() = 1.0.
NeedsRehash == bkt_count_ = 0 \/ n_elt_ > bkt_count_
NewBucketCount ==
    IF bkt_count_ = 0 THEN InitialBuckets
    ELSE IF n_elt_ > bkt_count_ THEN bkt_count_ * GrowthFactor
    ELSE bkt_count_

\* The common tail of insert and emplace once find() missed:
\* rehash_if_need_, add_to_index_, n_elt_++.
InsertNew(k, v) ==
    LET nb  == NewBucketCount
        st1 == IF NeedsRehash THEN Rehashed(nb) ELSE [right |-> right, bkt |-> bkt_ptr_]
        st2 == AddToIndex(st1, k, nb)
    IN  /\ right' = st2.right
        /\ bkt_ptr_' = st2.bkt
        /\ bkt_count_' = nb
        /\ n_elt_' = n_elt_ + 1
        /\ val' = [val EXCEPT ![k] = v]
        /\ UNCHANGED fault

Alive == fault = "none"

\* insert(pair) / emplace(k, v) of an absent key (a present key changes
\* nothing).
Insert(k, v) ==
    /\ Alive
    /\ Find(k) = FAKE
    /\ InsertNew(k, v)

\* operator[](k) = v: the value of the node find() returns, or a node
\* emplaced with value_type() and then assigned.
Assign(k, v) ==
    /\ Alive
    /\ IF Find(k) # FAKE
       THEN /\ val' = [val EXCEPT ![Find(k)] = v]
            /\ UNCHANGED <<right, bkt_ptr_, bkt_count_, n_elt_, fault>>
       ELSE InsertNew(k, v)

\* The same, without bkt_count_ = new_sz.
ReserveKeepCount(n) ==
    /\ Alive
    /\ IF n = 0 /\ Iteration # <<>>
       THEN /\ fault' = "div_by_zero"
            /\ UNCHANGED <<right, bkt_ptr_, bkt_count_, n_elt_, val>>
       ELSE LET st == Rehashed(n)
            IN  /\ right' = st.right
                /\ bkt_ptr_' = st.bkt
                /\ UNCHANGED <<bkt_count_, n_elt_, val, fault>>

\* reserve(n) is rehash_(n); with n = 0 the first node's hash_ % 0 traps.
Reserve(n) ==
    /\ Alive
    /\ IF n = 0 /\ Iteration # <<>>
       THEN /\ fault' = "div_by_zero"
            /\ UNCHANGED <<right, bkt_ptr_, bkt_count_, n_elt_, val>>
       ELSE LET st == Rehashed(n)
            IN  /\ right' = st.right
                /\ bkt_ptr_' = st.bkt
                /\ bkt_count_' = n
                /\ UNCHANGED <<n_elt_, val, fault>>

\* erase(pos): walk from the bucket's before-first node to the node before
\* pos and unlink pos; the tail or the next bucket's before-first pointer
\* moves to prev; the bucket of pos is nulled when prev lies in another
\* bucket.  When prev is &fake_node_, static_cast<node*>(prev)->hash_
\* reads past the sentinel: any bucket.  A null bucket pointer is
\* dereferenced.
RECURSIVE PrevOf(_, _, _)
PrevOf(p, pos, fuel) ==
    IF right[p] = pos \/ fuel = 0 THEN p ELSE PrevOf(right[p], pos, fuel - 1)

Erase(pos) ==
    /\ Alive
    /\ pos \in Range(Iteration)
    /\ LET b == Addr(pos)
       IN  IF bkt_ptr_[b] = NULL
           THEN /\ fault' = "null_deref"
                /\ UNCHANGED <<right, bkt_ptr_, bkt_count_, n_elt_, val>>
           ELSE LET prev == PrevOf(bkt_ptr_[b], pos, Cardinality(Keys) + 1)
                    nxt  == right[pos]
                    bkt1 == IF nxt = FAKE THEN [bkt_ptr_ EXCEPT ![bkt_count_] = prev]
                            ELSE IF b # Addr(nxt) THEN [bkt_ptr_ EXCEPT ![Addr(nxt)] = prev]
                            ELSE bkt_ptr_
                IN  \E prevAddr \in IF prev = FAKE THEN 0..(bkt_count_ - 1) ELSE {Addr(prev)} :
                       /\ bkt_ptr_' = IF b # prevAddr THEN [bkt1 EXCEPT ![b] = NULL] ELSE bkt1
                       /\ right' = [right EXCEPT ![prev] = nxt, ![pos] = NULL]
                       /\ val' = [val EXCEPT ![pos] = NULL]
                       /\ n_elt_' = n_elt_ - 1
                       /\ UNCHANGED <<bkt_count_, fault>>

\* Every operation but erase.
Update ==
    \/ \E k \in Keys, v \in Values : Insert(k, v) \/ Assign(k, v)
    \/ \E n \in ReserveSizes : Reserve(n)

Next == Update \/ \E k \in Keys : Erase(k)

Spec == Init /\ [][Next]_vars
SpecWithoutErase == Init /\ [][Update]_vars

-----------------------------------------------------------------------------
TypeOK ==
    /\ right \in [Node -> Ptr]
    /\ bkt_count_ \in Nat
    /\ bkt_ptr_ \in {NULL} \cup [0..bkt_count_ -> Ptr]
    /\ n_elt_ \in 0..Cardinality(Keys)
    /\ val \in [Keys -> Values \cup {NULL}]
    /\ fault \in {"none", "div_by_zero", "null_deref"}

\* The bucket index describes the list: size() counts its nodes, no key is
\* in it twice, the tail slot holds its last node, and the nodes of each
\* bucket are one contiguous run whose before-first node the bucket holds
\* (null for a bucket without nodes).  find, erase and add_to_index_ all
\* rely on it; rehash_ and the three cases of add_to_index_ must keep it.
IndexConsistent ==
    LET L == Iteration
        In(b) == {i \in 1..Len(L) : Addr(L[i]) = b}
    IN  /\ n_elt_ = Len(L)
        /\ IsInjective(L)
        /\ \A k \in Keys : val[k] # NULL <=> k \in Range(L)
        /\ bkt_count_ = 0 => L = <<>>
        /\ bkt_count_ > 0 =>
             /\ bkt_ptr_[bkt_count_] = IF L = <<>> THEN FAKE ELSE L[Len(L)]
             /\ \A b \in 0..(bkt_count_ - 1) :
                  IF In(b) = {} THEN bkt_ptr_[b] = NULL
                  ELSE /\ Max(In(b)) - Min(In(b)) + 1 = Cardinality(In(b))
                       /\ bkt_ptr_[b] = IF Min(In(b)) = 1 THEN FAKE ELSE L[Min(In(b)) - 1]

\* What a caller sees: the keys find() reaches, with their values.
VisibleDict == [k \in {x \in Keys : Find(x) # FAKE} |-> val[k]]

AM == INSTANCE AbstractMap WITH dict <- VisibleDict

\* UnorderedMap implements a map: under the mapping "the keys find()
\* reaches", insert/operator[] add or assign exactly one key, erase removes
\* exactly one, and reserve/rehash lose or invent none.
Refines == AM!Spec

\* No operation traps or dereferences null.
NoFault == fault = "none"
=============================================================================
