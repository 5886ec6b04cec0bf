------------------------------ MODULE BPlusTree ------------------------------
(****************************************************************************)
(* index/b_plus_tree.c: the tree as long as it is one leaf.  The leaf is    *)
(* made before node_capacity is set (lines 303-315), so that its capacity   *)
(* is what happens to be in memory.  The first split counts every entry of  *)
(* the new leaf twice, and leaves the root with a key that is NULL (lines   *)
(* 138, 149, 177): each later call compares with it.  The model ends there. *)
(****************************************************************************)
EXTENDS Integers, Sequences, SequencesExt

CONSTANTS
    Key,         \* in the order of compare
    Value,
    MaxCapacity  \* bound: the capacity the leaf happens to have

BPlusTreeAssumption == Key \subseteq Int /\ MaxCapacity \in Nat

VARIABLES
    leaf,      \* the entries of the leaf, keys and values
    capacity,  \* its capacity
    split,     \* it was split
    held       \* history: what was inserted last under a key and not deleted

vars == <<leaf, capacity, split, held>>

TypeOK ==
    /\ leaf \in Seq([key : Key, val : Value]) /\ Len(leaf) <= capacity
    /\ capacity \in 0..MaxCapacity
    /\ split \in BOOLEAN
    /\ DOMAIN held \subseteq Key /\ \A k \in DOMAIN held : held[k] \in Value

Init == leaf = <<>> /\ capacity \in 0..MaxCapacity /\ split = FALSE /\ held = <<>>

\* b_plus_tree_find_key_index between two places: that of the key, or the one it
\* would come to.  The places are counted from 1.
Between(k) ==
    LET Search[part \in (1..(Len(leaf) + 1)) \X (0..Len(leaf))] ==
          LET left == part[1]
              right == part[2]
              mid == (left + right) \div 2
          IN  IF left > right THEN left
              ELSE IF k = leaf[mid].key THEN mid
              ELSE IF k < leaf[mid].key THEN Search[<<left, mid - 1>>]
              ELSE Search[<<mid + 1, right>>]
    IN  Search

\* Slip: right is the one before the last.
IndexShort(k) == IF leaf = <<>> THEN 1 ELSE Between(k)[<<1, Len(leaf) - 1>>]

Index(k) == Between(k)[<<1, Len(leaf)>>]

IsThere(k) == Index(k) <= Len(leaf) /\ leaf[Index(k)].key = k

Insert(k, v) ==
    /\ ~split
    /\ \/ /\ IsThere(k)
          /\ leaf' = [leaf EXCEPT ![Index(k)].val = v]
          /\ UNCHANGED split
       \/ /\ ~IsThere(k) /\ Len(leaf) < capacity
          /\ leaf' = InsertAt(leaf, Index(k), [key |-> k, val |-> v])
          /\ UNCHANGED split
       \/ /\ ~IsThere(k) /\ Len(leaf) >= capacity
          /\ split' = TRUE
          /\ UNCHANGED leaf
    /\ held' = [x \in DOMAIN held \cup {k} |-> IF x = k THEN v ELSE held[x]]
    /\ UNCHANGED capacity

\* The leaf has no siblings, and stays when its last entry goes.
Delete(k) ==
    /\ ~split /\ IsThere(k)
    /\ leaf' = RemoveAt(leaf, Index(k))
    /\ held' = [x \in DOMAIN held \ {k} |-> held[x]]
    /\ UNCHANGED <<capacity, split>>

\* b_plus_tree_find: the values it may answer, none for NULL.
Find(k) == IF IsThere(k) THEN {leaf[Index(k)].val} ELSE {}

\* b_plus_tree_range_query: the entries in the range, up to the first beyond it.
RangeQuery(from, to) ==
    LET Within(i) == from <= leaf[i].key /\ \A j \in 1..i : leaf[j].key <= to
    IN  {leaf[i] : i \in {j \in DOMAIN leaf : Within(j)}}

Next == \E k \in Key : Delete(k) \/ \E v \in Value : Insert(k, v)

Spec == Init /\ [][Next]_vars

-----------------------------------------------------------------------------
(* Properties.                                                              *)

\* Until it is split the leaf answers with what was inserted last under a key,
\* and a range with every entry in it, in ascending order: the search by halves
\* and the early end of the range both depend on the order (b_plus_tree.c:90-109,
\* 335-403, 464-530).
LeafAnswersLast ==
    ~split =>
      /\ \A k \in Key : Find(k) = IF k \in DOMAIN held THEN {held[k]} ELSE {}
      /\ \A i, j \in DOMAIN leaf : i < j => leaf[i].key < leaf[j].key
      /\ \A from, to \in Key :
            RangeQuery(from, to) = {[key |-> k, val |-> held[k]] :
                                      k \in {x \in DOMAIN held : from <= x /\ x <= to}}
=============================================================================
