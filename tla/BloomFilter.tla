----------------------------- MODULE BloomFilter -----------------------------
(****************************************************************************)
(* index/bloom_filter.c: a filter of size bits and hash_count hashes, of    *)
(* which the first three are functions of the key and the others are made   *)
(* of the first two.  At most 16 hashes have room on the stack; nothing     *)
(* checks that, and a filter of more is left out.                           *)
(****************************************************************************)
EXTENDS Integers, FiniteSets

CONSTANTS
    Key,
    Size,       \* size, in bits
    HashCount,  \* hash_count
    Base,       \* hash_function1 to 3, of a key, modulo size
    MaxItems    \* bound: elements added

BloomAssumption ==
    /\ Size \in Nat \ {0} /\ HashCount \in 1..16 /\ MaxItems \in Nat
    /\ Base \in [Key -> [0..2 -> 0..(Size - 1)]]

VARIABLES
    bits,   \* the bits that are set
    added,  \* item_count
    keys    \* history: the keys added since the filter was reset

vars == <<bits, added, keys>>

TypeOK == bits \subseteq 0..(Size - 1) /\ added \in Nat /\ keys \subseteq Key

Init == bits = {} /\ added = 0 /\ keys = {}

\* get_hash_values
HashOf(k, i) == IF i < 3 THEN Base[k][i] ELSE (Base[k][0] + i * Base[k][1]) % Size

Positions(k) == {HashOf(k, i) : i \in 0..(HashCount - 1)}

\* An element that was there is counted again.
Add(k) ==
    /\ added < MaxItems
    /\ bits' = bits \cup Positions(k)
    /\ added' = added + 1
    /\ keys' = keys \cup {k}

Reset == bits' = {} /\ added' = 0 /\ keys' = {}

\* Slip: one of the hashes is enough.
ContainsAny(k) == Positions(k) \cap bits # {}

Contains(k) == Positions(k) \subseteq bits

Next == Reset \/ \E k \in Key : Add(k)

Spec == Init /\ [][Next]_vars

-----------------------------------------------------------------------------
(* Properties.                                                              *)

\* What was added is contained, and what is contained though it was not added
\* shares each of its bits with something that was (bloom_filter.c:76-90, 130-181).
NoFalseNegative ==
    /\ \A k \in keys : Contains(k)
    /\ \A k \in Key : Contains(k) => Positions(k) \subseteq UNION {Positions(x) : x \in keys}
    /\ Cardinality(keys) <= added
=============================================================================
