------------------------------ MODULE MCIndexes ------------------------------
(****************************************************************************)
(* The indexes that live in memory, for TLC.  None calls another, and       *)
(* nothing in the repository calls any of them: the initial states choose   *)
(* which is examined.  MCStorage takes these steps among its own.           *)
(****************************************************************************)
EXTENDS Integers, Sequences

CONSTANTS
    Key, Item,              \* the keys and what is stored under them
    BucketCount,            \* of the hash index
    Bits, HashCount, MaxItems,  \* of the Bloom filter: its size, hashes, additions
    BlockSize, MaxRow,      \* of the bitmap index
    Coordinates, MaxChildren, MaxInserts,  \* of the R tree
    MaxCapacity             \* of the B+ tree

VARIABLES
    index,                                            \* what is examined
    chains, itemCount, stored,                        \* of HashIndex
    bits, added, keys,                                \* of BloomFilter
    items, maxBit, indexed,                           \* of BitmapIndex
    root, height, boxCount, tried, failed, present,   \* of RTree
    leaf, leafCapacity, split, held                   \* of BPlusTree

\* Keys share a bucket, and each key has a hash in common with another.
MCHash == [k \in Key |-> (k % BucketCount) + 1]
MCBase == [k \in Key |-> [i \in 0..2 |-> (k * (i + 2) + i) % Bits]]
MCBoxes == {a..b : a \in Coordinates, b \in Coordinates} \ {{}}

Hashed == INSTANCE HashIndex WITH Value <- Item, Buckets <- 1..BucketCount, Hash <- MCHash
Bloom == INSTANCE BloomFilter WITH Size <- Bits, Base <- MCBase
Bitmaps == INSTANCE BitmapIndex WITH Value <- Item
Boxed == INSTANCE RTree WITH Boxes <- MCBoxes, itemCount <- boxCount
Ordered == INSTANCE BPlusTree WITH Value <- Item, capacity <- leafCapacity

ASSUME IndexAssumption ==
       /\ BucketCount \in Nat \ {0}
       /\ Hashed!HashAssumption /\ Bloom!BloomAssumption /\ Bitmaps!BitmapAssumption
       /\ Boxed!RTreeAssumption /\ Ordered!BPlusTreeAssumption

hashVars == <<chains, itemCount, stored>>
bloomVars == <<bits, added, keys>>
bitmapVars == <<items, maxBit, indexed>>
boxVars == <<root, height, boxCount, tried, failed, present>>
leafVars == <<leaf, leafCapacity, split, held>>
indexVars == <<index, hashVars, bloomVars, bitmapVars, boxVars, leafVars>>

IndexInit ==
    /\ index \in {"hash", "bloom", "bitmap", "boxes", "ordered"}
    /\ Hashed!Init /\ Bloom!Init /\ Bitmaps!Init /\ Boxed!Init /\ Ordered!Init
    /\ index # "ordered" => leafCapacity = 0

IndexNext ==
    \/ /\ index = "hash"
       /\ Hashed!Next
       /\ UNCHANGED <<index, bloomVars, bitmapVars, boxVars, leafVars>>
    \/ /\ index = "bloom"
       /\ Bloom!Next
       /\ UNCHANGED <<index, hashVars, bitmapVars, boxVars, leafVars>>
    \/ /\ index = "bitmap"
       /\ Bitmaps!Next
       /\ UNCHANGED <<index, hashVars, bloomVars, boxVars, leafVars>>
    \/ /\ index = "boxes"
       /\ Boxed!Next
       /\ UNCHANGED <<index, hashVars, bloomVars, bitmapVars, leafVars>>
    \/ /\ index = "ordered"
       /\ Ordered!Next
       /\ UNCHANGED <<index, hashVars, bloomVars, bitmapVars, boxVars>>

IndexSpec == IndexInit /\ [][IndexNext]_indexVars

-----------------------------------------------------------------------------
(* Properties.                                                              *)

\* The state of the index that is examined is of its type.  The R tree, whose nodes
\* nest, has its shape in TreeSound.
IndexTypeOK ==
    /\ index = "hash" => Hashed!TypeOK
    /\ index = "bloom" => Bloom!TypeOK
    /\ index = "bitmap" => Bitmaps!TypeOK
    /\ index = "ordered" => Ordered!TypeOK

\* Every index but the R tree has what was put into it and was not taken out, and
\* nothing that it can tell from it: HashIndex (hash_index.c:95-189), BloomFilter
\* (bloom_filter.c:76-181), BitmapIndex (bitmap_index.c:38-311), BPlusTree
\* (b_plus_tree.c:335-530).
IndexesComplete ==
    /\ index = "hash" => Hashed!AnswersLast
    /\ index = "bloom" => Bloom!NoFalseNegative
    /\ index = "bitmap" => Bitmaps!QueriesExact /\ Bitmaps!OperationsExact
    /\ index = "ordered" => Ordered!LeafAnswersLast

\* RTree: no node too full, all leaves equally deep, no item lost or there twice,
\* through splits and allocations that fail in them (r_tree.c:102-274, 362-396).
TreeSound == index = "boxes" => Boxed!TreeSound

\* RTree: "查询点是否在空间范围内" (r_tree.c:398), whether a point is in a range,
\* without failed allocations.
QueryComplete == index = "boxes" => Boxed!QueryComplete
=============================================================================
