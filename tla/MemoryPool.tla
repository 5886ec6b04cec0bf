----------------------------- MODULE MemoryPool -----------------------------
(****************************************************************************)
(* memory/memory_pool.c.  All memory comes from one region, front to back.  *)
(* Small requests are rounded up to a block size; the free lists, which     *)
(* only memory_pool_free could fill, stay empty because it gives nothing    *)
(* back.  A region that is too small is reallocated; that it may move then  *)
(* is left out, a block is known by its offset.                             *)
(****************************************************************************)
EXTENDS Integers, Sequences, FiniteSets

CONSTANTS
    InitSize,    \* the configured size of the region
    BlockSizes,  \* 8, 16, ..., 4096
    Requests,    \* the sizes callers ask for
    MaxSize      \* bound: the region size the C library can provide

PoolAssumption ==
    /\ InitSize \in Nat \ {0} /\ MaxSize \in Nat /\ InitSize <= MaxSize
    /\ BlockSizes \subseteq Nat \ {0} /\ BlockSizes # {} /\ IsFiniteSet(BlockSizes)
    /\ Requests \subseteq Nat \ {0}

VARIABLES
    size,     \* large_memory_size, which total_memory repeats
    offset,   \* large_memory_used
    used,     \* used_memory
    free,     \* free_memory
    blocks    \* history: what was handed out

poolVars == <<size, offset, used, free, blocks>>

Block == [from : Nat, len : Nat \ {0}, asked : Nat \ {0}]

PoolTypeOK ==
    /\ size \in Nat /\ offset \in Nat /\ used \in Nat /\ free \in Int
    /\ blocks \subseteq Block

PoolInit ==
    /\ size = InitSize /\ offset = 0 /\ used = 0 /\ free = InitSize
    /\ blocks = {}

\* get_block_size_index and block_sizes: the least block that fits, or, above
\* the greatest, the size itself.
Taken(asked) ==
    LET fits == {b \in BlockSizes : asked <= b}
    IN  IF fits = {} THEN asked ELSE CHOOSE b \in fits : \A c \in fits : b <= c

\* Slip: the region is doubled, and that taken to be enough.
Doubled(len) == IF len > 0 THEN 2 * size ELSE size

\* The region is doubled, or made as great as it must be.
Enlarged(len) == IF 2 * size < offset + len THEN offset + len ELSE 2 * size

Hand(asked, len) ==
    /\ blocks' = blocks \cup {[from |-> offset, len |-> len, asked |-> asked]}
    /\ offset' = offset + len
    /\ used' = used + len

AllocInRegion(asked) ==
    LET len == Taken(asked)
    IN  /\ offset + len <= size
        /\ Hand(asked, len)
        /\ free' = free - len
        /\ UNCHANGED size

AllocEnlarging(asked) ==
    LET len == Taken(asked)
    IN  /\ offset + len > size
        /\ Enlarged(len) <= MaxSize
        /\ size' = Enlarged(len)
        /\ Hand(asked, len)
        /\ free' = Enlarged(len) - used - len

\* Slip: the free memory is computed when the block is there, not before.
AllocHalfwayStale(asked) ==
    LET len == Taken(asked)
    IN  /\ len \in BlockSizes /\ asked <= len
        /\ offset + len > size
        /\ size' = Enlarged(len)
        /\ UNCHANGED <<free, offset, used, blocks>>

\* The region grew, then the descriptor of the small block could not be
\* allocated.
AllocHalfway(asked) ==
    LET len == Taken(asked)
    IN  /\ len \in BlockSizes /\ asked <= len
        /\ offset + len > size
        /\ Enlarged(len) <= MaxSize
        /\ size' = Enlarged(len)
        /\ free' = Enlarged(len) - used
        /\ UNCHANGED <<offset, used, blocks>>

PoolNext ==
    \E asked \in Requests :
       AllocInRegion(asked) \/ AllocEnlarging(asked) \/ AllocHalfway(asked)

PoolSpec == PoolInit /\ [][PoolNext]_poolVars

-----------------------------------------------------------------------------
(* Properties.                                                              *)

\* Memory handed out of the present region lies inside it, is as long as was
\* asked, and overlaps nothing handed out before (memory_pool.c:76-103, 133-170).
BlocksAreDisjoint ==
    /\ \A b \in blocks : b.asked <= b.len /\ b.from + b.len <= offset
    /\ \A b, c \in blocks : b = c \/ b.from + b.len <= c.from \/ c.from + c.len <= b.from
    /\ offset <= size

\* The statistics add up to the size of the region through every enlargement,
\* also one whose allocation failed (memory_pool.c:91-101, 147-168).
StatisticsAddUp == used + free = size /\ used = offset /\ free >= 0

\* Both, at every step (memory_pool.c:76-103, 133-170).
PoolSound == BlocksAreDisjoint /\ StatisticsAddUp

=============================================================================
