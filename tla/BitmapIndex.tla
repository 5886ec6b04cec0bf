----------------------------- MODULE BitmapIndex -----------------------------
(****************************************************************************)
(* index/bitmap_index.c: a bitmap of rows for each value, all enlarged when *)
(* a row lies beyond them.  An allocation may fail after some of them were  *)
(* enlarged, so that they need not be of one size.  A bitmap is the set of  *)
(* the bits that are set and its bit_count; the bits beyond it in the last  *)
(* block are there, as they are in the code.                                *)
(****************************************************************************)
EXTENDS Integers, Sequences, SequencesExt

CONSTANTS
    Value,
    BlockSize,  \* BITMAP_INDEX_BLOCK_SIZE: 64
    MaxRow      \* bound: the greatest row id

BitmapAssumption == BlockSize \in Nat \ {0} /\ MaxRow \in Nat

VARIABLES
    items,    \* the values with their bitmaps, in the order of their coming
    maxBit,   \* max_bit_position
    indexed   \* history: pairs of value and row that were inserted

vars == <<items, maxBit, indexed>>

Row == 0..MaxRow

Bitmap == [bits : SUBSET Nat, size : Nat]

TypeOK ==
    /\ items \in Seq([value : Value, map : Bitmap])
    /\ maxBit \in Nat
    /\ indexed \subseteq Value \X Row

Init == items = <<>> /\ maxBit = 0 /\ indexed = {}

\* calculate_blocks: what the blocks of a bitmap have room for.
Room(size) == BlockSize * ((size + BlockSize - 1) \div BlockSize)

\* Slip: one block less is copied.
ResizedShort(map, size) ==
    [bits |-> {p \in map.bits : p < Room(size) - BlockSize}, size |-> size]

\* bitmap_create and the copy in expand_bitmaps.
Resized(map, size) == [bits |-> {p \in map.bits : p < Room(size)}, size |-> size]

\* bitmap_set, bitmap_clear and bitmap_test
SetBit(map, p) == [map EXCEPT !.bits = @ \cup IF p < map.size THEN {p} ELSE {}]
ClearBit(map, p) == [map EXCEPT !.bits = @ \ IF p < map.size THEN {p} ELSE {}]
TestBit(map, p) == p < map.size /\ p \in map.bits

\* bitmap_and, bitmap_or and bitmap_not, block by block.
And(a, b) ==
    LET size == IF a.size < b.size THEN a.size ELSE b.size
    IN  [bits |-> {p \in a.bits \cap b.bits : p < Room(size)}, size |-> size]
Or(a, b) ==
    [bits |-> a.bits \cup b.bits, size |-> IF a.size > b.size THEN a.size ELSE b.size]
Not(a) == [bits |-> {p \in 0..(a.size - 1) : p \notin a.bits}, size |-> a.size]

\* find_bitmap_index_item, 0 when there is none.
Find(v) == SelectInSeq(items, LAMBDA m : m.value = v)

\* expand_bitmaps, as far as it gets: the first n bitmaps.
Expanded(n, size) ==
    [i \in DOMAIN items |->
       IF i <= n THEN [items[i] EXCEPT !.map = Resized(@, size)] ELSE items[i]]

\* The items and max_bit_position for an insertion of row r.
Enlarged(r) ==
    IF r < maxBit THEN [items |-> items, maxBit |-> maxBit]
    ELSE [items |-> Expanded(Len(items), r + 1), maxBit |-> r + 1]

Insert(v, r) ==
    LET to == Enlarged(r)
        i == Find(v)
        map == IF i = 0 THEN Resized([bits |-> {}, size |-> 0], to.maxBit) ELSE to.items[i].map
        item == [value |-> v, map |-> SetBit(map, r)]
    IN  /\ items' = IF i = 0 THEN Append(to.items, item) ELSE [to.items EXCEPT ![i] = item]
        /\ maxBit' = to.maxBit
        /\ indexed' = indexed \cup {<<v, r>>}

\* An allocation fails in the middle of enlarging the bitmaps, or, for a new
\* value, after that.
InsertFails(v, r) ==
    /\ \/ /\ r >= maxBit
          /\ \E n \in 0..(Len(items) - 1) : items' = Expanded(n, r + 1)
          /\ UNCHANGED maxBit
       \/ /\ Find(v) = 0
          /\ items' = Enlarged(r).items
          /\ maxBit' = Enlarged(r).maxBit
    /\ UNCHANGED indexed

\* bitmap_index_query, of a value that is there.
Query(v) == items[Find(v)].map

Next == \E v \in Value, r \in Row : Insert(v, r) \/ InsertFails(v, r)

Spec == Init /\ [][Next]_vars

-----------------------------------------------------------------------------
(* Properties.                                                              *)

RowsOf(v) == {r \in Row : <<v, r>> \in indexed}

Indexed == {v \in Value : Find(v) # 0}

\* A query has the rows of the value and no others, through enlargements that
\* fail midway and are tried again, with a greater or a smaller row
\* (bitmap_index.c:161-181, 229-311).
QueriesExact ==
    /\ \A v \in Indexed : Query(v).bits = RowsOf(v) /\ Query(v).size >= maxBit
    /\ \A v \in Value \ Indexed : RowsOf(v) = {}

\* Conjunction, disjunction and negation of queries have the rows they ought to,
\* also of bitmaps of different sizes, and a bit that is cleared is not there
\* (bitmap_index.c:38-145).
OperationsExact ==
    \A v, w \in Indexed :
       /\ And(Query(v), Query(w)).bits = RowsOf(v) \cap RowsOf(w)
       /\ Or(Query(v), Query(w)).bits = RowsOf(v) \cup RowsOf(w)
       /\ \A r \in 0..(maxBit - 1) :
             /\ TestBit(Not(Query(v)), r) <=> r \notin RowsOf(v)
             /\ ~TestBit(ClearBit(Query(v), r), r)
=============================================================================
