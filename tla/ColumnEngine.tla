---------------------------- MODULE ColumnEngine ----------------------------
(****************************************************************************)
(* One table of the column engine (storage/column_engine.c): an array of    *)
(* values and a null mask for each column.  A row is what the columns have  *)
(* at one index; it has no mark of its own, and counts as deleted when all  *)
(* its values are NULL.  The model adds to each value the row it came with. *)
(*                                                                          *)
(* The columns are written one after the other, and an allocation may fail  *)
(* after any of them: while they are enlarged, and while the values of a    *)
(* row are copied.  Left out, because nothing reads them: value_count, the  *)
(* transaction flags and the version of a row.                              *)
(****************************************************************************)
EXTENDS Integers, Sequences, SequencesExt

CONSTANTS
    Value,     \* values of a column
    Null,      \* NULL
    Gone,      \* what is found of a row without values
    Columns,   \* table->column_count
    InitCap,   \* the capacity of a new table and the least one: 1024
    MaxBatch,  \* bound: rows of one insertion
    MaxRows    \* bound: rows handed in in a run

ColumnAssumption ==
    /\ Columns \in Nat \ {0} /\ InitCap \in Nat \ {0} /\ MaxBatch \in Nat \ {0}
    /\ MaxRows \in Nat
    /\ Null \notin Value

VARIABLES
    cells,      \* cells[c]: values and null_mask of column c, as long as its capacity
    capacity,   \* table_data->capacity
    rowCount,   \* table_data->row_count
    nextRowId,  \* table_data->next_row_id
    dangling,   \* a column's values point to freed memory
    serial      \* history: rows handed in so far

vars == <<cells, capacity, rowCount, nextRowId, dangling, serial>>

Col == 1..Columns
RowData == [Col -> Value \cup {Null}]
Cell == [row : 0..MaxRows, val : Value \cup {Null}, null : BOOLEAN]

TypeOK ==
    /\ cells \in [Col -> Seq(Cell)]
    /\ capacity \in Nat /\ rowCount \in 0..MaxRows
    /\ nextRowId \in 1..(MaxRows + 1)
    /\ dangling \in BOOLEAN
    /\ serial \in 0..MaxRows
    /\ \A c \in Col : \A i \in DOMAIN cells[c] : cells[c][i].null => cells[c][i].val = Null

Blank == [row |-> 0, val |-> Null, null |-> FALSE]
Of(row, v) == [row |-> row, val |-> v, null |-> v = Null]

Init ==
    /\ cells = [c \in Col |-> [i \in 1..InitCap |-> Blank]]
    /\ capacity = InitCap /\ rowCount = 0 /\ nextRowId = 1
    /\ dangling = FALSE /\ serial = 0

-----------------------------------------------------------------------------
(* Room.                                                                    *)

\* column_engine_expand_column of the columns 1..n.
Expanded(n, cap) ==
    [c \in Col |->
       IF c > n THEN cells[c]
       ELSE [i \in 1..cap |-> IF i \in DOMAIN cells[c] THEN cells[c][i] ELSE Blank]]

\* A column that has the capacity already, since an earlier attempt stopped
\* behind it, cannot be expanded to it.
CanExpand(c, cap) == Len(cells[c]) < cap

\* The capacity an insertion of n rows needs: the present one or a doubling.
Needed(n) ==
    LET doubled[j \in 0..MaxRows] ==
          IF j = 0 THEN 2 * capacity ELSE 2 * doubled[j - 1]
        Enough(j) == rowCount + n <= doubled[j]
    IN  IF rowCount + n <= capacity THEN capacity
        ELSE doubled[CHOOSE j \in 0..MaxRows : Enough(j) /\ \A i \in 0..(j - 1) : ~Enough(i)]

\* column_engine_expand_table stops at a column that cannot be expanded, with
\* the columns before it expanded and the table's capacity as it was.  When
\* the null mask gets no memory, the values that realloc has moved are freed.
ExpandFails(cap) ==
    /\ cap > capacity
    /\ \E n \in 0..(Columns - 1) :
          /\ \A c \in 1..n : CanExpand(c, cap)
          /\ cells' = Expanded(n, cap)
          /\ dangling' \in {FALSE, CanExpand(n + 1, cap)}
    /\ UNCHANGED <<capacity, rowCount, nextRowId>>

-----------------------------------------------------------------------------
(* Operations.                                                              *)

\* Slip: a value goes to the end of its column, by the count of its values,
\* which a failed insertion has left behind.
WrittenAtEnd(old, batch, n) ==
    [c \in Col |->
       LET r0 == LET used == {i \in DOMAIN old[c] : old[c][i].row # 0}
                 IN  IF used = {} THEN 0 ELSE CHOOSE m \in used : \A i \in used : i <= m
       IN  [i \in DOMAIN old[c] |->
              IF i - r0 \in DOMAIN batch /\ (i - r0 - 1) * Columns + c <= n
                THEN Of(serial + i - r0, batch[i - r0][c]) ELSE old[c][i]]]

\* The first n values of the batch, row by row, are copied into the columns.
Written(old, batch, n) ==
    [c \in Col |-> [i \in DOMAIN old[c] |->
       LET r == i - rowCount
       IN  IF r \in DOMAIN batch /\ (r - 1) * Columns + c <= n
             THEN Of(serial + r, batch[r][c]) ELSE old[c][i]]]

\* The rows are there when all values are; after a failure the values copied
\* stay behind the last row.  `idsLost' is what next_row_id has grown by then.
Insertion(batch, idsLost) ==
    LET cap == Needed(Len(batch))
        all == Len(batch) * Columns
        room == IF cap = capacity THEN cells ELSE Expanded(Columns, cap)
    IN  /\ ~dangling
        /\ serial + Len(batch) <= MaxRows
        /\ serial' = serial + Len(batch)
        /\ \/ ExpandFails(cap)
           \/ /\ cap = capacity \/ \A c \in Col : CanExpand(c, cap)
              /\ capacity' = cap
              /\ UNCHANGED dangling
              /\ \/ /\ cells' = Written(room, batch, all)
                    /\ rowCount' = rowCount + Len(batch)
                    /\ nextRowId' = nextRowId + Len(batch)
                 \/ \E n \in 0..(all - 1) :
                       /\ batch[(n \div Columns) + 1][(n % Columns) + 1] # Null
                       /\ cells' = Written(room, batch, n)
                       /\ nextRowId' = nextRowId + idsLost
                       /\ UNCHANGED rowCount

\* column_engine_insert takes the id before it copies the values,
\* column_engine_batch_insert after it.
Insert(row) == Insertion(<<row>>, 1)
BatchInsert(batch) == Insertion(batch, 0)

Valid(id) == ~dangling /\ id < nextRowId /\ id <= rowCount

\* Each value is freed before the new one is copied; an update that fails at a
\* column leaves that one NULL, with its mask as it was, and the next ones old.
Update(id, row) ==
    /\ Valid(id)
    /\ \E n \in 0..Columns :
          /\ n < Columns => row[n + 1] # Null
          /\ cells' = [c \in Col |->
                IF c <= n THEN [cells[c] EXCEPT ![id] = Of(@.row, row[c])]
                ELSE IF c = n + 1 THEN [cells[c] EXCEPT ![id].val = Null]
                ELSE cells[c]]
    /\ UNCHANGED <<capacity, rowCount, nextRowId, dangling, serial>>

Delete(id) ==
    /\ Valid(id)
    /\ cells' = [c \in Col |-> [cells[c] EXCEPT ![id] = Of(@.row, Null)]]
    /\ UNCHANGED <<capacity, rowCount, nextRowId, dangling, serial>>

Deleted(i) == \A c \in Col : cells[c][i].null

\* The rows with a value, in their order.
Kept ==
    LET kept[i \in 0..rowCount] ==
          IF i = 0 THEN <<>>
          ELSE IF Deleted(i) THEN kept[i - 1] ELSE Append(kept[i - 1], i)
    IN  kept[rowCount]

Halved == IF capacity \div 2 < InitCap THEN InitCap ELSE capacity \div 2

\* The rows with a value move down, over those without; what they leave behind
\* the last row stays there.  Then the capacity may be halved, once.
Optimize ==
    LET n == Len(Kept)
        cap == IF n < capacity \div 2 THEN Halved ELSE capacity
    IN  /\ ~dangling
        /\ cells' = [c \in Col |->
              [i \in 1..(IF n < capacity \div 2 THEN cap ELSE Len(cells[c])) |->
                 cells[c][IF i <= n THEN Kept[i] ELSE i]]]
        /\ capacity' = cap
        /\ rowCount' = n
        /\ UNCHANGED <<nextRowId, dangling, serial>>

Next ==
    \/ \E row \in RowData : Insert(row)
    \/ \E n \in 1..MaxBatch : \E batch \in [1..n -> RowData] : BatchInsert(batch)
    \/ \E id \in 1..MaxRows : Delete(id) \/ \E row \in RowData : Update(id, row)
    \/ Optimize

Spec == Init /\ [][Next]_vars

\* column_engine_select of the row at index i.
Select(i) == [c \in Col |-> IF cells[c][i].null THEN Null ELSE cells[c][i].val]

Content ==
    [i \in 1..rowCount |-> IF \A c \in Col : Select(i)[c] = Null THEN Gone ELSE Select(i)]

-----------------------------------------------------------------------------
(* Properties.                                                              *)

\* At every index below row_count each column has a value of the same row, and
\* no row is at two indexes: an insertion that failed midway, an expansion that
\* stopped between two columns and a compaction leave the columns aligned
\* (column_engine.c:63-107, 308-377, 735-813).
ColumnsAligned ==
    ~dangling =>
       /\ \A c \in Col : rowCount <= capacity /\ capacity <= Len(cells[c])
       /\ \A i \in 1..rowCount : \A c \in Col :
             cells[c][i].row = cells[1][i].row /\ cells[c][i].row # 0
       /\ \A i, j \in 1..rowCount : i < j => cells[1][i].row < cells[1][j].row

\* "检查是否需要扩展表容量" (column_engine.c:307): an insertion into a full table can
\* make the room it needs; an attempt that failed does not stand in the way of
\* the next one.
InsertCanExpand ==
    ~dangling /\ rowCount = capacity => \A c \in Col : CanExpand(c, 2 * capacity)
=============================================================================
