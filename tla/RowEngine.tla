----------------------------- MODULE RowEngine -----------------------------
(****************************************************************************)
(* One table of the row engine (storage/row_engine.c): an array of row      *)
(* pointers whose first row_count slots are used.  A row's id is not        *)
(* stored: an operation takes the row at position id - 1.  The model keeps  *)
(* the id a row was given at its insertion beside the row, to say which row *)
(* an operation really reaches.                                             *)
(*                                                                          *)
(* The loop of row_engine_optimize compacts the array in place; it is       *)
(* modelled iteration by iteration, with every other operation waiting.     *)
(* An allocation that fails leaves the table as it is, a stuttering step;   *)
(* the shrinking realloc of optimize may fail too.                          *)
(****************************************************************************)
EXTENDS Integers, Sequences

CONSTANTS
    Value,      \* contents of a row
    Null,       \* NULL, a slot without a row
    Gone,       \* what a select of a deleted row answers
    InitCap,    \* the capacity of a new table and the least one: 1024
    MaxBatch,   \* bound: rows of one insertion
    MaxRows,    \* bound: rows inserted in a run
    ViaManager  \* calls go through storage_engine.c, which counts once more

ASSUME RowAssumption ==
    /\ InitCap \in Nat \ {0}
    /\ MaxBatch \in Nat \ {0}
    /\ MaxRows \in Nat
    /\ ViaManager \in BOOLEAN
    /\ Gone \notin Value

Row == [id : Nat \ {0}, val : Value, deleted : BOOLEAN]

\* No row is NULL.
ASSUME NullAssumption == Null \notin Row

VARIABLES
    rows,       \* the array, its length is the capacity
    rowCount,   \* table_data->row_count
    nextRowId,  \* table_data->next_row_id
    published,  \* table->row_count, what the rest of the system reads
    scan,       \* i + 1 in the loop of optimize, 0 outside it
    kept,       \* new_row_count in that loop
    inTx,       \* table_data->in_transaction
    wasLive     \* history: the live rows when the loop of optimize began

vars == <<rows, rowCount, nextRowId, published, scan, kept, inTx, wasLive>>

Used == 1..rowCount

TypeOK ==
    /\ rows \in Seq(Row \cup {Null})
    /\ rowCount \in Nat
    /\ nextRowId \in Nat \ {0}
    /\ published \in Nat
    /\ scan \in Nat /\ kept \in Nat
    /\ inTx \in BOOLEAN
    /\ wasLive \subseteq Row

Init ==
    /\ rows = [i \in 1..InitCap |-> Null]
    /\ rowCount = 0 /\ nextRowId = 1 /\ published = 0
    /\ scan = 0 /\ kept = 0
    /\ inTx = FALSE /\ wasLive = {}

Live(i) == rows[i] # Null /\ ~rows[i].deleted

\* row_engine_select at a used position.
Select(i) == IF Live(i) THEN rows[i].val ELSE Gone

Idle == scan = 0

\* What the table holds, position by position.  In the loop of optimize, the
\* rows it has kept and those it has still to read.
Content ==
    LET held == IF Idle THEN rowCount ELSE kept + rowCount + 1 - scan
    IN  [i \in 1..held |-> Select(IF Idle \/ i <= kept THEN i ELSE scan + i - kept - 1)]

\* The capacity for `need' rows: the present one, or its least doubling that
\* has the room.
Capacities(need) ==
    {c \in Len(rows)..(InitCap + 2 * MaxRows) :
        /\ need <= c
        /\ \/ c = Len(rows)
           \/ c < 2 * need /\ \E j \in 0..MaxRows : c = Len(rows) * 2^j}

\* row_engine_expand_table: the new slots are NULL.
Expanded(cap) == [i \in 1..cap |-> IF i <= Len(rows) THEN rows[i] ELSE Null]

\* row_engine_insert (one row) and row_engine_batch_insert, and what
\* storage_engine_insert adds to the table's row count after them.
Insert(batch) ==
    /\ Idle
    /\ nextRowId + Len(batch) <= MaxRows + 1
    /\ \E cap \in Capacities(rowCount + Len(batch)) :
          rows' = [i \in 1..cap |->
                     IF i - rowCount \in DOMAIN batch
                       THEN [id |-> nextRowId + i - rowCount - 1,
                             val |-> batch[i - rowCount], deleted |-> FALSE]
                       ELSE Expanded(cap)[i]]
    /\ rowCount' = rowCount + Len(batch)
    /\ nextRowId' = nextRowId + Len(batch)
    /\ published' = rowCount' + IF ViaManager THEN Len(batch) ELSE 0
    /\ UNCHANGED <<scan, kept, inTx, wasLive>>

\* The row at the position is replaced by the caller's, a deleted one too.
Update(id, v) ==
    /\ Idle
    /\ id < nextRowId /\ id \in Used
    /\ rows' = [rows EXCEPT ![id] = [id |-> rows[id].id, val |-> v, deleted |-> FALSE]]
    /\ UNCHANGED <<rowCount, nextRowId, published, scan, kept, inTx, wasLive>>

\* Slip: a deletion is counted, whether or not the row was deleted before.
DeleteCounted(id) ==
    /\ Idle
    /\ id < nextRowId /\ id \in Used
    /\ rows' = [rows EXCEPT ![id].deleted = TRUE]
    /\ published' = published - 1
    /\ UNCHANGED <<rowCount, nextRowId, scan, kept, inTx, wasLive>>

\* Slip: a deletion closes the gap in the array.
DeleteMovesRows(id) ==
    /\ Idle
    /\ id < nextRowId /\ id \in Used
    /\ rows' = [i \in 1..Len(rows) |-> IF i \in id..(rowCount - 1) THEN rows[i + 1]
                                     ELSE IF i = rowCount THEN Null ELSE rows[i]]
    /\ rowCount' = rowCount - 1
    /\ UNCHANGED <<nextRowId, published, scan, kept, inTx, wasLive>>

Delete(id) ==
    /\ Idle
    /\ id < nextRowId /\ id \in Used
    /\ rows[id] # Null
    /\ rows' = [rows EXCEPT ![id].deleted = TRUE]
    /\ UNCHANGED <<rowCount, nextRowId, published, scan, kept, inTx, wasLive>>

\* A second begin is not refused.
Begin ==
    /\ Idle
    /\ inTx' = TRUE
    /\ UNCHANGED <<rows, rowCount, nextRowId, published, scan, kept, wasLive>>

\* Commit clears the flag, and nothing else.
Commit ==
    /\ Idle
    /\ inTx' = FALSE
    /\ UNCHANGED <<rows, rowCount, nextRowId, published, scan, kept, wasLive>>

\* So does rollback: it restores nothing.
Rollback == Commit

OptimizeBegin ==
    /\ Idle
    /\ scan' = 1
    /\ kept' = 0
    /\ wasLive' = {rows[i] : i \in {j \in Used : Live(j)}}
    /\ UNCHANGED <<rows, rowCount, nextRowId, published, inTx>>

\* Slip: the slot of every row is cleared, of one that stays where it is too.
OptimizeRowClears ==
    /\ scan \in Used
    /\ IF rows[scan].deleted
         THEN rows' = [rows EXCEPT ![scan] = Null] /\ UNCHANGED kept
         ELSE /\ rows' = [rows EXCEPT ![kept + 1] = rows[scan], ![scan] = Null]
              /\ kept' = kept + 1
    /\ scan' = scan + 1
    /\ UNCHANGED <<rowCount, nextRowId, published, inTx, wasLive>>

\* One iteration: a live row moves down to the first free slot, where it also
\* stays behind; a deleted row is destroyed.
OptimizeRow ==
    /\ scan \in Used
    /\ IF rows[scan].deleted
         THEN /\ rows' = [rows EXCEPT ![scan] = Null]
              /\ UNCHANGED kept
         ELSE /\ rows' = [rows EXCEPT ![kept + 1] = rows[scan]]
              /\ kept' = kept + 1
    /\ scan' = scan + 1
    /\ UNCHANGED <<rowCount, nextRowId, published, inTx, wasLive>>

\* The capacity to which optimize shrinks the array.
Halved == IF Len(rows) \div 2 < InitCap THEN InitCap ELSE Len(rows) \div 2

\* Slip: the array shrinks whether or not the rows fit.
OptimizeEndShrinks ==
    /\ scan = rowCount + 1
    /\ rows' = [i \in 1..Halved |-> rows[i]]
    /\ rowCount' = kept /\ published' = kept
    /\ scan' = 0 /\ kept' = 0 /\ wasLive' = {}
    /\ UNCHANGED <<nextRowId, inTx>>

\* Slip: ids start again after the rows that were kept.
OptimizeEndReusesIds ==
    /\ scan = rowCount + 1
    /\ rowCount' = kept /\ published' = kept
    /\ nextRowId' = kept + 1
    /\ scan' = 0 /\ kept' = 0 /\ wasLive' = {}
    /\ UNCHANGED <<rows, inTx>>

OptimizeEnd ==
    /\ scan = rowCount + 1
    /\ \/ UNCHANGED rows
       \/ /\ kept < Len(rows) \div 2
          /\ rows' = [i \in 1..Halved |-> rows[i]]
    /\ rowCount' = kept
    /\ published' = kept
    /\ scan' = 0
    /\ kept' = 0
    /\ wasLive' = {}
    /\ UNCHANGED <<nextRowId, inTx>>

Mutate ==
    \/ \E n \in 1..MaxBatch : \E batch \in [1..n -> Value] : Insert(batch)
    \/ \E id \in 1..MaxRows : Delete(id) \/ \E v \in Value : Update(id, v)

Transact == Begin \/ Commit \/ Rollback

Optimize == OptimizeBegin \/ OptimizeRow \/ OptimizeEnd

Next == Mutate \/ Transact \/ Optimize

Spec == Init /\ [][Next]_vars

-----------------------------------------------------------------------------
(* Properties.                                                              *)

\* Every slot an operation reads or writes lies inside the array, and the used
\* slots hold rows whose deleted flag may be read (row_engine.c:229, 267, 477).
SlotsInArray ==
    /\ rowCount <= Len(rows)
    /\ InitCap <= Len(rows)
    /\ kept < scan \/ scan = 0
    /\ \A i \in Used : i >= scan \/ i <= kept => rows[i] # Null

\* Rows stay in the order of their insertion and none is there twice; no id to
\* be given is one a row has (row_engine.c:475-486).
RowsInInsertionOrder ==
    /\ \A i, j \in Used : Idle /\ i < j => rows[i].id < rows[j].id
    /\ \A i \in Used : Idle => rows[i].id < nextRowId

\* The compaction in place loses no live row, keeps no deleted one and changes
\* none: what it has kept and what it has still to read are, at every iteration
\* and after it, the live rows it began with (row_engine.c:475-486).
CompactionKeepsLiveRows ==
    ~Idle => wasLive = {rows[i] : i \in {j \in Used : Live(j) /\ (j <= kept \/ j >= scan)}}

\* After optimize the table holds live rows only, those it held before.
OptimizeLeavesLiveRows ==
    [][OptimizeEnd => wasLive = {rows'[i] : i \in 1..rowCount'}]_vars

\* A table keeps the promise of TableStore: an operation reaches the row that is
\* there for its id, and optimize drops deleted rows, one per iteration.
Store == INSTANCE TableStore WITH content <- Content

ImplementsTableStore == Store!Spec

\* "假设行ID是连续的，这里简化处理" (row_engine.c:299, 347, 390): ids are
\* contiguous, so the row at position id - 1 is the one inserted under id.
RowIdIsPosition == \A i \in Used : Idle => rows[i].id = i

=============================================================================
