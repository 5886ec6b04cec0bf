------------------------------ MODULE MCStorage ------------------------------
(****************************************************************************)
(* The storage layer for TLC.  A table lives in the engine it was created   *)
(* with and every later call goes to that one (storage_engine_insert, line  *)
(* 164, and the calls after it): the initial states choose it.  In one of   *)
(* them it is the directory of tables that is examined.  The engines are    *)
(* not used at once, so that two of them share row_count and next_row_id.   *)
(* In the others it is one of the indexes, which no engine uses.            *)
(****************************************************************************)
EXTENDS RowEngine, MCIndexes

CONSTANTS
    Wrap, Columns, Name, Engine, MaxCreates,
    MemoryRows, ColumnRows  \* bounds: MaxRows of those engines

VARIABLES
    subject,                              \* the engine, the directory, or the indexes
    count, nextId,                        \* rowCount and nextRowId of the next two
    head, nxt, prv, val, uncounted,       \* of MemoryEngine
    cells, capacity, dangling, serial,    \* of ColumnEngine
    tables, lists, created, proc          \* of StorageManager

Memory == INSTANCE MemoryEngine WITH
             MaxRows <- MemoryRows, rowCount <- count, nextRowId <- nextId
Column == INSTANCE ColumnEngine WITH
             MaxRows <- ColumnRows, rowCount <- count, nextRowId <- nextId
Directory == INSTANCE StorageManager

ASSUME StorageAssumption ==
       Memory!MemoryAssumption /\ Column!ColumnAssumption /\ Directory!DirectoryAssumption

memoryVars == <<head, nxt, prv, val, uncounted>>
columnVars == <<cells, capacity, dangling, serial>>
directoryVars == <<tables, lists, created, proc>>
countVars == <<count, nextId>>

StorageInit ==
    /\ subject \in {"row", "memory", "column", "directory", "index"}
    /\ Init /\ Memory!Init /\ Column!Init /\ Directory!Init /\ IndexInit
    /\ subject # "index" => index = "hash"

StorageNext ==
    \/ /\ subject = "row"
       /\ Next
       /\ UNCHANGED <<subject, countVars, memoryVars, columnVars, directoryVars, indexVars>>
    \/ /\ subject = "memory"
       /\ Memory!Next
       /\ UNCHANGED <<subject, vars, columnVars, directoryVars, indexVars>>
    \/ /\ subject = "column"
       /\ Column!Next
       /\ UNCHANGED <<subject, vars, memoryVars, directoryVars, indexVars>>
    \/ /\ subject = "directory"
       /\ Directory!Next
       /\ UNCHANGED <<subject, vars, countVars, memoryVars, columnVars, indexVars>>
    \/ /\ subject = "index"
       /\ IndexNext
       /\ UNCHANGED <<subject, vars, countVars, memoryVars, columnVars, directoryVars>>

StorageSpec ==
    StorageInit
    /\ [][StorageNext]_<<subject, vars, countVars, memoryVars, columnVars, directoryVars,
                          indexVars>>

-----------------------------------------------------------------------------
(* Properties.                                                              *)

\* The state of the part that is examined is of its type.
StorageTypeOK ==
    /\ subject = "row" => TypeOK
    /\ subject = "memory" => Memory!TypeOK
    /\ subject = "column" => Column!TypeOK
    /\ subject = "directory" => Directory!TypeOK
    /\ subject = "index" => IndexTypeOK

\* MemoryEngine: the chains are well formed through insertion, batches that
\* fail midway, unlinking and rehashing (memory_engine.c:83-100, 270-276, 417-425).
\* row_count is the number of linked rows but for those of failed batches, and
\* goes round below zero with them (lines 312-334, 431).
ChainsSound == subject = "memory" => Memory!ChainsSound /\ Memory!CountLaw

\* ColumnEngine: the columns have the same row at every index below row_count
\* (column_engine.c:63-107, 308-377, 735-813).
ColumnsAligned == subject = "column" => Column!ColumnsAligned

\* StorageManager: the directory's table is the one its engine answers for the
\* name, after creations that failed between the two (storage_engine.c:61-97).
DirectoryAgreesWithEngines == Directory!DirectoryAgreesWithEngines

\* Whatever the engine, a table keeps the promise of TableStore (row_engine.c,
\* memory_engine.c, column_engine.c behind the calls of storage_engine.h).
TableContent ==
    CASE subject = "row" -> Content
      [] subject = "memory" -> Memory!Content
      [] subject = "column" -> Column!Content
      [] OTHER -> <<>>

AnyRow == Value \cup {row \in Column!RowData : \E c \in Column!Col : row[c] # Null}

Promise == INSTANCE TableStore WITH content <- TableContent, Value <- AnyRow

EnginesKeepPromise == Promise!Spec
=============================================================================
