---------------------------- MODULE EngineProofs ----------------------------
(* Proofs about the row engine, the directory of tables and the column engine, *)
(* for every number of rows, columns and names.                               *)
EXTENDS MCStorage, SequenceLemmas

-----------------------------------------------------------------------------
(* The row engine.  The invariant speaks about the rows that survive: the     *)
(* kept ones and those the loop of optimize has still to read, which outside  *)
(* the loop are all rows.                                                     *)

Survives(i) == i \in Used /\ (i <= kept \/ i >= scan)

\* The loop index is in range, what is kept is live, and the survivors are in
\* the order of their ids.
ScanInv ==
    /\ scan <= rowCount + 1
    /\ Idle => kept = 0
    /\ \A i \in Used : i <= kept => ~rows[i].deleted
    /\ \A i, j \in Used : Survives(i) /\ Survives(j) /\ i < j => rows[i].id < rows[j].id
    /\ \A i \in Used : Survives(i) => rows[i].id < nextRowId

Inv == TypeOK /\ SlotsInArray /\ ScanInv /\ CompactionKeepsLiveRows

\* Every reachable survivor is a row in the array.
LEMMA SurvivorsAreRows ==
    ASSUME TypeOK, SlotsInArray
    PROVE  \A i \in Used : /\ i \in 1..Len(rows)
                           /\ Survives(i) => rows[i] \in Row
  BY NullAssumption DEF TypeOK, SlotsInArray, Survives, Used

LEMMA InitInv == Init => Inv
<1> SUFFICES ASSUME Init PROVE Inv
  OBVIOUS
<1>1. TypeOK
  <2>1. [i \in 1..InitCap |-> Null] \in Seq(Row \cup {Null})
    BY RowAssumption
  <2>2. inTx \in BOOLEAN
    BY DEF Init
  <2>3. wasLive \subseteq Row
    BY DEF Init
  <2>4. /\ rowCount \in Nat /\ nextRowId \in Nat \ {0} /\ published \in Nat
        /\ scan \in Nat /\ kept \in Nat
    BY DEF Init
  <2>5. rows \in Seq(Row \cup {Null})
    BY <2>1 DEF Init
  <2> QED
    BY <2>2, <2>3, <2>4, <2>5 DEF TypeOK
<1>2. SlotsInArray
  BY RowAssumption DEF Init, SlotsInArray, Used
<1>3. ScanInv
  BY DEF Init, ScanInv, Idle, Used
<1>4. CompactionKeepsLiveRows
  BY DEF Init, CompactionKeepsLiveRows, Idle
<1> QED
  BY <1>1, <1>2, <1>3, <1>4 DEF Inv

\* An insertion writes behind the used slots, within the capacity it made.
LEMMA InsertStep ==
    ASSUME Inv, NEW n \in 1..MaxBatch, NEW batch \in [1..n -> Value], Insert(batch)
    PROVE  Inv'
<1>0. n \in Nat /\ Len(batch) = n /\ DOMAIN batch = 1..n /\ batch \in Seq(Value)
  BY RowAssumption
<1>1. PICK cap \in Capacities(rowCount + Len(batch)) :
        rows' = [i \in 1..cap |->
                   IF i - rowCount \in DOMAIN batch
                     THEN [id |-> nextRowId + i - rowCount - 1,
                           val |-> batch[i - rowCount], deleted |-> FALSE]
                     ELSE Expanded(cap)[i]]
  BY DEF Insert
<1>2. /\ cap \in Nat /\ Len(rows) <= cap /\ rowCount + n <= cap
      /\ rowCount \in Nat /\ Len(rows) \in Nat
  BY <1>0, RowAssumption DEF Capacities, Inv, TypeOK
<1>3. /\ rowCount' = rowCount + n /\ nextRowId' = nextRowId + n
      /\ scan' = 0 /\ kept' = 0 /\ scan = 0 /\ kept = 0
      /\ UNCHANGED <<inTx, wasLive>>
  BY <1>0 DEF Insert, Inv, ScanInv, Idle
<1>4. Len(rows') = cap /\ DOMAIN rows' = 1..cap
  BY <1>1, <1>2
<1>5. \A i \in 1..rowCount : rows'[i] = rows[i]
  BY <1>1, <1>2, <1>0 DEF Expanded, Inv, SlotsInArray
<1>6. \A i \in (rowCount + 1)..(rowCount + n) :
         rows'[i] = [id |-> nextRowId + i - rowCount - 1,
                     val |-> batch[i - rowCount], deleted |-> FALSE]
  <2> SUFFICES ASSUME NEW i \in (rowCount + 1)..(rowCount + n)
               PROVE  rows'[i] = [id |-> nextRowId + i - rowCount - 1,
                                  val |-> batch[i - rowCount], deleted |-> FALSE]
    OBVIOUS
  <2>1. i \in 1..cap /\ i - rowCount \in 1..n
    BY <1>0, <1>2
  <2>2. i - rowCount \in DOMAIN batch
    BY <2>1, <1>0
  <2> QED
    BY <1>1, <2>1, <2>2
<1>7. nextRowId \in Nat \ {0}
  BY DEF Inv, TypeOK
<1>8. \A i \in (rowCount + 1)..(rowCount + n) : rows'[i] \in Row /\ rows'[i] # Null
  <2> SUFFICES ASSUME NEW i \in (rowCount + 1)..(rowCount + n)
               PROVE  rows'[i] \in Row
    BY NullAssumption
  <2>1. i - rowCount \in 1..n
    BY <1>0, <1>2
  <2>2. batch[i - rowCount] \in Value
    BY <2>1
  <2>3. nextRowId + i - rowCount - 1 \in Nat \ {0}
    BY <1>2, <1>7
  <2> QED
    <3>1. rows'[i] = [id |-> nextRowId + i - rowCount - 1,
                      val |-> batch[i - rowCount], deleted |-> FALSE]
      BY <1>6
    <3> QED
      BY <3>1, <2>2, <2>3 DEF Row
<1>14. rows' = [i \in 1..cap |-> rows'[i]]
  BY <1>1
<1>9. rows' \in Seq(Row \cup {Null})
  <2>1. \A i \in 1..cap : Expanded(cap)[i] \in Row \cup {Null}
    BY <1>2 DEF Expanded, Inv, TypeOK
  <2>2. \A i \in 1..cap : rows'[i] \in Row \cup {Null}
    <3> SUFFICES ASSUME NEW i \in 1..cap PROVE rows'[i] \in Row \cup {Null}
      OBVIOUS
    <3>1. CASE i - rowCount \in DOMAIN batch
      BY <3>1, <1>0, <1>2, <1>8
    <3>2. CASE i - rowCount \notin DOMAIN batch
      BY <3>2, <1>1, <2>1
    <3> QED
      BY <3>1, <3>2
  <2> QED
    BY <1>2, <1>4, <1>14, <2>2
<1>10. TypeOK'
  <2>1. published' \in Nat
    BY <1>0, <1>2, <1>3 DEF Insert
  <2> QED
    BY <1>0, <1>2, <1>3, <1>7, <1>9, <2>1 DEF Inv, TypeOK
<1>11. SlotsInArray'
  <2>1. \A i \in 1..(rowCount + n) : rows'[i] # Null
    <3> SUFFICES ASSUME NEW i \in 1..(rowCount + n) PROVE rows'[i] # Null
      OBVIOUS
    <3>1. CASE i <= rowCount
      BY <3>1, <1>2, <1>3, <1>5 DEF Inv, SlotsInArray, Used
    <3>2. CASE i > rowCount
      BY <3>2, <1>2, <1>8, <1>0
    <3> QED
      BY <3>1, <3>2, <1>2
  <2> QED
    BY <2>1, <1>2, <1>3, <1>4, RowAssumption DEF Inv, SlotsInArray, Used
<1>12. ScanInv'
  <2>1. \A i \in 1..rowCount : rows'[i].id < nextRowId /\ rows'[i].id \in Nat
    BY <1>3, <1>5, SurvivorsAreRows DEF Inv, ScanInv, Survives, Used, Row
  <2>2. \A i \in (rowCount + 1)..(rowCount + n) :
          rows'[i].id = nextRowId + i - rowCount - 1
    <3> SUFFICES ASSUME NEW i \in (rowCount + 1)..(rowCount + n)
                 PROVE  rows'[i].id = nextRowId + i - rowCount - 1
      OBVIOUS
    <3>1. rows'[i] = [id |-> nextRowId + i - rowCount - 1,
                      val |-> batch[i - rowCount], deleted |-> FALSE]
      BY <1>6
    <3> QED
      BY <3>1
  <2>3. \A i, j \in 1..rowCount : i < j => rows'[i].id < rows'[j].id
    BY <1>3, <1>5 DEF Inv, ScanInv, Survives, Used
  <2>4. \A i, j \in 1..(rowCount + n) : i < j => rows'[i].id < rows'[j].id
    <3> SUFFICES ASSUME NEW i \in 1..(rowCount + n), NEW j \in 1..(rowCount + n), i < j
                 PROVE  rows'[i].id < rows'[j].id
      OBVIOUS
    <3>1. CASE j <= rowCount
      BY <3>1, <2>3, <1>2
    <3>2. CASE i > rowCount
      BY <3>2, <2>2, <1>2, <1>0, <1>7
    <3>3. CASE i <= rowCount /\ j > rowCount
      BY <3>3, <2>1, <2>2, <1>2, <1>0, <1>7
    <3> QED
      BY <3>1, <3>2, <3>3, <1>2, <1>0
  <2>5. \A i \in 1..(rowCount + n) : rows'[i].id < nextRowId + n
    <3> SUFFICES ASSUME NEW i \in 1..(rowCount + n) PROVE rows'[i].id < nextRowId + n
      OBVIOUS
    <3>1. CASE i <= rowCount
      BY <3>1, <2>1, <1>2, <1>0, <1>7
    <3>2. CASE i > rowCount
      BY <3>2, <2>2, <1>2, <1>0, <1>7
    <3> QED
      BY <3>1, <3>2, <1>2, <1>0
  <2> QED
    BY <2>4, <2>5, <1>2, <1>3, <1>0 DEF ScanInv, Survives, Used, Idle
<1>13. CompactionKeepsLiveRows'
  BY <1>3 DEF CompactionKeepsLiveRows, Idle
<1> QED
  BY <1>10, <1>11, <1>12, <1>13 DEF Inv

\* A slot is overwritten by a row with the same id while no loop runs.
LEMMA SlotStep ==
    ASSUME Inv, Idle, NEW id \in Used, NEW row \in Row, row.id = rows[id].id,
           rows' = [rows EXCEPT ![id] = row],
           UNCHANGED <<rowCount, nextRowId, published, scan, kept, inTx, wasLive>>
    PROVE  Inv'
<1>1. /\ id \in 1..Len(rows) /\ rows \in Seq(Row \cup {Null}) /\ kept = 0 /\ scan = 0
      /\ row # Null
  BY SurvivorsAreRows, NullAssumption DEF Inv, TypeOK, ScanInv, Idle
<1>2. rows' \in Seq(Row \cup {Null}) /\ Len(rows') = Len(rows)
  BY <1>1
<1>3. \A i \in Used : rows'[i].id = rows[i].id /\ (rows[i] # Null => rows'[i] # Null)
  BY <1>1, SurvivorsAreRows DEF Inv
<1>4. TypeOK'
  BY <1>2 DEF Inv, TypeOK
<1>5. SlotsInArray'
  BY <1>1, <1>2, <1>3 DEF Inv, SlotsInArray, Used
<1>6. ScanInv'
  BY <1>1, <1>3 DEF Inv, TypeOK, ScanInv, Survives, Used, Idle
<1>7. CompactionKeepsLiveRows'
  BY <1>1 DEF CompactionKeepsLiveRows, Idle
<1> QED
  BY <1>4, <1>5, <1>6, <1>7 DEF Inv

LEMMA UpdateStep ==
    ASSUME Inv, NEW id \in 1..MaxRows, NEW v \in Value, Update(id, v)
    PROVE  Inv'
<1> DEFINE row == [id |-> rows[id].id, val |-> v, deleted |-> FALSE]
<1>1. id \in Used /\ Idle /\ Survives(id)
  BY DEF Update, Inv, TypeOK, Survives, Idle, Used
<1>2. row \in Row
  BY <1>1, SurvivorsAreRows DEF Inv, Row
<1>3. /\ rows' = [rows EXCEPT ![id] = row]
      /\ UNCHANGED <<rowCount, nextRowId, published, scan, kept, inTx, wasLive>>
  BY DEF Update
<1>4. row.id = rows[id].id
  OBVIOUS
<1> HIDE DEF row
<1> QED
  BY <1>1, <1>2, <1>3, <1>4, SlotStep

LEMMA DeleteStep ==
    ASSUME Inv, NEW id \in 1..MaxRows, Delete(id)
    PROVE  Inv'
<1> DEFINE row == [rows[id] EXCEPT !.deleted = TRUE]
<1>1. id \in Used /\ Idle /\ Survives(id)
  BY DEF Delete, Inv, TypeOK, Survives, Idle, Used
<1>2. row \in Row /\ row.id = rows[id].id
  BY <1>1, SurvivorsAreRows DEF Inv, Row
<1>3. /\ rows' = [rows EXCEPT ![id] = row]
      /\ UNCHANGED <<rowCount, nextRowId, published, scan, kept, inTx, wasLive>>
  BY DEF Delete
<1> HIDE DEF row
<1> QED
  BY <1>1, <1>2, <1>3, SlotStep

LEMMA BeginLoopStep == ASSUME Inv, OptimizeBegin PROVE Inv'
<1>1. /\ scan = 0 /\ kept = 0 /\ scan' = 1 /\ kept' = 0
      /\ wasLive' = {rows[i] : i \in {j \in Used : Live(j)}}
      /\ UNCHANGED <<rows, rowCount, nextRowId, published, inTx>>
  BY DEF OptimizeBegin, Inv, ScanInv, Idle
<1>2. rowCount \in Nat
  BY DEF Inv, TypeOK
<1>3. wasLive' \subseteq Row
  BY <1>1, <1>2, SurvivorsAreRows DEF Inv, Survives, Used
<1>4. TypeOK'
  BY <1>1, <1>3 DEF Inv, TypeOK
<1>5. SlotsInArray'
  BY <1>1, <1>2 DEF Inv, SlotsInArray, Used
<1>6. ScanInv'
  BY <1>1, <1>2 DEF Inv, ScanInv, Survives, Used, Idle
<1>7. CompactionKeepsLiveRows'
  BY <1>1, <1>2 DEF CompactionKeepsLiveRows, Live, Used
<1> QED
  BY <1>4, <1>5, <1>6, <1>7 DEF Inv

\* A live row moves to a slot that is no longer needed, or stays in place; a
\* deleted row leaves the survivors.
LEMMA LoopStep == ASSUME Inv, OptimizeRow PROVE Inv'
<1>1. /\ scan \in Used /\ scan \in 1..Len(rows) /\ rows[scan] \in Row /\ rows[scan] # Null
      /\ kept \in Nat /\ kept < scan /\ scan \in Nat /\ rowCount \in Nat
      /\ scan' = scan + 1
      /\ UNCHANGED <<rowCount, nextRowId, published, inTx, wasLive>>
  BY SurvivorsAreRows, NullAssumption
     DEF OptimizeRow, Inv, TypeOK, SlotsInArray, Used, Survives
<1>2. CASE rows[scan].deleted
  <2>1. rows' = [rows EXCEPT ![scan] = Null] /\ kept' = kept
    BY <1>2 DEF OptimizeRow
  <2>2. rows' \in Seq(Row \cup {Null}) /\ Len(rows') = Len(rows)
    BY <1>1, <2>1 DEF Inv, TypeOK
  <2>3. \A i \in Used : i # scan => rows'[i] = rows[i]
    BY <2>1, SurvivorsAreRows DEF Inv
  <2>4. TypeOK'
    BY <1>1, <2>1, <2>2 DEF Inv, TypeOK
  <2>5. SlotsInArray'
    BY <1>1, <2>1, <2>2, <2>3 DEF Inv, SlotsInArray, Used
  <2>6. ScanInv'
    BY <1>1, <2>1, <2>3 DEF Inv, ScanInv, Survives, Used, Idle
  <2>7. CompactionKeepsLiveRows'
    <3> DEFINE before0 == {j \in Used : Live(j) /\ (j <= kept \/ j >= scan)}
    <3> DEFINE after0 == {j \in Used' : Live(j)' /\ (j <= kept' \/ j >= scan')}
    <3>1. wasLive = {rows[i] : i \in before0}
      BY <1>1 DEF Inv, CompactionKeepsLiveRows, Idle
    <3>2. after0 = before0
      BY <1>1, <1>2, <2>1, <2>3 DEF Live, Used
    <3>3. \A i \in before0 : rows'[i] = rows[i]
      BY <1>2, <2>3 DEF Live
    <3>4. wasLive' = {rows'[i] : i \in after0}
      BY <1>1, <3>1, <3>2, <3>3
    <3> QED
      BY <3>4 DEF CompactionKeepsLiveRows
  <2> QED
    BY <2>4, <2>5, <2>6, <2>7 DEF Inv
<1>3. CASE ~rows[scan].deleted
  <2> DEFINE to == kept + 1
  <2>1. rows' = [rows EXCEPT ![to] = rows[scan]] /\ kept' = to
    BY <1>3 DEF OptimizeRow
  <2>2. to \in Used /\ to <= scan /\ to \in 1..Len(rows) /\ to \in Nat
    BY <1>1 DEF Used
  <2>3. rows' \in Seq(Row \cup {Null}) /\ Len(rows') = Len(rows)
    BY <1>1, <2>1, <2>2 DEF Inv, TypeOK
  <2>4. /\ \A i \in Used : i # to => rows'[i] = rows[i]
        /\ rows'[to] = rows[scan]
    BY <2>1, <2>2, SurvivorsAreRows DEF Inv, TypeOK
  <2>5. TypeOK'
    BY <1>1, <2>1, <2>2, <2>3 DEF Inv, TypeOK
  <2> HIDE DEF to
  <2>10. to = kept + 1
    BY DEF to
  <2>6. SlotsInArray'
    BY <1>1, <2>1, <2>2, <2>3, <2>4, <2>10 DEF Inv, SlotsInArray, Used
  <2>7. ScanInv'
    <3>1. Used' = Used /\ nextRowId' = nextRowId
      BY <1>1 DEF Used
    <3>2. scan' <= rowCount' + 1 /\ ~Idle'
      BY <1>1 DEF Used, Idle
    <3>3. \A i \in Used' : i <= kept' => ~rows'[i].deleted
      BY <1>1, <1>3, <2>1, <2>4, <2>10, <3>1 DEF Inv, ScanInv, Used
    <3>4. ASSUME NEW i \in Used, Survives(i)'
          PROVE  \/ i = to
                 \/ i # to /\ i # scan /\ Survives(i) /\ rows'[i] = rows[i]
      BY <1>1, <2>1, <2>2, <2>4, <2>10, <3>1, <3>4 DEF Survives, Used
    <3>5. ASSUME NEW i \in Used, NEW j \in Used, Survives(i)', Survives(j)', i < j
          PROVE  rows'[i].id < rows'[j].id
      <4>1. Survives(scan)
        BY <1>1 DEF Survives
      <4>2. CASE i = to
        <5>1. j # to /\ Survives(j) /\ rows'[j] = rows[j]
          BY <4>2, <3>4, <3>5, <2>2 DEF Used
        <5>2. scan < j
          BY <4>2, <3>5, <1>1, <2>1, <2>10 DEF Survives, Used
        <5> QED
          BY <4>1, <4>2, <5>1, <5>2, <1>1, <2>4 DEF Inv, ScanInv
      <4>3. CASE j = to
        <5>1. i # to /\ Survives(i) /\ rows'[i] = rows[i]
          BY <4>3, <3>4, <3>5, <2>2 DEF Used
        <5>2. i < scan
          BY <4>3, <3>5, <1>1, <2>2 DEF Used
        <5> QED
          BY <4>1, <4>3, <5>1, <5>2, <1>1, <2>4 DEF Inv, ScanInv
      <4>4. CASE i # to /\ j # to
        BY <4>4, <3>4, <3>5 DEF Inv, ScanInv
      <4> QED
        BY <4>2, <4>3, <4>4
    <3>6. ASSUME NEW i \in Used, Survives(i)'
          PROVE  rows'[i].id < nextRowId'
      <4>1. Survives(scan)
        BY <1>1 DEF Survives
      <4> QED
        BY <4>1, <3>1, <3>4, <3>6, <1>1, <2>4 DEF Inv, ScanInv
    <3> QED
      BY <3>1, <3>2, <3>3, <3>5, <3>6 DEF ScanInv
  <2>8. CompactionKeepsLiveRows'
    <3> DEFINE before0 == {j \in Used : Live(j) /\ (j <= kept \/ j >= scan)}
    <3> DEFINE after0 == {j \in Used' : Live(j)' /\ (j <= kept' \/ j >= scan')}
    <3>1. wasLive = {rows[i] : i \in before0}
      BY <1>1 DEF Inv, CompactionKeepsLiveRows, Idle
    <3>2. \A j \in before0 : IF j = scan THEN to \in after0 /\ rows'[to] = rows[j]
                                         ELSE j \in after0 /\ rows'[j] = rows[j]
      BY <1>1, <1>3, <2>1, <2>2, <2>4, <2>10 DEF Live, Used
    <3>3. \A j \in after0 : IF j = to THEN scan \in before0 /\ rows[scan] = rows'[j]
                                      ELSE j \in before0 /\ rows'[j] = rows[j]
      BY <1>1, <1>3, <2>1, <2>2, <2>4, <2>10 DEF Live, Used
    <3>4. {rows'[i] : i \in after0} = {rows[i] : i \in before0}
      <4> HIDE DEF before0, after0
      <4> QED
        BY <3>2, <3>3
    <3> QED
      BY <1>1, <3>1, <3>4 DEF CompactionKeepsLiveRows
  <2> QED
    BY <2>5, <2>6, <2>7, <2>8 DEF Inv
<1> QED
  BY <1>2, <1>3

\* The used slots become the kept ones, which fit into the smaller array.
LEMMA EndLoopStep == ASSUME Inv, OptimizeEnd PROVE Inv'
<1>1. /\ scan = rowCount + 1 /\ rowCount' = kept /\ published' = kept
      /\ scan' = 0 /\ kept' = 0 /\ wasLive' = {}
      /\ UNCHANGED <<nextRowId, inTx>>
      /\ kept \in Nat /\ rowCount \in Nat /\ kept <= rowCount
      /\ rowCount <= Len(rows) /\ Len(rows) \in Nat /\ InitCap <= Len(rows)
  BY DEF OptimizeEnd, Inv, TypeOK, SlotsInArray
<1>2. /\ rows' \in Seq(Row \cup {Null})
      /\ kept <= Len(rows') /\ InitCap <= Len(rows')
      /\ \A i \in 1..kept : rows'[i] = rows[i]
  <2>1. CASE UNCHANGED rows
    BY <2>1, <1>1 DEF Inv, TypeOK
  <2>2. CASE kept < Len(rows) \div 2 /\ rows' = [i \in 1..Halved |-> rows[i]]
    <3>1. Halved \in Nat /\ Halved <= Len(rows) /\ kept <= Halved /\ InitCap <= Halved
      BY <2>2, <1>1, RowAssumption DEF Halved
    <3>2. \A i \in 1..Halved : rows[i] \in Row \cup {Null}
      BY <3>1, <1>1 DEF Inv, TypeOK
    <3>3. rows' \in Seq(Row \cup {Null}) /\ Len(rows') = Halved
      BY <3>1, <3>2, <2>2
    <3>4. \A i \in 1..kept : rows'[i] = rows[i]
      BY <3>1, <2>2, <1>1
    <3> QED
      BY <3>1, <3>3, <3>4
  <2> QED
    BY <2>1, <2>2 DEF OptimizeEnd
<1>3. \A i \in 1..kept : i \in Used /\ Survives(i) /\ rows[i] # Null
  BY <1>1, SurvivorsAreRows DEF Inv, SlotsInArray, Survives, Used
<1>4. TypeOK'
  BY <1>1, <1>2 DEF Inv, TypeOK
<1>5. SlotsInArray'
  BY <1>1, <1>2, <1>3 DEF SlotsInArray, Used
<1>6. ScanInv'
  BY <1>1, <1>2, <1>3 DEF Inv, ScanInv, Survives, Used, Idle
<1>7. CompactionKeepsLiveRows'
  BY <1>1 DEF CompactionKeepsLiveRows, Idle
<1> QED
  BY <1>4, <1>5, <1>6, <1>7 DEF Inv

LEMMA NextInv == Inv /\ [Next]_vars => Inv'
<1> SUFFICES ASSUME Inv, [Next]_vars PROVE Inv'
  OBVIOUS
<1>1. CASE Mutate
  BY <1>1, InsertStep, UpdateStep, DeleteStep DEF Mutate
<1>2. CASE Transact
  <2>1. /\ UNCHANGED <<rows, rowCount, nextRowId, published, scan, kept, wasLive>>
        /\ inTx' \in BOOLEAN
    BY <1>2 DEF Transact, Begin, Commit, Rollback
  <2>2. TypeOK'
    BY <2>1 DEF Inv, TypeOK
  <2> QED
    BY <2>1, <2>2 DEF Inv, SlotsInArray, ScanInv, Survives, Used, Idle,
                      CompactionKeepsLiveRows, Live
<1>3. CASE Optimize
  BY <1>3, BeginLoopStep, LoopStep, EndLoopStep DEF Optimize
<1>4. CASE UNCHANGED vars
  BY <1>4 DEF vars, Inv, TypeOK, SlotsInArray, ScanInv, Survives, Used, Idle,
              CompactionKeepsLiveRows, Live
<1> QED
  BY <1>1, <1>2, <1>3, <1>4 DEF Next

\* Every reachable state satisfies the inductive invariant.
THEOREM Invariance == Spec => []Inv
  BY InitInv, NextInv, PTL DEF Spec

\* The array accesses of the row engine stay inside the array and reach rows,
\* through every expansion, compaction and shrinking (row_engine.c:203-520).
THEOREM SlotSafety == Spec => [](TypeOK /\ SlotsInArray)
<1>1. Inv => TypeOK /\ SlotsInArray
  BY DEF Inv
<1> QED
  BY <1>1, Invariance, PTL

\* Rows keep the order of their insertion, and ids are never given twice.
THEOREM InsertionOrder == Spec => []RowsInInsertionOrder
<1>1. ASSUME Inv, Idle
      PROVE  \A i \in Used : Survives(i)
  <2>1. scan = 0 /\ kept = 0 /\ rowCount \in Nat
    BY <1>1 DEF Inv, TypeOK, ScanInv, Idle
  <2> QED BY <2>1 DEF Survives, Used
<1>2. ASSUME Inv, Idle, NEW i \in Used, NEW j \in Used, i < j
      PROVE  rows[i].id < rows[j].id
  <2>1. Survives(i) /\ Survives(j)
    BY <1>1, <1>2
  <2> QED BY <1>2, <2>1 DEF Inv, ScanInv
<1>3. ASSUME Inv, Idle, NEW i \in Used
      PROVE  rows[i].id < nextRowId
  <2>1. Survives(i)
    BY <1>1, <1>3
  <2> QED BY <1>3, <2>1 DEF Inv, ScanInv
<1>4. Inv => RowsInInsertionOrder
  BY <1>2, <1>3 DEF RowsInInsertionOrder
<1> QED
  BY <1>4, Invariance, PTL

\* The compaction in place of row_engine_optimize loses no live row.
THEOREM CompactionSound == Spec => []CompactionKeepsLiveRows
<1>1. Inv => CompactionKeepsLiveRows
  BY DEF Inv
<1> QED
  BY <1>1, Invariance, PTL

\* What an optimize leaves is the live rows it found.
THEOREM OptimizeSound == Spec => OptimizeLeavesLiveRows
<1>1. ASSUME Inv, OptimizeEnd
      PROVE  wasLive = {rows'[i] : i \in 1..rowCount'}
  <2>1. /\ scan = rowCount + 1 /\ rowCount' = kept /\ kept <= rowCount
        /\ kept \in Nat /\ rowCount \in Nat /\ ~Idle
        /\ rowCount <= Len(rows) /\ Len(rows) \in Nat
    BY <1>1 DEF OptimizeEnd, Inv, TypeOK, SlotsInArray, Idle
  <2>2. \A i \in 1..kept : rows'[i] = rows[i]
    <3>1. CASE UNCHANGED rows
      BY <3>1
    <3>2. CASE kept < Len(rows) \div 2 /\ rows' = [i \in 1..Halved |-> rows[i]]
      <4>1. Halved \in Nat /\ kept <= Halved
        BY <3>2, <2>1, RowAssumption DEF Halved
      <4> QED
        BY <4>1, <3>2, <2>1
    <3> QED
      BY <3>1, <3>2, <1>1 DEF OptimizeEnd
  <2>3. {j \in Used : Live(j) /\ (j <= kept \/ j >= scan)} = 1..kept
    BY <1>1, <2>1 DEF Inv, ScanInv, SlotsInArray, Live, Used
  <2>4. wasLive = {rows[i] : i \in 1..kept}
    BY <1>1, <2>1, <2>3 DEF Inv, CompactionKeepsLiveRows
  <2> QED
    BY <2>1, <2>2, <2>4
<1>2. Inv /\ [Next]_vars => [OptimizeEnd => wasLive = {rows'[i] : i \in 1..rowCount'}]_vars
  BY <1>1
<1> QED
  BY <1>2, Invariance, PTL DEF Spec, OptimizeLeavesLiveRows

-----------------------------------------------------------------------------
(* The row engine implements TableStore: a row stays under the number of    *)
(* its position until a deleted row before it is dropped by the loop of     *)
(* optimize.                                                                *)
Answer == Value \cup {Gone}

\* Outside the loop of optimize the table's content is what select answers.
LEMMA ContentOutside ==
    Inv /\ Idle => /\ Content = [i \in 1..rowCount |-> Select(i)]
                   /\ rowCount \in Nat
                   /\ \A i \in 1..rowCount : Select(i) \in Answer
  <1> SUFFICES ASSUME Inv, Idle
               PROVE  /\ Content = [i \in 1..rowCount |-> Select(i)]
                      /\ rowCount \in Nat
                      /\ \A i \in 1..rowCount : Select(i) \in Answer
    OBVIOUS
  <1>1. Content = [i \in 1..rowCount |-> Select(i)]
    BY DEF Content
  <1>2. rowCount \in Nat
    BY DEF Inv, TypeOK
  <1>3. ASSUME NEW i \in 1..rowCount PROVE Select(i) \in Answer
    <2>1. rows[i] \in Row
      BY <1>2, SurvivorsAreRows DEF Inv, TypeOK, ScanInv, Survives, Used, Idle
    <2>2. QED
      BY <2>1 DEF Select, Answer, Row
  <1>4. QED
    BY <1>1, <1>2, <1>3

\* The same after a step that ends outside the loop.
LEMMA ContentAfter ==
    ASSUME Idle'
    PROVE  Content' = [i \in 1..rowCount' |-> Select(i)']
  BY DEF Content

\* Two sequences with the same elements in the same places are one.
LEMMA SameSequence ==
    ASSUME NEW S, NEW s \in Seq(S), NEW n \in Nat, NEW f, f = [i \in 1..n |-> f[i]],
           Len(s) = n, \A i \in 1..n : s[i] = f[i]
    PROVE  s = f
  <1>1. s \in [1..n -> S]
    OBVIOUS
  <1>2. QED
    BY <1>1

LEMMA InsertAppends ==
    ASSUME Inv, NEW n \in 1..MaxBatch, NEW batch \in [1..n -> Value], Insert(batch)
    PROVE  Store!Insert
  <1>1. n \in Nat /\ Len(batch) = n /\ DOMAIN batch = 1..n /\ batch \in Seq(Answer)
    <2>1. n \in Nat /\ batch \in [1..n -> Answer]
      BY RowAssumption DEF Answer
    <2>2. QED
      BY <2>1
  <1>2. Idle /\ Idle' /\ rowCount' = rowCount + n
    BY <1>1 DEF Insert, Idle
  <1>3. /\ Content = [i \in 1..rowCount |-> Select(i)] /\ rowCount \in Nat
        /\ \A i \in 1..rowCount : Select(i) \in Answer
    BY <1>2, ContentOutside
  <1>4. Content \in Seq(Answer) /\ Len(Content) = rowCount
        /\ \A i \in 1..rowCount : Content[i] = Select(i)
    <2>1. Content \in [1..rowCount -> Answer]
      BY <1>3
    <2>2. QED
      BY <1>3, <2>1
  <1>5. PICK cap \in Capacities(rowCount + Len(batch)) :
          rows' = [i \in 1..cap |->
                     IF i - rowCount \in DOMAIN batch
                       THEN [id |-> nextRowId + i - rowCount - 1,
                             val |-> batch[i - rowCount], deleted |-> FALSE]
                       ELSE Expanded(cap)[i]]
    BY DEF Insert
  <1>6. cap \in Nat /\ Len(rows) <= cap /\ rowCount + n <= cap /\ rowCount <= Len(rows)
        /\ Len(rows) \in Nat
    BY <1>1, <1>3, RowAssumption DEF Capacities, Inv, TypeOK, SlotsInArray
  <1>7. ASSUME NEW i \in 1..rowCount PROVE Select(i)' = Select(i)
    <2>1. rows'[i] = rows[i]
      BY <1>1, <1>3, <1>5, <1>6 DEF Expanded
    <2>2. QED
      BY <2>1 DEF Select, Live
  <1>8. ASSUME NEW i \in (rowCount + 1)..(rowCount + n)
        PROVE  Select(i)' = batch[i - rowCount]
    <2> DEFINE r == [id |-> nextRowId + i - rowCount - 1,
                     val |-> batch[i - rowCount], deleted |-> FALSE]
    <2>1. i - rowCount \in DOMAIN batch /\ i \in 1..cap
      BY <1>1, <1>3, <1>6
    <2>2. rows'[i] = r
      BY <1>5, <2>1
    <2>3. r \in Row
      <3>1. nextRowId + i - rowCount - 1 \in Nat \ {0}
        BY <1>3 DEF Inv, TypeOK
      <3>2. batch[i - rowCount] \in Value
        BY <1>1, <2>1
      <3>3. QED
        BY <3>1, <3>2 DEF Row
    <2>4. r.deleted = FALSE /\ r.val = batch[i - rowCount] /\ r # Null
      BY <2>3, NullAssumption
    <2> HIDE DEF r
    <2>5. QED
      BY <2>2, <2>4 DEF Select, Live
  <1>9. Content' = [i \in 1..(rowCount + n) |-> Select(i)']
    BY <1>2, ContentAfter
  <1>10. Content' = Content \o batch
    <2> DEFINE s == Content \o batch
    <2>1. s \in Seq(Answer) /\ Len(s) = rowCount + n /\ rowCount + n \in Nat
      BY <1>1, <1>3, <1>4
    <2>2. ASSUME NEW i \in 1..(rowCount + n) PROVE s[i] = Content'[i]
      <3>1. CASE i <= rowCount
        <4>1. i \in 1..rowCount /\ s[i] = Content[i]
          BY <1>1, <1>3, <1>4, <3>1
        <4>2. QED
          BY <1>4, <1>7, <1>9, <4>1
      <3>2. CASE i > rowCount
        <4>1. i \in (rowCount + 1)..(rowCount + n) /\ s[i] = batch[i - rowCount]
          BY <1>1, <1>3, <1>4, <3>2
        <4>2. QED
          BY <1>8, <1>9, <4>1
      <3>3. QED
        BY <1>3, <3>1, <3>2
    <2> DEFINE f == Content'
    <2>3. f = [i \in 1..(rowCount + n) |-> f[i]]
      BY <1>9
    <2> HIDE DEF s, f
    <2>4. \A i \in 1..(rowCount + n) : s[i] = f[i]
      BY <2>2 DEF f
    <2>5. s = f
      BY <2>1, <2>3, <2>4, SameSequence
    <2>6. QED
      BY <2>5 DEF s, f
  <1>11. batch \in UNION {[1..m -> Answer] : m \in 1..MaxBatch}
    <2>1. batch \in [1..n -> Answer]
      BY DEF Answer
    <2>2. QED
      BY <2>1
  <1>12. QED
    BY <1>10, <1>11 DEF Store!Insert, Answer

\* A step on one slot outside the loop.
LEMMA SlotContent ==
    ASSUME Inv, Idle, NEW id \in Used, NEW row, row # Null,
           rows' = [rows EXCEPT ![id] = row], UNCHANGED <<rowCount, scan, kept>>
    PROVE  /\ id \in DOMAIN Content
           /\ Content' = [Content EXCEPT ![id] = IF row.deleted THEN Gone ELSE row.val]
  <1>1. /\ Content = [i \in 1..rowCount |-> Select(i)] /\ rowCount \in Nat
    BY ContentOutside
  <1>2. Content' = [i \in 1..rowCount |-> Select(i)']
    BY ContentAfter DEF Idle
  <1>3. id \in 1..Len(rows) /\ DOMAIN rows = 1..Len(rows)
    BY SurvivorsAreRows DEF Inv, TypeOK
  <1>4. Select(id)' = IF row.deleted THEN Gone ELSE row.val
    <2>1. rows'[id] = row
      BY <1>3
    <2>2. QED
      BY <2>1 DEF Select, Live
  <1>5. ASSUME NEW i \in 1..rowCount, i # id PROVE Select(i)' = Select(i)
    <2>1. rows'[i] = rows[i]
      BY <1>5, SurvivorsAreRows DEF Inv, TypeOK, Used
    <2>2. QED
      BY <2>1 DEF Select, Live
  <1> DEFINE x == IF row.deleted THEN Gone ELSE row.val
  <1> HIDE DEF x
  <1>6. Select(id)' = x
    BY <1>4 DEF x
  <1>7. [Content EXCEPT ![id] = x] = [i \in 1..rowCount |-> IF i = id THEN x ELSE Select(i)]
    BY <1>1
  <1>8. Content' = [i \in 1..rowCount |-> IF i = id THEN x ELSE Select(i)]
    BY <1>2, <1>5, <1>6
  <1>9. QED
    BY <1>1, <1>7, <1>8 DEF Used, x

LEMMA UpdateReplaces ==
    ASSUME Inv, NEW id \in 1..MaxRows, NEW v \in Value, Update(id, v)
    PROVE  Store!Update
  <1> DEFINE row == [id |-> rows[id].id, val |-> v, deleted |-> FALSE]
  <1>1. /\ id \in Used /\ Idle /\ rows' = [rows EXCEPT ![id] = row]
        /\ UNCHANGED <<rowCount, scan, kept>>
    BY DEF Update
  <1>2. row \in Row /\ row.deleted = FALSE /\ row.val = v
    <2>1. rows[id] \in Row
      BY <1>1, SurvivorsAreRows DEF Inv, TypeOK, ScanInv, Survives, Idle, Used
    <2>2. QED
      BY <2>1 DEF Row
  <1>3. row # Null
    BY <1>2, NullAssumption
  <1> HIDE DEF row
  <1>4. id \in DOMAIN Content
        /\ Content' = [Content EXCEPT ![id] = IF row.deleted THEN Gone ELSE row.val]
    BY <1>1, <1>3, SlotContent
  <1>5. Content' = [Content EXCEPT ![id] = v]
    BY <1>2, <1>4
  <1>6. \E i \in DOMAIN Content, w \in Value : Content' = [Content EXCEPT ![i] = w]
    BY <1>4, <1>5
  <1>7. QED
    BY <1>6 DEF Store!Update

LEMMA DeleteRemoves ==
    ASSUME Inv, NEW id \in 1..MaxRows, Delete(id)
    PROVE  Store!Delete
  <1> DEFINE row == [rows[id] EXCEPT !.deleted = TRUE]
  <1>1. /\ id \in Used /\ Idle /\ rows' = [rows EXCEPT ![id] = row]
        /\ UNCHANGED <<rowCount, scan, kept>>
    BY DEF Delete
  <1>2. row \in Row /\ row.deleted = TRUE
    <2>1. rows[id] \in Row
      BY <1>1, SurvivorsAreRows DEF Inv, TypeOK, ScanInv, Survives, Idle, Used
    <2>2. QED
      BY <2>1 DEF Row
  <1>3. row # Null
    BY <1>2, NullAssumption
  <1> HIDE DEF row
  <1>4. id \in DOMAIN Content
        /\ Content' = [Content EXCEPT ![id] = IF row.deleted THEN Gone ELSE row.val]
    BY <1>1, <1>3, SlotContent
  <1>5. Content' = [Content EXCEPT ![id] = Gone]
    BY <1>2, <1>4
  <1>6. QED
    BY <1>4, <1>5 DEF Store!Delete

-----------------------------------------------------------------------------
(* The loop of optimize.                                                    *)

\* What the array a answers for slot i.
At(a, i) == IF a[i] # Null /\ ~a[i].deleted THEN a[i].val ELSE Gone

\* In the loop the content is what was kept and what is still to be read.
LEMMA ContentInside ==
    ASSUME ~Idle
    PROVE  Content = [i \in 1..(kept + rowCount + 1 - scan) |->
                        At(rows, IF i <= kept THEN i ELSE scan + i - kept - 1)]
  BY DEF Content, Select, Live, At

LEMMA ContentInsideAfter ==
    ASSUME ~Idle'
    PROVE  Content' = [i \in 1..(kept' + rowCount' + 1 - scan') |->
                         At(rows', IF i <= kept' THEN i ELSE scan' + i - kept' - 1)]
  BY DEF Content, Select, Live, At

LEMMA BeginKeepsContent ==
    ASSUME Inv, OptimizeBegin
    PROVE  Content' = Content
  <1>1. Idle /\ ~Idle' /\ scan' = 1 /\ kept' = 0 /\ rows' = rows /\ rowCount' = rowCount
    BY DEF OptimizeBegin, Idle
  <1>2. Content = [i \in 1..rowCount |-> Select(i)] /\ rowCount \in Nat
    BY <1>1, ContentOutside
  <1>3. Content = [i \in 1..rowCount |-> At(rows, i)]
    BY <1>2 DEF Select, Live, At
  <1>4. Content' = [i \in 1..(0 + rowCount + 1 - 1) |->
                      At(rows, IF i <= 0 THEN i ELSE 1 + i - 0 - 1)]
    BY <1>1, ContentInsideAfter
  <1>5. \A i \in 1..rowCount : (IF i <= 0 THEN i ELSE 1 + i - 0 - 1) = i
    BY <1>2
  <1>6. 0 + rowCount + 1 - 1 = rowCount
    BY <1>2
  <1>7. Content' = [i \in 1..rowCount |-> At(rows, i)]
    BY <1>4, <1>5, <1>6
  <1>8. QED
    BY <1>3, <1>7

LEMMA EndKeepsContent ==
    ASSUME Inv, OptimizeEnd
    PROVE  Content' = Content
  <1>1. /\ scan = rowCount + 1 /\ rowCount' = kept /\ scan' = 0 /\ kept' = 0
        /\ rowCount \in Nat /\ kept \in Nat /\ rows \in Seq(Row \cup {Null})
        /\ Len(rows) \in Nat /\ kept <= Len(rows)
    BY DEF OptimizeEnd, Inv, TypeOK, SlotsInArray, ScanInv
  <1>2. ~Idle /\ Idle'
    BY <1>1 DEF Idle
  <1>3. kept + rowCount + 1 - scan = kept
    BY <1>1
  <1>4. Content = [i \in 1..kept |-> At(rows, i)]
    BY <1>1, <1>2, <1>3, ContentInside
  <1>5. Content' = [i \in 1..kept |-> At(rows', i)]
    BY <1>1, <1>2, ContentAfter DEF Select, Live, At
  <1>6. ASSUME NEW i \in 1..kept PROVE rows'[i] = rows[i]
    <2>1. CASE UNCHANGED rows
      BY <2>1
    <2>2. CASE kept < Len(rows) \div 2 /\ rows' = [j \in 1..Halved |-> rows[j]]
      <3>1. Len(rows) \div 2 \in Nat
        BY <1>1
      <3> DEFINE half == Len(rows) \div 2
      <3> HIDE DEF half
      <3>2. half \in Nat /\ kept < half /\ Halved = IF half < InitCap THEN InitCap ELSE half
        BY <2>2, <3>1 DEF Halved, half
      <3>3. Halved \in Nat /\ kept <= Halved
        BY <1>1, <3>2, RowAssumption
      <3>4. i \in 1..Halved
        BY <1>1, <3>3
      <3>5. QED
        BY <2>2, <3>4
    <2>3. QED
      BY <2>1, <2>2 DEF OptimizeEnd
  <1>7. \A i \in 1..kept : At(rows', i) = At(rows, i)
    BY <1>6 DEF At
  <1>8. QED
    BY <1>4, <1>5, <1>7

\* How many numbers of L do not exceed id.
Place(L, id) == Cardinality({j \in L : j <= id})

\* Without the number d, the n-th of the numbers up to m is n, or n + 1 behind d.
LEMMA PlaceWithout ==
    ASSUME NEW m \in Nat, NEW d \in 1..m
    PROVE  LET K == (1..m) \ {d}
           IN  /\ Cardinality(K) = m - 1
               /\ \A id \in K : Place(K, id) = IF id < d THEN id ELSE id - 1
  <1> DEFINE K == (1..m) \ {d}
  <1>1. IsFiniteSet(1..m) /\ Cardinality(1..m) = m
    BY FS_Interval
  <1>2. Cardinality(K) = m - 1
    BY <1>1, FS_RemoveElement
  <1>3. ASSUME NEW id \in K
        PROVE  Place(K, id) = IF id < d THEN id ELSE id - 1
    <2>1. IsFiniteSet(1..id) /\ Cardinality(1..id) = id /\ id \in 1..m /\ id # d
      BY FS_Interval
    <2>2. CASE id < d
      <3>1. {j \in K : j <= id} = 1..id
        BY <2>1, <2>2
      <3>2. QED
        BY <2>1, <2>2, <3>1 DEF Place
    <2>3. CASE ~(id < d)
      <3>1. {j \in K : j <= id} = (1..id) \ {d} /\ d \in 1..id
        BY <2>1, <2>3
      <3>2. Cardinality((1..id) \ {d}) = id - 1
        BY <2>1, <3>1, FS_RemoveElement
      <3>3. QED
        BY <2>3, <3>1, <3>2 DEF Place
    <2>4. QED
      BY <2>2, <2>3
  <1>4. QED
    BY <1>2, <1>3

\* A content that lost the place d is one that TableStore's optimization leaves.
LEMMA DropIsOptimize ==
    ASSUME NEW m \in Nat, NEW d \in 1..m, DOMAIN Content = 1..m, Content[d] = Gone,
           Content' = [n \in 1..(m - 1) |-> Content[IF n < d THEN n ELSE n + 1]]
    PROVE  Store!Optimize
  <1> DEFINE S == {d}
             K == DOMAIN Content \ S
             L == (1..m) \ {d}
             place(id) == Store!Cardinality({j \in K : j <= id})
             c(n) == CHOOSE id \in K : place(id) = n
  <1>1. S \in SUBSET {id \in DOMAIN Content : Content[id] = Gone}
    OBVIOUS
  <1>2. K = L
    OBVIOUS
  <1>3. \A T : Store!Cardinality(T) = Cardinality(T)
    BY Zenon DEF Store!Cardinality, Cardinality
  <1>4. /\ Cardinality(L) = m - 1
        /\ \A id \in L : Place(L, id) = IF id < d THEN id ELSE id - 1
    BY PlaceWithout
  <1>5. Store!Cardinality(K) = m - 1
    BY <1>2, <1>3, <1>4
  <1>6. ASSUME NEW id \in K PROVE place(id) = IF id < d THEN id ELSE id - 1
    <2>1. place(id) = Place(K, id)
      BY <1>3 DEF Place
    <2> HIDE DEF K, L, place
    <2>2. QED
      BY <1>2, <1>4, <2>1
  <1> HIDE DEF place, c
  <1>7. ASSUME NEW n \in 1..(m - 1)
        PROVE  c(n) = IF n < d THEN n ELSE n + 1
    <2> DEFINE e == IF n < d THEN n ELSE n + 1
    <2>1. e \in K /\ place(e) = n
      <3>1. e \in K
        BY <1>2
      <3> HIDE DEF K
      <3>2. place(e) = IF e < d THEN e ELSE e - 1
        BY <1>6, <3>1
      <3>3. QED
        BY <3>1, <3>2
    <2>2. ASSUME NEW id \in K, place(id) = n PROVE id = e
      <3>1. n = IF id < d THEN id ELSE id - 1
        BY <1>6, <2>2
      <3>2. id \in 1..m /\ id # d
        BY <1>2
      <3>3. QED
        BY <3>1, <3>2
    <2> HIDE DEF K, e
    <2>3. c(n) = e
      BY <2>1, <2>2 DEF c
    <2>4. QED
      BY <2>3 DEF e
  <1>8. Content' = [n \in 1..Store!Cardinality(K) |-> Content[c(n)]]
    <2> HIDE DEF K
    <2>1. QED
      BY <1>5, <1>7
  <1> USE DEF place, c, Store!Optimize
  <1> WITNESS S \in SUBSET {id \in DOMAIN Content : Content[id] = Gone}
  <1>9. QED
    BY <1>8

\* One iteration keeps a live row under its number, or drops a deleted one.
LEMMA LoopDropsOrKeeps ==
    ASSUME Inv, OptimizeRow
    PROVE  Content' = Content \/ Store!Optimize
  <1> DEFINE m == kept + rowCount + 1 - scan
             at(i) == IF i <= kept THEN i ELSE scan + i - kept - 1
  <1>1. /\ scan \in Used /\ scan' = scan + 1 /\ rowCount' = rowCount
        /\ kept \in Nat /\ scan \in Nat /\ rowCount \in Nat /\ kept < scan /\ scan <= rowCount
        /\ scan # 0
    BY DEF OptimizeRow, Inv, TypeOK, SlotsInArray, Used
  <1>2. ~Idle /\ ~Idle' /\ m \in Nat /\ kept + 1 \in 1..m
    BY <1>1 DEF Idle
  <1>3. /\ rows[scan] \in Row /\ rows[scan] # Null
        /\ rows \in Seq(Row \cup {Null}) /\ scan \in 1..Len(rows) /\ kept + 1 \in 1..Len(rows)
    <2>1. Survives(scan)
      BY <1>1 DEF Survives
    <2>2. rows[scan] \in Row /\ scan \in 1..Len(rows) /\ rows \in Seq(Row \cup {Null})
      BY <1>1, <2>1, SurvivorsAreRows DEF Inv, TypeOK
    <2>3. QED
      BY <1>1, <2>2, NullAssumption
  <1>4. Content = [i \in 1..m |-> At(rows, at(i))]
    BY <1>2, ContentInside
  <1>5. CASE rows[scan].deleted
    <2>1. rows' = [rows EXCEPT ![scan] = Null] /\ kept' = kept
      BY <1>5 DEF OptimizeRow
    <2>2. kept' + rowCount' + 1 - scan' = m - 1
      BY <1>1, <2>1
    <2>3. Content' = [i \in 1..(m - 1) |->
                        At(rows', IF i <= kept THEN i ELSE (scan + 1) + i - kept - 1)]
      BY <1>1, <1>2, <2>1, <2>2, ContentInsideAfter
    <2>4. ASSUME NEW i \in 1..(m - 1)
          PROVE  At(rows', IF i <= kept THEN i ELSE (scan + 1) + i - kept - 1)
                    = Content[IF i < kept + 1 THEN i ELSE i + 1]
      <3>1. CASE i <= kept
        <4>1. i # scan /\ i \in 1..m /\ at(i) = i /\ i < kept + 1 /\ i \in 1..Len(rows)
          BY <1>1, <1>2, <1>3, <3>1
        <4>2. rows'[i] = rows[i]
          BY <1>3, <2>1, <4>1
        <4>3. At(rows', i) = At(rows, i)
          BY <4>2 DEF At
        <4>4. QED
          BY <1>4, <3>1, <4>1, <4>3
      <3>2. CASE ~(i <= kept)
        <4> DEFINE q == (scan + 1) + i - kept - 1
        <4>1. /\ i + 1 \in 1..m /\ at(i + 1) = q /\ ~(i < kept + 1) /\ q # scan
              /\ q \in 1..rowCount
          BY <1>1, <1>2, <3>2
        <4>2. rows'[q] = rows[q]
          BY <1>3, <2>1, <4>1 DEF Inv, SlotsInArray
        <4> HIDE DEF q
        <4>3. At(rows', q) = At(rows, q)
          BY <4>2 DEF At
        <4>4. Content[i + 1] = At(rows, q)
          BY <1>4, <4>1
        <4>5. QED
          BY <3>2, <4>1, <4>3, <4>4 DEF q
      <3>3. QED
        BY <3>1, <3>2
    <2>5. Content' = [i \in 1..(m - 1) |-> Content[IF i < kept + 1 THEN i ELSE i + 1]]
      BY <2>3, <2>4
    <2>6. Content[kept + 1] = Gone
      <3>1. at(kept + 1) = scan
        BY <1>1
      <3>2. At(rows, scan) = Gone
        BY <1>5 DEF At
      <3>3. QED
        BY <1>2, <1>4, <3>1, <3>2
    <2>7. DOMAIN Content = 1..m
      BY <1>4
    <2> HIDE DEF m
    <2>8. Store!Optimize
      BY <1>2, <2>5, <2>6, <2>7, DropIsOptimize
    <2>9. QED
      BY <2>8
  <1>6. CASE ~rows[scan].deleted
    <2>1. rows' = [rows EXCEPT ![kept + 1] = rows[scan]] /\ kept' = kept + 1
      BY <1>6 DEF OptimizeRow
    <2>2. kept' + rowCount' + 1 - scan' = m
      BY <1>1, <2>1
    <2> DEFINE then(i) == IF i <= kept + 1 THEN i ELSE (scan + 1) + i - (kept + 1) - 1
    <2>3. Content' = [i \in 1..m |-> At(rows', then(i))]
      BY <1>1, <1>2, <2>1, <2>2, ContentInsideAfter
    <2>4. ASSUME NEW i \in 1..m PROVE rows'[then(i)] = rows[at(i)]
      <3>1. CASE i = kept + 1
        <4>1. then(i) = kept + 1 /\ at(i) = scan
          BY <1>1, <3>1
        <4>2. QED
          BY <1>3, <2>1, <4>1
      <3>2. CASE i # kept + 1
        <4>1. then(i) = at(i) /\ at(i) # kept + 1
          BY <1>1, <1>2, <3>2
        <4>2. QED
          BY <1>3, <2>1, <4>1
      <3>3. QED
        BY <3>1, <3>2
    <2> HIDE DEF then, at, m
    <2>5. \A i \in 1..m : At(rows', then(i)) = At(rows, at(i))
      BY <2>4 DEF At
    <2>6. QED
      BY <1>4, <2>3, <2>5
  <1>7. QED
    BY <1>5, <1>6

-----------------------------------------------------------------------------
\* Every step of the row engine is one of TableStore or leaves what the table
\* holds.
LEMMA RowSteps ==
    ASSUME Inv, [Next]_vars
    PROVE  [Store!Next]_Content
  <1> SUFFICES Store!Next \/ Content' = Content
    OBVIOUS
  <1>1. ASSUME NEW n \in 1..MaxBatch, NEW batch \in [1..n -> Value], Insert(batch)
        PROVE  Store!Next
    BY <1>1, InsertAppends DEF Store!Next
  <1>2. ASSUME NEW id \in 1..MaxRows, Delete(id) PROVE Store!Next
    BY <1>2, DeleteRemoves DEF Store!Next
  <1>3. ASSUME NEW id \in 1..MaxRows, NEW v \in Value, Update(id, v) PROVE Store!Next
    BY <1>3, UpdateReplaces DEF Store!Next
  <1>4. ASSUME UNCHANGED <<rows, rowCount, scan, kept>> PROVE Content' = Content
    BY <1>4 DEF Content, Select, Live, Idle
  <1>5. CASE Transact
    BY <1>4, <1>5 DEF Transact, Begin, Commit, Rollback
  <1>6. CASE Optimize
    BY <1>6, BeginKeepsContent, LoopDropsOrKeeps, EndKeepsContent DEF Optimize, Store!Next
  <1>7. CASE UNCHANGED vars
    BY <1>4, <1>7 DEF vars
  <1> QED BY <1>1, <1>2, <1>3, <1>5, <1>6, <1>7 DEF Next, Mutate

LEMMA RowBegins ==
    ASSUME Init
    PROVE  Content = <<>>
  <1>1. rowCount = 0 /\ Idle
    BY DEF Init, Idle
  <1> QED BY <1>1 DEF Content

\* Every step of the row engine is one of TableStore or leaves what the table
\* holds: row_engine.c keeps the promise of the engines' interface, whatever the
\* values, the capacity and the moment at which optimize is interrupted.
THEOREM Implementation == Spec => ImplementsTableStore
  <1>1. Init => Store!Init
    BY RowBegins DEF Store!Init
  <1>2. Inv /\ [Next]_vars => [Store!Next]_Content
    BY RowSteps
  <1>3. QED
    BY Invariance, <1>1, <1>2, PTL DEF Spec, ImplementsTableStore, Store!Spec

-----------------------------------------------------------------------------
(* The directory of tables.                                                   *)

\* No two entries of the list have one name.
NamesApart(list) == \A i, j \in DOMAIN list : list[i].name = list[j].name => i = j

\* Every table of the directory is with its engine.
Listed(tb, ls) == \A i \in DOMAIN tb : \E j \in DOMAIN ls[tb[i].engine] :
                     ls[tb[i].engine][j] = tb[i]

DirectoryInv ==
    /\ Directory!TypeOK
    /\ NamesApart(tables) /\ \A e \in Engine : NamesApart(lists[e])
    /\ Listed(tables, lists)

\* Where a name is.
LEMMA PlaceOfName ==
    ASSUME NEW list \in Seq(Directory!Table), NamesApart(list), NEW i \in DOMAIN list
    PROVE  Directory!SelectInSeq(list, LAMBDA t : t.name = list[i].name) = i
  <1> DEFINE I == {j \in 1..Len(list) : list[j].name = list[i].name}
             m == Min(I)
  <1>1. DOMAIN list = 1..Len(list) /\ Len(list) \in Nat
    OBVIOUS
  <1>2. Directory!SelectInSeq(list, LAMBDA t : t.name = list[i].name) = IF I # {} THEN m ELSE 0
    BY DEF Directory!SelectInSeq, Directory!Min, Min
  <1>3. I = {i}
    BY <1>1 DEF NamesApart
  <1>4. m \in I
    <2>1. I \in SUBSET Nat /\ I # {}
      BY <1>1, <1>3
    <2> HIDE DEF I
    <2> QED BY <2>1, MinIsLeast
  <1> QED BY <1>2, <1>3, <1>4

LEMMA EntryIs ==
    ASSUME NEW list \in Seq(Directory!Table), NamesApart(list), NEW i \in DOMAIN list,
           NEW name, list[i].name = name
    PROVE  /\ Directory!Entry(list, name) = list[i]
           /\ Directory!Without(list, name) = RemoveAt(list, i)
  <1>1. Directory!SelectInSeq(list, LAMBDA t : t.name = list[i].name) = i
    BY PlaceOfName
  <1>2. Directory!SelectInSeq(list, LAMBDA t : t.name = name) = i
    BY <1>1
  <1> QED BY <1>2 DEF Directory!Entry, Directory!Without, Directory!RemoveAt, RemoveAt

\* A list without one of its entries.
LEMMA Removed ==
    ASSUME NEW list \in Seq(Directory!Table), NamesApart(list), NEW p \in DOMAIN list
    PROVE  /\ RemoveAt(list, p) \in Seq(Directory!Table) /\ NamesApart(RemoveAt(list, p))
           /\ \A i \in DOMAIN RemoveAt(list, p) : \E j \in DOMAIN list :
                 j # p /\ RemoveAt(list, p)[i] = list[j]
           /\ \A j \in DOMAIN list : j # p => \E i \in DOMAIN RemoveAt(list, p) :
                 RemoveAt(list, p)[i] = list[j]
  <1> DEFINE n == Len(list)
             r == RemoveAt(list, p)
             From(j) == IF j < p THEN j ELSE j + 1
  <1>1. n \in Nat /\ DOMAIN list = 1..n /\ p \in 1..n
    OBVIOUS
  <1>2. /\ r \in Seq(Directory!Table) /\ Len(r) = n - 1
        /\ \A i \in 1..(n - 1) : (i < p => r[i] = list[i]) /\ (i >= p => r[i] = list[i + 1])
    BY RemoveAtSkips
  <1> HIDE DEF n, r
  <1>3. DOMAIN r = 1..(n - 1)
    BY <1>1, <1>2
  <1>4. \A i \in 1..(n - 1) : From(i) \in 1..n /\ From(i) # p /\ r[i] = list[From(i)]
    BY <1>1, <1>2
  <1>5. \A i, j \in 1..(n - 1) : From(i) = From(j) => i = j
    BY <1>1
  <1>6. ASSUME NEW j \in 1..n, j # p PROVE \E i \in 1..(n - 1) : From(i) = j
    <2>1. CASE j < p
      <3>1. j \in 1..(n - 1) /\ From(j) = j
        BY <1>1, <2>1
      <3> QED BY <3>1
    <2>2. CASE j > p
      <3>1. j - 1 \in 1..(n - 1) /\ From(j - 1) = j
        BY <1>1, <2>2
      <3> QED BY <3>1
    <2> QED BY <1>1, <1>6, <2>1, <2>2
  <1> HIDE DEF From
  <1>7. NamesApart(r)
    BY <1>1, <1>3, <1>4, <1>5 DEF NamesApart
  <1>8. \A i \in DOMAIN r : \E j \in DOMAIN list : j # p /\ r[i] = list[j]
    BY <1>1, <1>3, <1>4
  <1>9. \A j \in DOMAIN list : j # p => \E i \in DOMAIN r : r[i] = list[j]
    BY <1>1, <1>3, <1>4, <1>6
  <1> QED BY <1>2, <1>7, <1>8, <1>9 DEF r

\* A list with one more entry, of a new name.
LEMMA Appended ==
    ASSUME NEW list \in Seq(Directory!Table), NamesApart(list), NEW t \in Directory!Table,
           ~Directory!Has(list, t.name)
    PROVE  /\ Append(list, t) \in Seq(Directory!Table) /\ NamesApart(Append(list, t))
           /\ \A i \in DOMAIN Append(list, t) : Append(list, t)[i] = t
                 \/ \E j \in DOMAIN list : Append(list, t)[i] = list[j]
           /\ \A j \in DOMAIN list : \E i \in DOMAIN Append(list, t) : Append(list, t)[i] = list[j]
           /\ \E i \in DOMAIN Append(list, t) : Append(list, t)[i] = t
  <1> DEFINE n == Len(list)
             r == Append(list, t)
  <1>1. n \in Nat /\ DOMAIN list = 1..n
    OBVIOUS
  <1>2. /\ r \in Seq(Directory!Table) /\ DOMAIN r = 1..(n + 1)
        /\ r[n + 1] = t /\ \A i \in 1..n : r[i] = list[i]
    OBVIOUS
  <1> HIDE DEF n, r
  <1>3. \A i \in 1..n : list[i].name # t.name
    BY <1>1 DEF Directory!Has
  <1>4. \A i \in 1..(n + 1) : i = n + 1 \/ i \in 1..n
    BY <1>1
  <1>5. NamesApart(r)
    BY <1>1, <1>2, <1>3, <1>4 DEF NamesApart
  <1>6. \A i \in DOMAIN r : r[i] = t \/ \E j \in DOMAIN list : r[i] = list[j]
    BY <1>1, <1>2, <1>4
  <1>7. n + 1 \in DOMAIN r /\ \A j \in 1..n : j \in DOMAIN r
    BY <1>1, <1>2
  <1>8. \A j \in DOMAIN list : \E i \in DOMAIN r : r[i] = list[j]
    BY <1>1, <1>2, <1>7
  <1>9. \E i \in DOMAIN r : r[i] = t
    BY <1>2, <1>7
  <1> QED BY <1>2, <1>5, <1>6, <1>8, <1>9 DEF r

LEMMA DirectoryCreates ==
    ASSUME Directory!DirectoryAssumption, DirectoryInv, NEW name \in Name, NEW e \in Engine,
           Directory!CreateTable(name, e)
    PROVE  DirectoryInv'
  <1> DEFINE t == [obj |-> created + 1, name |-> name, engine |-> e]
  <1>1. /\ tables \in Seq(Directory!Table) /\ lists \in [Engine -> Seq(Directory!Table)]
        /\ NamesApart(tables) /\ \A d \in Engine : NamesApart(lists[d])
        /\ Listed(tables, lists)
    BY DEF DirectoryInv, Directory!TypeOK
  <1>2. /\ created \in 0..MaxCreates
        /\ created < MaxCreates
        /\ created' = created + 1
        /\ proc' = proc
        /\ proc \in {"ok", "aborted", "undefined", "destroyed"}
    BY DEF Directory!CreateTable, DirectoryInv, Directory!TypeOK
  <1>3. created' \in 0..MaxCreates /\ created + 1 \in 1..MaxCreates
    BY <1>2 DEF Directory!DirectoryAssumption
  <1>4. t \in Directory!Table /\ t.name = name /\ t.engine = e
    BY <1>3 DEF Directory!Table
  <1>5. CASE tables' = tables /\ lists' = lists
    BY <1>1, <1>2, <1>3, <1>5 DEF DirectoryInv, Directory!TypeOK
  <1>6. ASSUME ~Directory!Has(tables, name), Directory!EngineAccepts(t),
               lists' = [lists EXCEPT ![e] = Append(@, t)],
               tables' \in {Append(tables, t), tables}
        PROVE  DirectoryInv'
    <2> HIDE DEF t
    <2>1. ~Directory!Has(lists[e], t.name)
      BY <1>4, <1>6 DEF Directory!EngineAccepts
    <2>2. lists[e] \in Seq(Directory!Table) /\ NamesApart(lists[e])
      BY <1>1
    <2> DEFINE l == Append(lists[e], t)
    <2>3. /\ l \in Seq(Directory!Table) /\ NamesApart(l)
          /\ \A j \in DOMAIN lists[e] : \E i \in DOMAIN l : l[i] = lists[e][j]
          /\ \E i \in DOMAIN l : l[i] = t
      BY <1>4, <2>1, <2>2, Appended
    <2>4. /\ lists' = [lists EXCEPT ![e] = l]
      BY <1>6
    <2> HIDE DEF l
    <2>5. /\ lists' \in [Engine -> Seq(Directory!Table)] /\ lists'[e] = l
          /\ \A d \in Engine : d # e => lists'[d] = lists[d]
      BY <1>1, <2>3, <2>4
    <2>6. \A d \in Engine : NamesApart(lists'[d])
      BY <1>1, <2>3, <2>5
    <2>7. \A d \in Engine : \A j \in DOMAIN lists[d] : \E i \in DOMAIN lists'[d] :
             lists'[d][i] = lists[d][j]
      BY <2>3, <2>5
    <2>8. /\ tables' \in Seq(Directory!Table) /\ NamesApart(tables')
          /\ \A i \in DOMAIN tables' :
                tables'[i] = t \/ \E j \in DOMAIN tables : tables'[i] = tables[j]
      <3>1. CASE tables' = tables
        BY <1>1, <3>1
      <3>2. CASE tables' = Append(tables, t)
        <4>1. ~Directory!Has(tables, t.name)
          BY <1>4, <1>6
        <4>2. /\ Append(tables, t) \in Seq(Directory!Table) /\ NamesApart(Append(tables, t))
              /\ \A i \in DOMAIN Append(tables, t) : Append(tables, t)[i] = t
                    \/ \E j \in DOMAIN tables : Append(tables, t)[i] = tables[j]
          BY <1>1, <1>4, <4>1, Appended
        <4> QED BY <3>2, <4>2
      <3> QED BY <1>6, <3>1, <3>2
    <2>9. Listed(tables', lists')
      <3> SUFFICES ASSUME NEW i \in DOMAIN tables'
                   PROVE  \E j \in DOMAIN lists'[tables'[i].engine] :
                             lists'[tables'[i].engine][j] = tables'[i]
        BY DEF Listed
      <3>1. CASE tables'[i] = t
        BY <1>4, <2>3, <2>5, <3>1
      <3>2. CASE tables'[i] # t
        <4>1. PICK j \in DOMAIN tables : tables'[i] = tables[j]
          BY <2>8, <3>2
        <4>2. PICK h \in DOMAIN lists[tables[j].engine] : lists[tables[j].engine][h] = tables[j]
          BY <1>1 DEF Listed
        <4>3. tables[j].engine \in Engine
          <5>1. tables[j] \in Directory!Table
            BY <1>1
          <5> QED BY <5>1 DEF Directory!Table
        <4> QED BY <2>7, <4>1, <4>2, <4>3
      <3> QED BY <3>1, <3>2
    <2> QED BY <1>2, <1>3, <2>5, <2>6, <2>8, <2>9 DEF DirectoryInv, Directory!TypeOK
  <1> QED BY <1>5, <1>6 DEF Directory!CreateTable

LEMMA DirectoryDrops ==
    ASSUME DirectoryInv, NEW name \in Name, Directory!DropTable(name)
    PROVE  DirectoryInv'
  <1>1. /\ tables \in Seq(Directory!Table) /\ lists \in [Engine -> Seq(Directory!Table)]
        /\ NamesApart(tables) /\ \A d \in Engine : NamesApart(lists[d])
        /\ Listed(tables, lists)
    BY DEF DirectoryInv, Directory!TypeOK
  <1>2. PICK p \in DOMAIN tables : tables[p].name = name
    BY DEF Directory!DropTable, Directory!Has
  <1> DEFINE e == tables[p].engine
  <1>3. e \in Engine
    <2>1. tables[p] \in Directory!Table
      BY <1>1
    <2> QED BY <2>1 DEF Directory!Table
  <1>4. Directory!Entry(tables, name) = tables[p]
        /\ Directory!Without(tables, name) = RemoveAt(tables, p)
    BY <1>1, <1>2, EntryIs
  <1>5. PICK q \in DOMAIN lists[e] : lists[e][q] = tables[p]
    BY <1>1 DEF Listed
  <1> HIDE DEF e
  <1>6. lists[e] \in Seq(Directory!Table) /\ NamesApart(lists[e])
    BY <1>1, <1>3
  <1>7. lists[e][q].name = name
    BY <1>2, <1>5
  <1>8. /\ Directory!Without(lists[e], name) = RemoveAt(lists[e], q)
        /\ Directory!Has(lists[e], name)
    BY <1>5, <1>6, <1>7, EntryIs DEF Directory!Has
  <1> DEFINE l == RemoveAt(lists[e], q)
             tb == RemoveAt(tables, p)
  <1>9. /\ lists' = [lists EXCEPT ![e] = l]
        /\ tables' = tb
        /\ proc' = "aborted"
        /\ created' = created
    <2>1. Directory!Entry(tables, name).engine = e
      BY <1>4 DEF e
    <2> QED BY <1>4, <1>8, <2>1 DEF Directory!DropTable
  <1>10. /\ l \in Seq(Directory!Table) /\ NamesApart(l)
         /\ \A j \in DOMAIN lists[e] : j # q => \E i \in DOMAIN l : l[i] = lists[e][j]
    BY <1>5, <1>6, Removed
  <1>11. /\ tb \in Seq(Directory!Table) /\ NamesApart(tb)
         /\ \A i \in DOMAIN tb : \E j \in DOMAIN tables : j # p /\ tb[i] = tables[j]
    BY <1>1, <1>2, Removed
  <1> HIDE DEF l, tb
  <1>12. /\ lists' \in [Engine -> Seq(Directory!Table)] /\ lists'[e] = l
         /\ \A d \in Engine : d # e => lists'[d] = lists[d]
    BY <1>1, <1>3, <1>9, <1>10
  <1>13. \A d \in Engine : NamesApart(lists'[d])
    BY <1>1, <1>10, <1>12
  <1>14. Listed(tables', lists')
    <2> SUFFICES ASSUME NEW i \in DOMAIN tb
                 PROVE  \E h \in DOMAIN lists'[tb[i].engine] : lists'[tb[i].engine][h] = tb[i]
      BY <1>9 DEF Listed
    <2>1. PICK j \in DOMAIN tables : j # p /\ tb[i] = tables[j]
      BY <1>11
    <2>2. tables[j].name # name
      BY <1>1, <1>2, <2>1 DEF NamesApart
    <2>3. PICK h \in DOMAIN lists[tables[j].engine] : lists[tables[j].engine][h] = tables[j]
      BY <1>1 DEF Listed
    <2>4. tables[j].engine \in Engine
      <3>1. tables[j] \in Directory!Table
        BY <1>1
      <3> QED BY <3>1 DEF Directory!Table
    <2>5. CASE tables[j].engine = e
      <3>1. h # q
        BY <1>7, <2>2, <2>3, <2>5
      <3>2. \E k \in DOMAIN l : l[k] = lists[e][h]
        BY <1>10, <2>3, <2>5, <3>1
      <3> QED BY <1>12, <2>1, <2>3, <2>5, <3>2
    <2>6. CASE tables[j].engine # e
      BY <1>12, <2>1, <2>3, <2>4, <2>6
    <2> QED BY <2>5, <2>6
  <1>15. tables' \in Seq(Directory!Table) /\ NamesApart(tables')
    BY <1>9, <1>11
  <1>16. created \in 0..MaxCreates
    BY DEF DirectoryInv, Directory!TypeOK
  <1> QED BY <1>9, <1>12, <1>13, <1>14, <1>15, <1>16 DEF DirectoryInv, Directory!TypeOK

LEMMA DirectoryStep ==
    ASSUME Directory!DirectoryAssumption, DirectoryInv, [Directory!Next]_directoryVars
    PROVE  DirectoryInv'
  <1>1. CASE Directory!Destroy
    BY <1>1 DEF Directory!Destroy, DirectoryInv, Directory!TypeOK
  <1>2. CASE UNCHANGED directoryVars
    BY <1>2 DEF directoryVars, DirectoryInv, Directory!TypeOK
  <1> QED BY <1>1, <1>2, DirectoryCreates, DirectoryDrops DEF Directory!Next

LEMMA DirectoryInit ==
    ASSUME Directory!DirectoryAssumption, Directory!Init
    PROVE  DirectoryInv
  <1>1. /\ tables = <<>> /\ DOMAIN tables = {} /\ lists = [e \in Engine |-> <<>>]
        /\ created = 0 /\ proc = "ok"
    BY DEF Directory!Init
  <1>2. \A e \in Engine : lists[e] = <<>> /\ DOMAIN lists[e] = {}
    BY <1>1
  <1>3. Directory!TypeOK
    BY <1>1, <1>2 DEF Directory!TypeOK, Directory!DirectoryAssumption
  <1> QED BY <1>1, <1>2, <1>3 DEF DirectoryInv, NamesApart, Listed

LEMMA DirectoryAgrees ==
    ASSUME DirectoryInv
    PROVE  DirectoryAgreesWithEngines
  <1> SUFFICES ASSUME NEW i \in DOMAIN tables
               PROVE  Directory!GetTable(tables[i].name) = tables[i].obj
    BY DEF DirectoryAgreesWithEngines, Directory!DirectoryAgreesWithEngines
  <1> DEFINE name == tables[i].name
             e == tables[i].engine
  <1>1. /\ tables \in Seq(Directory!Table) /\ lists \in [Engine -> Seq(Directory!Table)]
        /\ NamesApart(tables) /\ \A d \in Engine : NamesApart(lists[d])
    BY DEF DirectoryInv, Directory!TypeOK
  <1>2. e \in Engine
    <2>1. tables[i] \in Directory!Table
      BY <1>1
    <2> QED BY <2>1 DEF Directory!Table
  <1>3. PICK q \in DOMAIN lists[e] : lists[e][q] = tables[i]
    BY DEF DirectoryInv, Listed
  <1>4. Directory!Entry(tables, name) = tables[i]
    BY <1>1, EntryIs
  <1>5. Directory!Entry(lists[e], name) = tables[i]
    <2>1. /\ lists[e] \in Seq(Directory!Table)
          /\ NamesApart(lists[e])
          /\ lists[e][q].name = name
      BY <1>1, <1>2, <1>3
    <2> HIDE DEF e, name
    <2> QED BY <1>3, <2>1, EntryIs
  <1>6. Directory!Has(tables, name) /\ Directory!Has(lists[e], name)
    BY <1>3 DEF Directory!Has
  <1> QED BY <1>4, <1>5, <1>6 DEF Directory!GetTable

-----------------------------------------------------------------------------
(* The column engine.                                                         *)

\* Values and masks that are of their type.
Typed(cs) ==
    /\ cs \in [1..Columns -> Seq(Column!Cell)]
    /\ \A c \in 1..Columns : \A i \in DOMAIN cs[c] : cs[c][i].null => cs[c][i].val = Null

\* The rows there are, and those but one, have the cells they had.
RowsStay == \A c \in 1..Columns : \A i \in 1..count : cells'[c][i] = cells[c][i]
OthersStay(id) ==
    \A c \in 1..Columns : \A i \in 1..count : i # id => cells'[c][i] = cells[c][i]

\* The first ct rows of columns with room for cp; the rows came as the first sr.
Aligned(cs, cp, ct, sr) ==
    /\ ct <= cp
    /\ \A c \in 1..Columns : /\ cp <= Len(cs[c])
                             /\ \A i \in 1..ct : cs[c][i].row = cs[1][i].row
    /\ \A i \in 1..ct : cs[1][i].row # 0 /\ cs[1][i].row <= sr
    /\ \A i, j \in 1..ct : i < j => cs[1][i].row < cs[1][j].row

\* The columns are aligned but for values that are freed.
ColumnInv ==
    /\ Column!TypeOK
    /\ capacity >= InitCap /\ count <= serial /\ nextId <= serial + 1
    /\ ~dangling => Aligned(cells, capacity, count, serial)

LEMMA ColumnHolds ==
    ASSUME Column!ColumnAssumption, ColumnInv
    PROVE  Column!TypeOK /\ Column!ColumnsAligned
  <1>1. 1 \in 1..Columns
    BY DEF Column!ColumnAssumption
  <1> QED BY <1>1 DEF ColumnInv, Aligned, Column!ColumnsAligned, Column!Col

\* The cell of a value, and the one of none.
LEMMA CellOf ==
    ASSUME Column!ColumnAssumption, NEW r \in 0..ColumnRows, NEW v \in Value \cup {Null}
    PROVE  /\ Column!Of(r, v) \in Column!Cell /\ Column!Of(r, v).row = r
           /\ Column!Of(r, v).null => Column!Of(r, v).val = Null
           /\ Column!Blank \in Column!Cell /\ ~Column!Blank.null
  <1>1. (v = Null) \in BOOLEAN
    OBVIOUS
  <1> DEFINE b == v = Null
  <1>2. Column!Of(r, v) = [row |-> r, val |-> v, null |-> b]
    BY DEF Column!Of
  <1>3. b => v = Null
    OBVIOUS
  <1>4. b \in BOOLEAN
    BY <1>1
  <1> HIDE DEF b
  <1>5. [row |-> r, val |-> v, null |-> b] \in Column!Cell
    BY <1>4 DEF Column!Cell
  <1>6. Column!Blank \in Column!Cell /\ ~Column!Blank.null
    BY DEF Column!ColumnAssumption, Column!Cell, Column!Blank
  <1> QED BY <1>2, <1>3, <1>5, <1>6

\* A list of cells given cell by cell.
LEMMA CellList ==
    ASSUME NEW n \in Nat, NEW f, f = [i \in 1..n |-> f[i]],
           \A i \in 1..n : f[i] \in Column!Cell
    PROVE  f \in Seq(Column!Cell) /\ Len(f) = n /\ DOMAIN f = 1..n
  <1>1. ASSUME NEW S, \A i \in 1..n : f[i] \in S
        PROVE  f \in Seq(S) /\ Len(f) = n /\ DOMAIN f = 1..n
    BY <1>1
  <1> QED BY <1>1

\* Columns ds with room for cp whose first ct rows are those of cs.
Keeps(cs, ds, cp, ct) ==
    \A c \in 1..Columns : /\ cp <= Len(ds[c])
                          /\ \A i \in 1..ct : ds[c][i].row = cs[c][i].row

Numbered(cs, ct) == \A i \in 1..ct : cs[1][i].row \in Nat

\* Columns that keep the rows they have and room for the capacity stay aligned.
LEMMA StaysAligned ==
    ASSUME NEW cs, NEW ds, NEW cp \in Nat, NEW dp \in Nat, NEW ct \in Nat, NEW sr \in Nat,
           NEW dr \in Nat,
           Columns \in Nat \ {0}, Aligned(cs, cp, ct, sr), sr <= dr, cp <= dp,
           Keeps(cs, ds, dp, ct), Numbered(cs, ct)
    PROVE  Aligned(ds, dp, ct, dr)
  <1>1. 1 \in 1..Columns
    OBVIOUS
  <1>2. ct <= dp
    BY DEF Aligned
  <1>3. \A c \in 1..Columns : \A i \in 1..ct : ds[c][i].row = ds[1][i].row
    BY <1>1 DEF Aligned, Keeps, Numbered
  <1>4. \A i \in 1..ct : ds[1][i].row # 0 /\ ds[1][i].row <= dr
    BY SMTT(30), <1>1 DEF Aligned, Keeps, Numbered
  <1>5. \A i, j \in 1..ct : i < j => ds[1][i].row < ds[1][j].row
    BY <1>1 DEF Aligned, Keeps, Numbered
  <1> QED BY <1>2, <1>3, <1>4, <1>5 DEF Aligned, Keeps

\* What the expansion of the columns 1..n makes of them: ds.
Extended(ds, n, cap) ==
    /\ Typed(ds)
    /\ \A c \in 1..Columns :
         /\ Len(ds[c]) = IF c > n THEN Len(cells[c]) ELSE cap
         /\ \A i \in 1..Len(cells[c]) : i <= Len(ds[c]) => ds[c][i] = cells[c][i]

LEMMA ExpandedIs ==
    ASSUME Column!ColumnAssumption, Typed(cells), NEW n \in Nat, NEW cap \in Nat
    PROVE  Extended(Column!Expanded(n, cap), n, cap)
  <1> DEFINE e == Column!Expanded(n, cap)
  <1>1. ASSUME NEW c \in 1..Columns
        PROVE  /\ e[c] \in Seq(Column!Cell)
               /\ Len(e[c]) = (IF c > n THEN Len(cells[c]) ELSE cap)
               /\ \A i \in DOMAIN e[c] : e[c][i].null => e[c][i].val = Null
               /\ \A i \in 1..Len(cells[c]) : i <= Len(e[c]) => e[c][i] = cells[c][i]
    <2>1. /\ cells[c] \in Seq(Column!Cell) /\ DOMAIN cells[c] = 1..Len(cells[c])
          /\ Len(cells[c]) \in Nat
          /\ \A i \in DOMAIN cells[c] : cells[c][i] \in Column!Cell
          /\ \A i \in DOMAIN cells[c] : cells[c][i].null => cells[c][i].val = Null
      BY DEF Typed
    <2>2. CASE c > n
      <3>1. e[c] = cells[c]
        BY <2>2 DEF Column!Expanded, Column!Col
      <3> QED BY <2>1, <2>2, <3>1
    <2>3. CASE ~(c > n)
      <3> DEFINE f == [i \in 1..cap |-> IF i \in DOMAIN cells[c] THEN cells[c][i]
                                        ELSE Column!Blank]
      <3>1. e[c] = f
        BY <2>3 DEF Column!Expanded, Column!Col
      <3>2. Column!Blank \in Column!Cell /\ ~Column!Blank.null
        BY DEF Column!ColumnAssumption, Column!Blank, Column!Cell
      <3>3. \A i \in 1..cap : f[i] = IF i \in DOMAIN cells[c] THEN cells[c][i] ELSE Column!Blank
        OBVIOUS
      <3>4. f = [i \in 1..cap |-> f[i]]
        OBVIOUS
      <3> HIDE DEF f
      <3>5. \A i \in 1..cap : f[i] \in Column!Cell /\ (f[i].null => f[i].val = Null)
        BY <2>1, <3>2, <3>3
      <3>6. f \in Seq(Column!Cell) /\ Len(f) = cap /\ DOMAIN f = 1..cap
        BY <3>4, <3>5, CellList
      <3>7. \A i \in 1..Len(cells[c]) : i <= cap => f[i] = cells[c][i]
        BY <2>1, <3>3
      <3> QED BY <2>3, <3>1, <3>5, <3>6, <3>7
    <2> QED BY <2>2, <2>3
  <1>2. e = [c \in 1..Columns |-> e[c]]
    BY DEF Column!Expanded, Column!Col
  <1> HIDE DEF e
  <1>3. Typed(e)
    BY <1>1, <1>2 DEF Typed
  <1>4. \A c \in 1..Columns :
           /\ Len(e[c]) = IF c > n THEN Len(cells[c]) ELSE cap
           /\ \A i \in 1..Len(cells[c]) : i <= Len(e[c]) => e[c][i] = cells[c][i]
    BY <1>1
  <1> QED BY <1>3, <1>4 DEF e, Extended

\* A batch of rows, of which the next numbers are still to be given.
Batch(batch) == /\ batch \in Seq(Column!RowData) /\ Len(batch) \in Nat \ {0}
                /\ serial + Len(batch) <= ColumnRows

\* What n values of the batch make of the columns: ds.
Filled(ds, old, batch, n) ==
    /\ Typed(ds)
    /\ \A c \in 1..Columns :
         /\ Len(ds[c]) = Len(old[c])
         /\ \A i \in 1..count : i <= Len(old[c]) => ds[c][i] = old[c][i]
         /\ \A r \in 1..Len(batch) :
              count + r <= Len(old[c]) /\ (r - 1) * Columns + c <= n
                => ds[c][count + r].row = serial + r

LEMMA WrittenIs ==
    ASSUME Column!ColumnAssumption, NEW old, Typed(old), NEW batch, Batch(batch),
           NEW n \in Nat, serial \in Nat, count \in Nat
    PROVE  Filled(Column!Written(old, batch, n), old, batch, n)
  <1> DEFINE w == Column!Written(old, batch, n)
  <1>0. /\ Columns \in Nat /\ ColumnRows \in Nat /\ DOMAIN batch = 1..Len(batch)
        /\ Len(batch) \in Nat
        /\ \A r \in 1..Len(batch) : /\ serial + r \in 0..ColumnRows
                                    /\ batch[r] \in Column!RowData
    BY DEF Batch, Column!ColumnAssumption
  <1>1. ASSUME NEW c \in 1..Columns
        PROVE  /\ w[c] \in Seq(Column!Cell) /\ Len(w[c]) = Len(old[c])
               /\ \A i \in DOMAIN w[c] : w[c][i].null => w[c][i].val = Null
               /\ \A i \in 1..count : i <= Len(old[c]) => w[c][i] = old[c][i]
               /\ \A r \in 1..Len(batch) :
                    count + r <= Len(old[c]) /\ (r - 1) * Columns + c <= n
                      => w[c][count + r].row = serial + r
    <2>1. /\ old[c] \in Seq(Column!Cell) /\ DOMAIN old[c] = 1..Len(old[c])
          /\ Len(old[c]) \in Nat
          /\ \A i \in 1..Len(old[c]) : old[c][i] \in Column!Cell
          /\ \A i \in 1..Len(old[c]) : old[c][i].null => old[c][i].val = Null
      BY DEF Typed
    <2> DEFINE L == Len(old[c])
               P(i) == i - count \in 1..Len(batch) /\ (i - count - 1) * Columns + c <= n
               New(i) == Column!Of(serial + (i - count), batch[i - count][c])
               f == [i \in 1..L |-> IF P(i) THEN New(i) ELSE old[c][i]]
    <2>2. w[c] = f
      BY <1>0, <2>1 DEF Column!Written, Column!Col
    <2>3. \A r \in 1..Len(batch) : batch[r][c] \in Value \cup {Null}
      BY <1>0 DEF Column!RowData, Column!Col
    <2>4. \A i \in 1..L : P(i) => /\ New(i) \in Column!Cell
                                  /\ New(i).row = serial + (i - count)
                                  /\ New(i).null => New(i).val = Null
      <3> SUFFICES ASSUME NEW i \in 1..L, i - count \in 1..Len(batch)
                   PROVE  /\ New(i) \in Column!Cell
                          /\ New(i).row = serial + (i - count)
                          /\ New(i).null => New(i).val = Null
        OBVIOUS
      <3>1. /\ serial + (i - count) \in 0..ColumnRows
            /\ batch[i - count][c] \in Value \cup {Null}
        BY <1>0, <2>3
      <3> QED BY <3>1, CellOf
    <2>5. \A i \in 1..L : f[i] = IF P(i) THEN New(i) ELSE old[c][i]
      OBVIOUS
    <2>6. f = [i \in 1..L |-> f[i]] /\ L \in Nat
      BY <2>1
    <2>7. \A i \in 1..count : ~P(i)
      OBVIOUS
    <2>8. \A r \in 1..Len(batch) : (r - 1) * Columns + c <= n => P(count + r)
      <3> SUFFICES ASSUME NEW r \in 1..Len(batch), (r - 1) * Columns + c <= n
                   PROVE  P(count + r)
        OBVIOUS
      <3>1. count + r - count = r
        OBVIOUS
      <3> QED BY <3>1
    <2> HIDE DEF f, P, New
    <2>9. \A i \in 1..L : f[i] \in Column!Cell /\ (f[i].null => f[i].val = Null)
      BY <2>1, <2>4, <2>5
    <2>10. f \in Seq(Column!Cell) /\ Len(f) = L /\ DOMAIN f = 1..L
      BY <2>6, <2>9, CellList
    <2>11. \A i \in 1..count : i <= L => f[i] = old[c][i]
      BY <2>5, <2>7
    <2>12. \A r \in 1..Len(batch) :
              count + r <= L /\ (r - 1) * Columns + c <= n => f[count + r].row = serial + r
      <3> SUFFICES ASSUME NEW r \in 1..Len(batch), count + r <= L, (r - 1) * Columns + c <= n
                   PROVE  f[count + r].row = serial + r
        OBVIOUS
      <3>1. count + r \in 1..L /\ P(count + r) /\ (count + r) - count = r
        BY <2>1, <2>8
      <3> QED BY <2>4, <2>5, <3>1
    <2> QED BY <2>2, <2>9, <2>10, <2>11, <2>12
  <1>2. w = [c \in 1..Columns |-> w[c]]
    BY DEF Column!Written, Column!Col
  <1> HIDE DEF w
  <1>3. Typed(w)
    BY <1>1, <1>2 DEF Typed
  <1>4. \A c \in 1..Columns :
           /\ Len(w[c]) = Len(old[c])
           /\ \A i \in 1..count : i <= Len(old[c]) => w[c][i] = old[c][i]
           /\ \A r \in 1..Len(batch) :
                count + r <= Len(old[c]) /\ (r - 1) * Columns + c <= n
                  => w[c][count + r].row = serial + r
    BY <1>1
  <1> QED BY <1>3, <1>4 DEF w, Filled

\* The capacity an insertion takes is enough, and it is the present one or more.
LEMMA NeededIsEnough ==
    ASSUME Column!ColumnAssumption, Column!TypeOK, capacity >= InitCap, NEW n \in Nat,
           count + n <= ColumnRows
    PROVE  /\ Column!Needed(n) \in Nat /\ Column!Needed(n) >= count + n
           /\ Column!Needed(n) >= capacity
  <1> DEFINE d == CHOOSE d : d = [j \in 0..ColumnRows |->
                                    IF j = 0 THEN 2 * capacity ELSE 2 * d[j - 1]]
             E == {j \in 0..ColumnRows : count + n <= d[j]}
             m == CHOOSE j \in 0..ColumnRows : /\ count + n <= d[j]
                                               /\ \A i \in 0..(j - 1) : ~(count + n <= d[i])
  <1>1. capacity \in Nat /\ capacity >= 1 /\ count \in Nat /\ ColumnRows \in Nat
    BY DEF Column!ColumnAssumption, Column!TypeOK
  <1>2. Column!Needed(n) = IF count + n <= capacity THEN capacity ELSE d[m]
    BY DEF Column!Needed
  <1>3. \A j \in 0..ColumnRows : d[j] \in Nat /\ d[j] >= 2 * capacity + j /\ d[j] >= 4 * j
    <2>1. 2 * capacity \in Nat /\ 2 * capacity >= 2
      BY <1>1
    <2>2. \E f : IsDoubling(f, 2 * capacity, ColumnRows)
      BY <1>1, <2>1, Doublings
    <2>3. d = CHOOSE f : IsDoubling(f, 2 * capacity, ColumnRows)
      BY DEF IsDoubling
    <2> HIDE DEF d
    <2>4. IsDoubling(d, 2 * capacity, ColumnRows)
      BY <2>2, <2>3
    <2> QED BY <1>1, <2>1, <2>4, Doublings
  <1> HIDE DEF d
  <1>4. ColumnRows \in E
    BY <1>1, <1>3
  <1>5. PICK k \in E : \A i \in E : k <= i
    <2>1. E \in SUBSET Nat
      OBVIOUS
    <2> HIDE DEF E
    <2> QED BY <1>4, <2>1, LeastNumber
  <1>6. /\ k \in 0..ColumnRows /\ count + n <= d[k]
        /\ \A i \in 0..(k - 1) : ~(count + n <= d[i])
    BY <1>1, <1>5
  <1>7. m \in 0..ColumnRows /\ count + n <= d[m]
    BY <1>6
  <1> HIDE DEF m, E
  <1>8. d[m] \in Nat /\ d[m] >= capacity
    BY <1>1, <1>3, <1>7
  <1> QED BY <1>1, <1>2, <1>7, <1>8

\* The rows that are kept: each number once, in order.
LEMMA KeptRows ==
    ASSUME count \in Nat
    PROVE  /\ Column!Kept \in Seq(1..count) /\ Ascends(Column!Kept)
           /\ ToSet(Column!Kept) = {i \in 1..count : ~Column!Deleted(i)}
           /\ Len(Column!Kept) <= count
  <1> DEFINE n == count
             Eq(f) == f = [i \in 0..n |-> IF i = 0 THEN <<>>
                                         ELSE IF Column!Deleted(i) THEN f[i - 1]
                                         ELSE Append(f[i - 1], i)]
             F == CHOOSE f : Eq(f)
             step == [i \in 1..n |-> [s \in Seq(Nat) |->
                        IF Column!Deleted(i) THEN s ELSE Append(s, i)]]
  <1>1. Column!Kept = F[n]
    BY DEF Column!Kept
  <1>2. \E f : Eq(f)
    <2>1. IsStep(step, n, Seq(Nat)) /\ <<>> \in Seq(Nat)
      BY DEF IsStep
    <2>2. PICK g : IsFold(g, <<>>, step, n, Seq(Nat))
      <3> HIDE DEF step
      <3> QED BY <2>1, Recursion
    <2>3. g \in [0..n -> Seq(Nat)] /\ g[0] = <<>> /\ \A i \in 1..n : g[i] = step[i][g[i - 1]]
      BY <2>2 DEF IsFold
    <2>4. \A i \in 1..n : g[i] = IF Column!Deleted(i) THEN g[i - 1] ELSE Append(g[i - 1], i)
      <3> SUFFICES ASSUME NEW i \in 1..n
                   PROVE  g[i] = IF Column!Deleted(i) THEN g[i - 1] ELSE Append(g[i - 1], i)
        OBVIOUS
      <3>1. i - 1 \in 0..n /\ g[i - 1] \in Seq(Nat)
        BY <2>3
      <3> QED BY <2>3, <3>1
    <2> DEFINE h == [i \in 0..n |-> IF i = 0 THEN <<>>
                                    ELSE IF Column!Deleted(i) THEN g[i - 1]
                                    ELSE Append(g[i - 1], i)]
    <2>5. ASSUME NEW i \in 0..n PROVE h[i] = g[i]
      <3>1. CASE i = 0
        BY <2>3, <3>1
      <3>2. CASE i # 0
        <4>1. i \in 1..n
          BY <3>2
        <4>2. h[i] = IF Column!Deleted(i) THEN g[i - 1] ELSE Append(g[i - 1], i)
          BY <3>2
        <4> QED BY <2>4, <4>1, <4>2
      <3> QED BY <3>1, <3>2
    <2>6. h = [i \in 0..n |-> h[i]] /\ g = [i \in 0..n |-> g[i]]
      BY <2>3
    <2> HIDE DEF h
    <2>7. g = h
      BY <2>5, <2>6
    <2>8. Eq(g)
      BY Zenon, <2>7 DEF h
    <2> QED BY <2>8
  <1>3. Eq(F)
    BY Zenon, <1>2
  <1> HIDE DEF F
  <1>4. /\ F[0] = <<>>
        /\ \A i \in 1..n : F[i] = IF Column!Deleted(i) THEN F[i - 1] ELSE Append(F[i - 1], i)
    <2> DEFINE h == [i \in 0..n |-> IF i = 0 THEN <<>>
                                    ELSE IF Column!Deleted(i) THEN F[i - 1]
                                    ELSE Append(F[i - 1], i)]
    <2>1. F = h
      BY <1>3
    <2>2. /\ h[0] = <<>>
          /\ \A i \in 1..n : h[i] = IF Column!Deleted(i) THEN F[i - 1] ELSE Append(F[i - 1], i)
      OBVIOUS
    <2> HIDE DEF h
    <2> QED BY <2>1, <2>2
  <1> DEFINE Good(s, m) == /\ s \in Seq(1..m) /\ Ascends(s) /\ Len(s) <= m
                           /\ ToSet(s) = {i \in 1..m : ~Column!Deleted(i)}
             T == {m \in 0..n : Good(F[m], m)}
  <1>5. 0 \in T
    <2>1. Good(<<>>, 0)
      BY DEF Ascends, ToSet
    <2> HIDE DEF Good
    <2> QED BY <1>4, <2>1
  <1>6. ASSUME NEW m \in 0..n, m \in T, m # n PROVE m + 1 \in T
    <2>1. m + 1 \in 1..n /\ (m + 1) - 1 = m /\ m \in Nat
      BY <1>6
    <2>2. F[m + 1] = IF Column!Deleted(m + 1) THEN F[m] ELSE Append(F[m], m + 1)
      BY <1>4, <2>1
    <2> DEFINE s == F[m]
               l == m + 1
    <2>3. Good(s, m)
      BY <1>6
    <2>4. s \in Seq(1..m) /\ Ascends(s) /\ Len(s) <= m /\ Len(s) \in Nat
          /\ ToSet(s) = {i \in 1..m : ~Column!Deleted(i)}
      BY <2>3
    <2> HIDE DEF s
    <2>5. s \in Seq(1..l) /\ s \in Seq(Nat)
      BY <2>1, <2>4
    <2>6. 1..l = 1..m \cup {l} /\ l \in Nat
      BY <2>1
    <2>7. CASE Column!Deleted(l)
      <3>1. ToSet(s) = {i \in 1..l : ~Column!Deleted(i)}
        BY <2>4, <2>6, <2>7
      <3>2. Len(s) <= l
        BY <2>1, <2>4
      <3>3. Good(s, l)
        BY <2>4, <2>5, <3>1, <3>2
      <3> HIDE DEF Good
      <3> QED BY <2>1, <2>2, <2>7, <3>3 DEF s
    <2>8. CASE ~Column!Deleted(l)
      <3> DEFINE t == Append(s, l)
      <3>1. t \in Seq(1..l) /\ Len(t) = Len(s) + 1
        BY <2>1, <2>5
      <3>2. \A y \in ToSet(s) : y < l
        BY <2>1, <2>4
      <3>3. Ascends(t)
        BY <2>4, <2>5, <2>6, <3>2, AppendAscends
      <3>4. ToSet(t) = ToSet(s) \cup {l}
        BY <2>5, <2>6, AppendElements
      <3> HIDE DEF t
      <3>5. ToSet(t) = {i \in 1..l : ~Column!Deleted(i)}
        BY <2>4, <2>6, <2>8, <3>4
      <3>6. Len(t) <= l
        BY <2>1, <2>4, <3>1
      <3>7. Good(t, l)
        BY <3>1, <3>3, <3>5, <3>6
      <3> HIDE DEF Good
      <3>8. F[m + 1] = t
        BY <2>2, <2>8 DEF s, t
      <3>9. m + 1 \in 0..n
        BY <2>1
      <3> QED BY <3>7, <3>8, <3>9
    <2> QED BY <2>7, <2>8
  <1>7. n \in T
    <2> HIDE DEF T
    <2>1. \A m \in 0..n : m \in T
      BY <1>5, <1>6, UpTo
    <2> QED BY <2>1
  <1> QED BY <1>1, <1>7

\* The last value of a row of the batch is one of its values.
LEMMA LastValue ==
    ASSUME NEW n \in Nat, NEW C \in Nat, NEW r \in 1..n, NEW c \in 1..C
    PROVE  (r - 1) * C + c <= n * C
  <1> DEFINE k == n - r
  <1>1. k \in Nat /\ n = (r - 1) + 1 + k /\ r - 1 \in Nat
    OBVIOUS
  <1>2. k * C \in Nat
    BY <1>1
  <1> HIDE DEF k
  <1>3. n * C = (r - 1) * C + C + k * C
    BY <1>1
  <1> QED BY <1>1, <1>2, <1>3

\* A column that is not dangling, and what its rows are.
LEMMA ColumnParts ==
    ASSUME Column!ColumnAssumption, ColumnInv
    PROVE  /\ Typed(cells)
           /\ capacity \in Nat
           /\ count \in Nat
           /\ serial \in Nat
           /\ nextId \in Nat
           /\ Columns \in Nat \ {0} /\ InitCap \in Nat \ {0} /\ ColumnRows \in Nat
           /\ count <= serial /\ nextId <= serial + 1 /\ nextId >= 1 /\ serial <= ColumnRows
           /\ capacity >= InitCap /\ dangling \in BOOLEAN
           /\ ~dangling =>
                /\ Aligned(cells, capacity, count, serial) /\ Numbered(cells, count)
                /\ count <= capacity
                /\ \A c \in 1..Columns : capacity <= Len(cells[c]) /\ Len(cells[c]) \in Nat
                /\ \A c \in 1..Columns : \A i \in 1..count : /\ i \in 1..Len(cells[c])
                                                             /\ cells[c][i].row \in Nat
  <1>1. /\ Typed(cells)
        /\ capacity \in Nat
        /\ count \in Nat
        /\ serial \in Nat
        /\ nextId \in Nat
        /\ Columns \in Nat \ {0} /\ InitCap \in Nat \ {0} /\ ColumnRows \in Nat
        /\ count <= serial /\ nextId <= serial + 1 /\ nextId >= 1 /\ serial <= ColumnRows
        /\ capacity >= InitCap /\ dangling \in BOOLEAN
    BY DEF ColumnInv, Column!ColumnAssumption, Column!TypeOK, Typed, Column!Col
  <1>2. ASSUME ~dangling PROVE Aligned(cells, capacity, count, serial)
    BY <1>2 DEF ColumnInv
  <1>3. ASSUME ~dangling, NEW c \in 1..Columns
        PROVE  capacity <= Len(cells[c]) /\ Len(cells[c]) \in Nat /\ count <= capacity
    BY <1>1, <1>2, <1>3 DEF Aligned, Typed
  <1>4. ASSUME ~dangling, NEW c \in 1..Columns, NEW i \in 1..count
        PROVE  i \in 1..Len(cells[c]) /\ cells[c][i].row \in Nat
    <2>1. i \in 1..Len(cells[c])
      BY <1>1, <1>3, <1>4
    <2>2. cells[c][i] \in Column!Cell
      BY <1>1, <2>1 DEF Typed
    <2>3. cells[c][i].row \in 0..ColumnRows
      BY <2>2 DEF Column!Cell
    <2> QED BY <1>1, <2>1, <2>3
  <1>5. 1 \in 1..Columns
    BY <1>1
  <1> QED BY <1>1, <1>2, <1>3, <1>4, <1>5 DEF Numbered

\* The invariant after a step, from what the step leaves.
LEMMA ColumnNext ==
    ASSUME Column!ColumnAssumption, Typed(cells'), capacity' \in Nat, capacity' >= InitCap,
           dangling' \in BOOLEAN,
           serial' \in 0..ColumnRows, count' \in Nat, count' <= serial',
           nextId' \in Nat, nextId' >= 1, nextId' <= serial' + 1,
           ~dangling' => Aligned(cells', capacity', count', serial')
    PROVE  ColumnInv'
  <1>1. /\ cells' \in [1..Columns -> Seq(Column!Cell)]
        /\ \A c \in 1..Columns : \A i \in DOMAIN cells'[c] :
              cells'[c][i].null => cells'[c][i].val = Null
    BY DEF Typed
  <1>2. ColumnRows \in Nat
    BY DEF Column!ColumnAssumption
  <1>3. count' \in 0..ColumnRows /\ nextId' \in 1..(ColumnRows + 1)
    <2>1. serial' \in Nat /\ serial' <= ColumnRows
      BY <1>2
    <2>2. \A x, y, z \in Nat : x <= y /\ y <= z => x \in 0..z
      OBVIOUS
    <2>3. \A x, y, z \in Nat : x >= 1 /\ x <= y + 1 /\ y <= z => x \in 1..(z + 1)
      OBVIOUS
    <2>4. count' \in 0..ColumnRows
      BY <1>2, <2>1, <2>2
    <2>5. nextId' \in 1..(ColumnRows + 1)
      BY <1>2, <2>1, <2>3
    <2> QED BY <2>4, <2>5
  <1>4. Column!TypeOK'
    BY <1>1, <1>3 DEF Column!TypeOK, Column!Col, Column!Cell
  <1> QED BY <1>4 DEF ColumnInv

\* Rows that are written behind the last one.
LEMMA AlignedAppend ==
    ASSUME NEW cs, NEW ds, NEW cp \in Nat, NEW ct \in Nat, NEW sr \in Nat, NEW n \in Nat,
           Columns \in Nat \ {0}, Aligned(cs, cp, ct, sr), ct <= sr, ct + n <= cp,
           Numbered(cs, ct),
           \A c \in 1..Columns : /\ Len(ds[c]) = Len(cs[c])
                                 /\ \A i \in 1..ct : ds[c][i] = cs[c][i]
                                 /\ \A r \in 1..n : ds[c][ct + r].row = sr + r
    PROVE  Aligned(ds, cp, ct + n, sr + n)
  <1>1. 1 \in 1..Columns
    OBVIOUS
  <1> DEFINE N(i) == IF i <= ct THEN cs[1][i].row ELSE sr + (i - ct)
  <1>2. ASSUME NEW c \in 1..Columns, NEW i \in 1..(ct + n) PROVE ds[c][i].row = N(i)
    <2>1. CASE i <= ct
      <3>1. i \in 1..ct
        BY <2>1
      <3>2. cs[c][i].row = cs[1][i].row
        BY <3>1 DEF Aligned
      <3> QED BY <2>1, <3>1, <3>2
    <2>2. CASE i > ct
      <3>1. i - ct \in 1..n /\ ct + (i - ct) = i /\ ~(i <= ct)
        BY <2>2
      <3>2. ds[c][ct + (i - ct)].row = sr + (i - ct)
        BY <3>1
      <3> QED BY <3>1, <3>2
    <2> QED BY <2>1, <2>2
  <1>3. \A i \in 1..ct : cs[1][i].row # 0 /\ cs[1][i].row <= sr
    BY DEF Aligned
  <1>4. \A i, j \in 1..ct : i < j => cs[1][i].row < cs[1][j].row
    BY DEF Aligned
  <1>5. \A i \in 1..(ct + n) : N(i) # 0 /\ N(i) <= sr + n
    BY <1>3 DEF Numbered
  <1>6. \A i, j \in 1..(ct + n) : i < j => N(i) < N(j)
    <2> SUFFICES ASSUME NEW i \in 1..(ct + n), NEW j \in 1..(ct + n), i < j PROVE N(i) < N(j)
      OBVIOUS
    <2>1. CASE j <= ct
      BY <1>4, <2>1
    <2>2. CASE i <= ct /\ ct < j
      BY <1>3, <2>2 DEF Numbered
    <2>3. CASE ct < i
      BY <2>3
    <2> QED BY <2>1, <2>2, <2>3
  <1> HIDE DEF N
  <1>7. \A c \in 1..Columns : cp <= Len(ds[c])
    BY DEF Aligned
  <1>8. \A c \in 1..Columns : \A i \in 1..(ct + n) : ds[c][i].row = ds[1][i].row
    BY <1>1, <1>2
  <1>9. \A i \in 1..(ct + n) : ds[1][i].row # 0 /\ ds[1][i].row <= sr + n
    BY <1>1, <1>2, <1>5
  <1>10. \A i, j \in 1..(ct + n) : i < j => ds[1][i].row < ds[1][j].row
    BY <1>1, <1>2, <1>6
  <1> QED BY <1>7, <1>8, <1>9, <1>10 DEF Aligned

\* column_engine_insert and column_engine_batch_insert.
LEMMA InsertionKeeps ==
    ASSUME Column!ColumnAssumption, ColumnInv, NEW batch, Batch(batch),
           NEW idsLost \in 0..Len(batch), Column!Insertion(batch, idsLost)
    PROVE  /\ ColumnInv' /\ RowsStay /\ ~dangling
           /\ count' = count \/ (count' = count + Len(batch) /\ ~dangling')
  <1> DEFINE L == Len(batch)
             cap == Column!Needed(L)
             all == L * Columns
             room == IF cap = capacity THEN cells ELSE Column!Expanded(Columns, cap)
  <1>1. /\ ~dangling /\ serial' = serial + L
        /\ \/ Column!ExpandFails(cap)
           \/ /\ cap = capacity \/ \A c \in Column!Col : Column!CanExpand(c, cap)
              /\ capacity' = cap
              /\ UNCHANGED dangling
              /\ \/ /\ cells' = Column!Written(room, batch, all)
                    /\ count' = count + L
                    /\ nextId' = nextId + L
                 \/ \E n \in 0..(all - 1) :
                       /\ cells' = Column!Written(room, batch, n)
                       /\ nextId' = nextId + idsLost
                       /\ UNCHANGED count
    BY DEF Column!Insertion
  <1>2. L \in Nat /\ L >= 1 /\ serial + L <= ColumnRows /\ idsLost \in 0..L
    BY DEF Batch
  <1>3. /\ Typed(cells)
        /\ capacity \in Nat
        /\ count \in Nat
        /\ serial \in Nat
        /\ nextId \in Nat
        /\ Columns \in Nat \ {0} /\ InitCap \in Nat \ {0} /\ ColumnRows \in Nat
        /\ count <= serial /\ nextId <= serial + 1 /\ nextId >= 1 /\ serial <= ColumnRows
        /\ capacity >= InitCap /\ dangling \in BOOLEAN
        /\ Aligned(cells, capacity, count, serial) /\ Numbered(cells, count)
        /\ count <= capacity
        /\ \A c \in 1..Columns : capacity <= Len(cells[c]) /\ Len(cells[c]) \in Nat
        /\ \A c \in 1..Columns : \A i \in 1..count : /\ i \in 1..Len(cells[c])
                                                     /\ cells[c][i].row \in Nat
    BY <1>1, ColumnParts
  <1>4. cap \in Nat /\ cap >= count + L /\ cap >= capacity
    <2>1. Column!TypeOK /\ count + L <= ColumnRows
      BY <1>2, <1>3 DEF ColumnInv
    <2> QED BY <1>2, <1>3, <2>1, NeededIsEnough
  <1> HIDE DEF L, cap
  <1>5. serial' \in 0..ColumnRows /\ serial' \in Nat /\ serial <= serial'
    BY <1>1, <1>2, <1>3
  <1>6. ASSUME Column!ExpandFails(cap) PROVE ColumnInv' /\ RowsStay /\ count' = count
    <2>1. PICK n \in 0..(Columns - 1) : /\ cells' = Column!Expanded(n, cap)
                                        /\ dangling' \in {FALSE, Column!CanExpand(n + 1, cap)}
      BY <1>6 DEF Column!ExpandFails
    <2>2. capacity' = capacity /\ count' = count /\ nextId' = nextId /\ cap > capacity
      BY <1>6 DEF Column!ExpandFails
    <2>3. n \in Nat
      BY <1>3, <2>1
    <2>4. Extended(cells', n, cap)
      BY <1>3, <1>4, <2>1, <2>3, ExpandedIs
    <2>5. dangling' \in BOOLEAN
      <3>1. (Len(cells[n + 1]) < cap) \in BOOLEAN
        OBVIOUS
      <3> QED BY <2>1, <3>1 DEF Column!CanExpand
    <2>6. ASSUME NEW c \in 1..Columns
          PROVE  /\ capacity <= Len(cells'[c])
                 /\ \A i \in 1..count : cells'[c][i] = cells[c][i]
      <3>1. /\ Len(cells'[c]) = IF c > n THEN Len(cells[c]) ELSE cap
            /\ \A i \in 1..Len(cells[c]) : i <= Len(cells'[c]) => cells'[c][i] = cells[c][i]
        BY <2>4 DEF Extended
      <3>2. /\ capacity <= Len(cells[c]) /\ Len(cells[c]) \in Nat
            /\ \A i \in 1..count : i \in 1..Len(cells[c])
        BY <1>3
      <3>3. capacity <= Len(cells'[c]) /\ Len(cells'[c]) \in Nat
        BY <1>3, <1>4, <3>1, <3>2
      <3>4. \A i \in 1..count : i <= Len(cells'[c])
        BY <1>3, <3>3
      <3> QED BY <3>1, <3>2, <3>3, <3>4
    <2>7. Keeps(cells, cells', capacity, count)
      BY <2>6 DEF Keeps
    <2>8. Aligned(cells', capacity, count, serial')
      BY <1>3, <1>5, <2>7, StaysAligned
    <2>9. Typed(cells')
      BY <2>4 DEF Extended
    <2>10. ~dangling' => Aligned(cells', capacity', count', serial')
      BY <2>2, <2>8
    <2>11. count' <= serial' /\ count' \in Nat /\ nextId' \in Nat /\ nextId' >= 1
           /\ nextId' <= serial' + 1 /\ capacity' \in Nat /\ capacity' >= InitCap
      BY <1>1, <1>2, <1>3, <2>2
    <2>12. RowsStay
      BY <2>6 DEF RowsStay
    <2> QED BY <1>5, <2>2, <2>5, <2>9, <2>10, <2>11, <2>12, ColumnNext
  <1>7. Typed(room) /\ \A c \in 1..Columns : /\ cap <= Len(room[c]) /\ Len(room[c]) \in Nat
                                             /\ \A i \in 1..count : room[c][i] = cells[c][i]
    <2>1. CASE cap = capacity
      BY <1>3, <2>1
    <2>2. CASE cap # capacity
      <3>1. Extended(room, Columns, cap)
        BY <1>3, <1>4, <2>2, ExpandedIs
      <3> HIDE DEF room
      <3>2. \A c \in 1..Columns : Len(room[c]) = cap
        BY <1>3, <3>1 DEF Extended
      <3> QED BY <1>3, <1>4, <3>1, <3>2 DEF Extended
    <2> QED BY <2>1, <2>2
  <1> HIDE DEF room
  <1>8. 1 \in 1..Columns
    BY <1>3
  <1>9. Aligned(room, cap, count, serial) /\ Numbered(room, count)
    <2>1. Keeps(cells, room, cap, count)
      BY <1>7 DEF Keeps
    <2>2. serial <= serial
      BY <1>3
    <2>3. Aligned(room, cap, count, serial)
      BY <1>3, <1>4, <2>1, <2>2, StaysAligned
    <2>4. Numbered(room, count)
      BY <1>3, <1>7, <1>8 DEF Numbered
    <2> QED BY <2>3, <2>4
  <1>10. ASSUME NEW n \in Nat
         PROVE  LET w == Column!Written(room, batch, n)
                IN  /\ Typed(w)
                    /\ \A c \in 1..Columns :
                         /\ Len(w[c]) = Len(room[c])
                         /\ \A i \in 1..count : w[c][i] = room[c][i]
                         /\ \A r \in 1..L : (r - 1) * Columns + c <= n
                              => w[c][count + r].row = serial + r
    <2> DEFINE w == Column!Written(room, batch, n)
    <2>1. Filled(w, room, batch, n)
      BY <1>3, <1>7, WrittenIs
    <2> HIDE DEF w
    <2>2. \A c \in 1..Columns : \A i \in 1..count : i <= Len(room[c])
      BY SMTT(30), <1>3, <1>4, <1>7
    <2>3. \A c \in 1..Columns : \A r \in 1..L : count + r <= Len(room[c])
      BY <1>2, <1>3, <1>4, <1>7
    <2>4. ASSUME NEW c \in 1..Columns
          PROVE  /\ Len(w[c]) = Len(room[c])
                 /\ \A i \in 1..count : w[c][i] = room[c][i]
                 /\ \A r \in 1..L : (r - 1) * Columns + c <= n
                      => w[c][count + r].row = serial + r
      BY <2>1, <2>2, <2>3 DEF L, Filled
    <2> QED BY <2>1, <2>4 DEF w, Filled
  <1>11. ASSUME cells' = Column!Written(room, batch, all), count' = count + L,
                nextId' = nextId + L, capacity' = cap, dangling' = dangling
         PROVE  ColumnInv' /\ RowsStay
    <2>1. all \in Nat
      BY <1>2, <1>3
    <2>2. /\ Typed(cells')
          /\ \A c \in 1..Columns :
               /\ Len(cells'[c]) = Len(room[c])
               /\ \A i \in 1..count : cells'[c][i] = room[c][i]
               /\ \A r \in 1..L : (r - 1) * Columns + c <= all
                    => cells'[c][count + r].row = serial + r
      BY <1>10, <1>11, <2>1
    <2>3. \A c \in 1..Columns : \A r \in 1..L : (r - 1) * Columns + c <= all
      BY <1>2, <1>3, LastValue
    <2> HIDE DEF all
    <2>4. \A c \in 1..Columns : /\ Len(cells'[c]) = Len(room[c])
                                /\ \A i \in 1..count : cells'[c][i] = room[c][i]
                                /\ \A r \in 1..L : cells'[c][count + r].row = serial + r
      BY <2>2, <2>3
    <2>5. Aligned(cells', cap, count + L, serial + L)
      BY <1>2, <1>3, <1>4, <1>9, <2>4, AlignedAppend
    <2>6. count' <= serial' /\ count' \in Nat /\ nextId' \in Nat /\ nextId' >= 1
          /\ nextId' <= serial' + 1
      BY <1>1, <1>2, <1>3, <1>11
    <2>7. capacity' \in Nat /\ capacity' >= InitCap
      BY <1>3, <1>4, <1>11
    <2>8. ~dangling' => Aligned(cells', capacity', count', serial')
      BY <1>1, <1>11, <2>5
    <2>9. RowsStay
      BY <1>7, <2>2 DEF RowsStay
    <2> QED BY <1>3, <1>5, <1>11, <2>2, <2>6, <2>7, <2>8, <2>9, ColumnNext
  <1>12. ASSUME NEW n \in 0..(all - 1), cells' = Column!Written(room, batch, n), count' = count,
                nextId' = nextId + idsLost, capacity' = cap, dangling' = dangling
         PROVE  ColumnInv' /\ RowsStay
    <2>1. n \in Nat
      BY <1>2, <1>3
    <2>2. /\ Typed(cells')
          /\ \A c \in 1..Columns :
               /\ Len(cells'[c]) = Len(room[c])
               /\ \A i \in 1..count : cells'[c][i] = room[c][i]
      BY <1>10, <1>12, <2>1
    <2>3. Keeps(room, cells', cap, count)
      BY <1>7, <2>2 DEF Keeps
    <2>4. Aligned(cells', cap, count, serial')
      BY <1>3, <1>4, <1>5, <1>9, <2>3, StaysAligned
    <2>5. count' <= serial' /\ count' \in Nat /\ nextId' \in Nat /\ nextId' >= 1
          /\ nextId' <= serial' + 1
      BY <1>1, <1>2, <1>3, <1>12
    <2>6. capacity' \in Nat /\ capacity' >= InitCap
      BY <1>3, <1>4, <1>12
    <2>7. ~dangling' => Aligned(cells', capacity', count', serial')
      BY <1>12, <2>4
    <2>8. RowsStay
      BY <1>7, <2>2 DEF RowsStay
    <2> QED BY <1>3, <1>5, <1>12, <2>2, <2>5, <2>6, <2>7, <2>8, ColumnNext
  <1>13. CASE Column!ExpandFails(cap)
    BY <1>1, <1>6, <1>13
  <1>14. ASSUME cells' = Column!Written(room, batch, all), count' = count + L,
                nextId' = nextId + L, capacity' = cap, dangling' = dangling
         PROVE  ColumnInv' /\ RowsStay /\ count' = count + Len(batch) /\ ~dangling'
    BY <1>1, <1>11, <1>14 DEF L
  <1> QED BY <1>1, <1>12, <1>13, <1>14

\* A row of a column is replaced by one that came at the same place.
LEMMA RowReplaced ==
    ASSUME NEW col \in Seq(Column!Cell), NEW id \in 1..Len(col), NEW x \in Column!Cell,
           x.row = col[id].row, x.null => x.val = Null,
           \A i \in DOMAIN col : col[i].null => col[i].val = Null
    PROVE  /\ [col EXCEPT ![id] = x] \in Seq(Column!Cell)
           /\ Len([col EXCEPT ![id] = x]) = Len(col)
           /\ \A i \in 1..Len(col) : [col EXCEPT ![id] = x][i].row = col[i].row
           /\ \A i \in DOMAIN [col EXCEPT ![id] = x] :
                 [col EXCEPT ![id] = x][i].null => [col EXCEPT ![id] = x][i].val = Null
  <1> DEFINE d == [col EXCEPT ![id] = x]
  <1>1. /\ d \in Seq(Column!Cell) /\ Len(d) = Len(col) /\ DOMAIN d = 1..Len(col)
        /\ DOMAIN col = 1..Len(col)
        /\ \A i \in 1..Len(col) : d[i] = IF i = id THEN x ELSE col[i]
    <2>1. ASSUME NEW S, col \in Seq(S), x \in S
          PROVE  /\ d \in Seq(S) /\ Len(d) = Len(col) /\ DOMAIN d = 1..Len(col)
                 /\ DOMAIN col = 1..Len(col)
                 /\ \A i \in 1..Len(col) : d[i] = IF i = id THEN x ELSE col[i]
      BY <2>1
    <2> HIDE DEF d
    <2> QED BY <2>1
  <1> HIDE DEF d
  <1>2. \A i \in 1..Len(col) : d[i].row = col[i].row
    BY <1>1
  <1>3. \A i \in DOMAIN d : d[i].null => d[i].val = Null
    BY <1>1
  <1> QED BY <1>1, <1>2, <1>3 DEF d

\* A step that leaves every row where it is.
LEMMA InPlace ==
    ASSUME Column!ColumnAssumption, ColumnInv, ~dangling,
           UNCHANGED <<capacity, count, nextId, dangling, serial>>,
           cells' = [c \in 1..Columns |-> cells'[c]],
           \A c \in 1..Columns :
             /\ cells'[c] \in Seq(Column!Cell) /\ Len(cells'[c]) = Len(cells[c])
             /\ \A i \in 1..Len(cells[c]) : cells'[c][i].row = cells[c][i].row
             /\ \A i \in DOMAIN cells'[c] : cells'[c][i].null => cells'[c][i].val = Null
    PROVE  ColumnInv'
  <1>1. /\ capacity \in Nat /\ count \in Nat /\ serial \in Nat /\ nextId \in Nat
        /\ Columns \in Nat \ {0} /\ InitCap \in Nat \ {0} /\ ColumnRows \in Nat
        /\ count <= serial /\ nextId <= serial + 1 /\ nextId >= 1 /\ serial <= ColumnRows
        /\ capacity >= InitCap /\ dangling \in BOOLEAN
        /\ Aligned(cells, capacity, count, serial) /\ Numbered(cells, count)
        /\ \A c \in 1..Columns : capacity <= Len(cells[c])
        /\ \A c \in 1..Columns : \A i \in 1..count : i \in 1..Len(cells[c])
    BY ColumnParts
  <1>2. Keeps(cells, cells', capacity, count)
    BY <1>1 DEF Keeps
  <1>3. serial <= serial /\ capacity <= capacity
    BY <1>1
  <1>4. Aligned(cells', capacity, count, serial)
    BY <1>1, <1>2, <1>3, StaysAligned
  <1>5. Typed(cells')
    BY DEF Typed
  <1>6. /\ capacity' \in Nat /\ capacity' >= InitCap
        /\ dangling' \in BOOLEAN
        /\ serial' \in 0..ColumnRows /\ count' \in Nat /\ count' <= serial'
        /\ nextId' \in Nat /\ nextId' >= 1 /\ nextId' <= serial' + 1
        /\ (~dangling' => Aligned(cells', capacity', count', serial'))
    BY <1>1, <1>4
  <1> QED BY <1>5, <1>6, ColumnNext

\* column_engine_update: each column has a new value, the old one, or, for the
\* column at which the update fails, none.
LEMMA UpdateKeeps ==
    ASSUME Column!ColumnAssumption, ColumnInv, NEW id \in 1..ColumnRows,
           NEW row \in Column!RowData, Column!Update(id, row)
    PROVE  /\ ColumnInv' /\ ~dangling /\ ~dangling' /\ count' = count
           /\ id \in 1..count /\ OthersStay(id)
  <1>1. PICK n \in 0..Columns :
          cells' = [c \in 1..Columns |->
                IF c <= n THEN [cells[c] EXCEPT ![id] = Column!Of(@.row, row[c])]
                ELSE IF c = n + 1 THEN [cells[c] EXCEPT ![id].val = Null]
                ELSE cells[c]]
    BY DEF Column!Update, Column!Col
  <1>2. ~dangling /\ id <= count /\ UNCHANGED <<capacity, count, nextId, dangling, serial>>
    BY DEF Column!Update, Column!Valid
  <1>3. /\ Typed(cells) /\ ColumnRows \in Nat /\ count \in Nat
        /\ \A c \in 1..Columns : \A i \in 1..count : i \in 1..Len(cells[c])
    BY <1>2, ColumnParts
  <1>4. id \in 1..count
    BY <1>2, <1>3
  <1>5. ASSUME NEW c \in 1..Columns
        PROVE  /\ cells'[c] \in Seq(Column!Cell) /\ Len(cells'[c]) = Len(cells[c])
               /\ \A i \in 1..Len(cells[c]) : cells'[c][i].row = cells[c][i].row
               /\ \A i \in DOMAIN cells'[c] : cells'[c][i].null => cells'[c][i].val = Null
    <2>1. /\ cells[c] \in Seq(Column!Cell) /\ id \in 1..Len(cells[c])
          /\ \A i \in DOMAIN cells[c] : cells[c][i].null => cells[c][i].val = Null
      BY <1>3, <1>4 DEF Typed
    <2> DEFINE old == cells[c][id]
    <2>2. old \in Column!Cell
      BY <2>1
    <2>3. old = [row |-> old.row, val |-> old.val, null |-> old.null]
          /\ old.row \in 0..ColumnRows /\ old.null \in BOOLEAN
      BY <2>2 DEF Column!Cell
    <2>4. row[c] \in Value \cup {Null}
      BY DEF Column!RowData, Column!Col
    <2> DEFINE x == Column!Of(old.row, row[c])
               y == [old EXCEPT !.val = Null]
    <2>5. x \in Column!Cell /\ x.row = old.row /\ (x.null => x.val = Null)
      BY <2>3, <2>4, CellOf
    <2>6. y \in Column!Cell /\ y.row = old.row /\ (y.null => y.val = Null)
      BY <2>3 DEF Column!Cell
    <2>7. CASE c <= n
      <3>1. cells'[c] = [cells[c] EXCEPT ![id] = x]
        BY <1>1, <2>7
      <3> HIDE DEF x, old
      <3> QED BY <2>1, <2>5, <3>1, RowReplaced DEF old
    <2>8. CASE c = n + 1
      <3>1. cells'[c] = [cells[c] EXCEPT ![id] = y]
        <4>1. ~(c <= n)
          BY <2>8
        <4>2. cells'[c] = [cells[c] EXCEPT ![id].val = Null]
          BY <1>1, <2>8, <4>1
        <4> QED BY <4>2
      <3> HIDE DEF y, old
      <3> QED BY <2>1, <2>6, <3>1, RowReplaced DEF old
    <2>9. CASE c > n + 1
      <3>1. cells'[c] = cells[c]
        BY <1>1, <2>9
      <3> QED BY <2>1, <3>1
    <2> QED BY <2>7, <2>8, <2>9
  <1>6. cells' = [c \in 1..Columns |-> cells'[c]]
    BY <1>1
  <1>7. OthersStay(id)
    <2> SUFFICES ASSUME NEW c \in 1..Columns, NEW i \in 1..count, i # id
                 PROVE  cells'[c][i] = cells[c][i]
      BY DEF OthersStay
    <2>1. i \in DOMAIN cells[c] /\ id \in DOMAIN cells[c]
      BY <1>3, <1>4 DEF Typed
    <2> QED BY <1>1, <2>1
  <1> QED BY <1>2, <1>4, <1>5, <1>6, <1>7, InPlace

\* column_engine_delete: the row stays, without values.
LEMMA DeleteKeeps ==
    ASSUME Column!ColumnAssumption, ColumnInv, NEW id \in 1..ColumnRows, Column!Delete(id)
    PROVE  /\ ColumnInv' /\ ~dangling /\ ~dangling' /\ count' = count
           /\ id \in 1..count /\ OthersStay(id)
  <1>1. cells' = [c \in 1..Columns |-> [cells[c] EXCEPT ![id] = Column!Of(@.row, Null)]]
    BY DEF Column!Delete, Column!Col
  <1>2. ~dangling /\ id <= count /\ UNCHANGED <<capacity, count, nextId, dangling, serial>>
    BY DEF Column!Delete, Column!Valid
  <1>3. /\ Typed(cells) /\ ColumnRows \in Nat /\ count \in Nat
        /\ \A c \in 1..Columns : \A i \in 1..count : i \in 1..Len(cells[c])
    BY <1>2, ColumnParts
  <1>4. id \in 1..count
    BY <1>2, <1>3
  <1>5. ASSUME NEW c \in 1..Columns
        PROVE  /\ cells'[c] \in Seq(Column!Cell) /\ Len(cells'[c]) = Len(cells[c])
               /\ \A i \in 1..Len(cells[c]) : cells'[c][i].row = cells[c][i].row
               /\ \A i \in DOMAIN cells'[c] : cells'[c][i].null => cells'[c][i].val = Null
    <2>1. /\ cells[c] \in Seq(Column!Cell) /\ id \in 1..Len(cells[c])
          /\ \A i \in DOMAIN cells[c] : cells[c][i].null => cells[c][i].val = Null
      BY <1>3, <1>4 DEF Typed
    <2> DEFINE old == cells[c][id]
               x == Column!Of(old.row, Null)
    <2>2. old \in Column!Cell
      BY <2>1
    <2>3. old.row \in 0..ColumnRows
      BY <2>2 DEF Column!Cell
    <2>4. x \in Column!Cell /\ x.row = old.row /\ (x.null => x.val = Null)
      BY <2>3, CellOf
    <2>5. cells'[c] = [cells[c] EXCEPT ![id] = x]
      BY <1>1
    <2> HIDE DEF x, old
    <2> QED BY <2>1, <2>4, <2>5, RowReplaced DEF old
  <1>6. cells' = [c \in 1..Columns |-> cells'[c]]
    BY <1>1
  <1>7. OthersStay(id)
    <2> SUFFICES ASSUME NEW c \in 1..Columns, NEW i \in 1..count, i # id
                 PROVE  cells'[c][i] = cells[c][i]
      BY DEF OthersStay
    <2>1. i \in DOMAIN cells[c] /\ id \in DOMAIN cells[c]
      BY <1>3, <1>4 DEF Typed
    <2> QED BY <1>1, <2>1
  <1> QED BY <1>2, <1>4, <1>5, <1>6, <1>7, InPlace

\* column_engine_optimize.
LEMMA OptimizeKeeps ==
    ASSUME Column!ColumnAssumption, ColumnInv, Column!Optimize
    PROVE  /\ ColumnInv' /\ ~dangling
           /\ count' = Len(Column!Kept)
           /\ \A c \in 1..Columns : \A i \in 1..Len(Column!Kept) :
                 cells'[c][i] = cells[c][Column!Kept[i]]
  <1> DEFINE keep == Column!Kept
             n == Len(keep)
             shrink == n < capacity \div 2
             cap == IF shrink THEN Column!Halved ELSE capacity
             Size(c) == IF shrink THEN cap ELSE Len(cells[c])
             From(i) == IF i <= n THEN keep[i] ELSE i
  <1>1. /\ ~dangling
        /\ cells' = [c \in 1..Columns |-> [i \in 1..Size(c) |-> cells[c][From(i)]]]
        /\ capacity' = cap /\ count' = n
        /\ nextId' = nextId /\ dangling' = dangling /\ serial' = serial
    BY DEF Column!Optimize, Column!Col
  <1>2. /\ Typed(cells)
        /\ capacity \in Nat
        /\ count \in Nat
        /\ serial \in Nat
        /\ nextId \in Nat
        /\ Columns \in Nat \ {0} /\ InitCap \in Nat \ {0} /\ ColumnRows \in Nat
        /\ count <= serial /\ nextId <= serial + 1 /\ nextId >= 1 /\ serial <= ColumnRows
        /\ capacity >= InitCap /\ dangling \in BOOLEAN
        /\ Aligned(cells, capacity, count, serial) /\ Numbered(cells, count)
        /\ count <= capacity
        /\ \A c \in 1..Columns : capacity <= Len(cells[c]) /\ Len(cells[c]) \in Nat
    BY <1>1, ColumnParts
  <1>3. /\ keep \in Seq(1..count) /\ n \in Nat /\ n <= count
        /\ \A i \in 1..n : keep[i] \in 1..count
        /\ \A i, j \in 1..n : i < j => keep[i] < keep[j]
    <2>1. keep \in Seq(1..count) /\ Ascends(keep) /\ n <= count
      BY <1>2, KeptRows
    <2> HIDE DEF keep
    <2>2. n \in Nat /\ DOMAIN keep = 1..n /\ \A i \in 1..n : keep[i] \in 1..count
      <3>1. ASSUME NEW S, keep \in Seq(S)
            PROVE  n \in Nat /\ DOMAIN keep = 1..n /\ \A i \in 1..n : keep[i] \in S
        BY <3>1
      <3> QED BY <2>1, <3>1
    <2>3. \A i, j \in 1..n : i < j => keep[i] < keep[j]
      BY <2>1, <2>2 DEF Ascends
    <2> QED BY <2>1, <2>2, <2>3
  <1>4. /\ cap \in Nat /\ cap >= InitCap /\ n <= cap /\ cap <= capacity
    <2>1. Column!Halved = IF capacity \div 2 < InitCap THEN InitCap ELSE capacity \div 2
      BY DEF Column!Halved
    <2>2. capacity \div 2 \in Nat /\ capacity \div 2 <= capacity
      BY <1>2
    <2> HIDE DEF n
    <2> QED BY <1>2, <1>3, <2>1, <2>2
  <1> HIDE DEF n, keep, cap, shrink
  <1>5. ASSUME NEW c \in 1..Columns
        PROVE  /\ Size(c) \in Nat /\ cap <= Size(c) /\ n <= Size(c)
               /\ \A i \in 1..Size(c) : From(i) \in 1..Len(cells[c])
    <2>0. capacity <= Len(cells[c]) /\ Len(cells[c]) \in Nat
      BY <1>2
    <2>1. Size(c) \in Nat /\ cap <= Size(c) /\ n <= Size(c) /\ Size(c) <= Len(cells[c])
      <3>1. CASE shrink
        BY <1>2, <1>3, <1>4, <2>0, <3>1
      <3>2. CASE ~shrink
        BY <1>2, <1>3, <1>4, <2>0, <3>2
      <3> QED BY <3>1, <3>2
    <2> HIDE DEF Size
    <2>2. \A i \in 1..Size(c) : From(i) \in 1..Len(cells[c])
      BY <1>2, <1>3, <2>1
    <2> QED BY <2>1, <2>2
  <1> HIDE DEF Size
  <1>6. ASSUME NEW c \in 1..Columns
        PROVE  /\ cells'[c] \in Seq(Column!Cell) /\ Len(cells'[c]) = Size(c)
               /\ \A i \in DOMAIN cells'[c] : cells'[c][i].null => cells'[c][i].val = Null
               /\ \A i \in 1..n : cells'[c][i] = cells[c][keep[i]]
    <2> DEFINE f == [i \in 1..Size(c) |-> cells[c][From(i)]]
    <2>1. cells'[c] = f
      BY <1>1
    <2>2. \A i \in 1..Size(c) : f[i] = cells[c][From(i)]
      OBVIOUS
    <2>3. f = [i \in 1..Size(c) |-> f[i]]
      OBVIOUS
    <2>4. \A i \in 1..n : From(i) = keep[i]
      BY <1>3
    <2> HIDE DEF f, From
    <2>5. /\ \A i \in 1..Len(cells[c]) : cells[c][i] \in Column!Cell
          /\ \A i \in 1..Len(cells[c]) : cells[c][i].null => cells[c][i].val = Null
      BY <1>2 DEF Typed
    <2>6. \A i \in 1..Size(c) : f[i] \in Column!Cell /\ (f[i].null => f[i].val = Null)
      BY <1>5, <2>2, <2>5
    <2>7. f \in Seq(Column!Cell) /\ Len(f) = Size(c) /\ DOMAIN f = 1..Size(c)
      BY <1>5, <2>3, <2>6, CellList
    <2>8. \A i \in 1..n : f[i] = cells[c][keep[i]]
      <3>1. \A i \in 1..n : i \in 1..Size(c)
        BY <1>3, <1>5
      <3> QED BY <2>2, <2>4, <3>1
    <2> QED BY <2>1, <2>6, <2>7, <2>8
  <1>7. Typed(cells')
    <2>1. cells' = [c \in 1..Columns |-> cells'[c]]
      BY <1>1
    <2> QED BY <1>6, <2>1 DEF Typed
  <1>8. 1 \in 1..Columns
    BY <1>2
  <1>9. Aligned(cells', cap, n, serial)
    <2>1. \A c \in 1..Columns : cap <= Len(cells'[c])
      BY <1>5, <1>6
    <2>2. \A c \in 1..Columns : \A i \in 1..n : cells'[c][i].row = cells[1][keep[i]].row
      <3> SUFFICES ASSUME NEW c \in 1..Columns, NEW i \in 1..n
                   PROVE  cells'[c][i].row = cells[1][keep[i]].row
        OBVIOUS
      <3>1. cells'[c][i] = cells[c][keep[i]]
        BY <1>6
      <3>2. keep[i] \in 1..count
        BY <1>3
      <3>3. cells[c][keep[i]].row = cells[1][keep[i]].row
        BY <1>2, <3>2 DEF Aligned
      <3> QED BY <3>1, <3>3
    <2>3. \A i \in 1..n : cells'[1][i].row # 0 /\ cells'[1][i].row <= serial
      BY ZenonT(60), <1>2, <1>3, <1>8, <2>2 DEF Aligned
    <2>4. \A i, j \in 1..n : i < j => cells'[1][i].row < cells'[1][j].row
      BY <1>2, <1>3, <1>8, <2>2 DEF Aligned
    <2> QED BY <1>4, <1>8, <2>1, <2>2, <2>3, <2>4 DEF Aligned
  <1>10. /\ capacity' \in Nat /\ capacity' >= InitCap
         /\ dangling' \in BOOLEAN
         /\ serial' \in 0..ColumnRows /\ count' \in Nat /\ count' <= serial'
         /\ nextId' \in Nat /\ nextId' >= 1 /\ nextId' <= serial' + 1
         /\ (~dangling' => Aligned(cells', capacity', count', serial'))
    BY <1>1, <1>2, <1>3, <1>4, <1>9
  <1>11. ColumnInv'
    BY <1>7, <1>10, ColumnNext
  <1> QED BY <1>1, <1>6, <1>11 DEF n, keep

LEMMA ColumnStep ==
    ASSUME Column!ColumnAssumption, ColumnInv, Column!Next
    PROVE  ColumnInv'
  <1>1. ASSUME NEW row \in Column!RowData, Column!Insert(row) PROVE ColumnInv'
    <2>1. Column!Insertion(<<row>>, 1)
      BY <1>1 DEF Column!Insert
    <2>2. <<row>> \in Seq(Column!RowData) /\ Len(<<row>>) = 1
      OBVIOUS
    <2>3. serial + Len(<<row>>) <= ColumnRows
      BY <2>1 DEF Column!Insertion
    <2>4. Batch(<<row>>) /\ 1 \in 0..Len(<<row>>)
      BY <2>2, <2>3 DEF Batch
    <2> QED BY <2>1, <2>4, InsertionKeeps
  <1>2. ASSUME NEW n \in 1..MaxBatch, NEW batch \in [1..n -> Column!RowData],
               Column!BatchInsert(batch)
        PROVE  ColumnInv'
    <2>1. Column!Insertion(batch, 0)
      BY <1>2 DEF Column!BatchInsert
    <2>2. n \in Nat \ {0}
      BY DEF Column!ColumnAssumption
    <2>3. batch \in Seq(Column!RowData) /\ Len(batch) = n
      BY <2>2
    <2>4. serial + Len(batch) <= ColumnRows
      BY <2>1 DEF Column!Insertion
    <2>5. Batch(batch) /\ 0 \in 0..Len(batch)
      BY <2>2, <2>3, <2>4 DEF Batch
    <2> QED BY <2>1, <2>5, InsertionKeeps
  <1> QED BY <1>1, <1>2, UpdateKeeps, DeleteKeeps, OptimizeKeeps DEF Column!Next

LEMMA ColumnInit ==
    ASSUME Column!ColumnAssumption, Column!Init
    PROVE  ColumnInv
  <1>1. /\ cells = [c \in 1..Columns |-> [i \in 1..InitCap |-> Column!Blank]]
        /\ capacity = InitCap /\ count = 0 /\ nextId = 1 /\ dangling = FALSE /\ serial = 0
    BY DEF Column!Init, Column!Col
  <1>2. InitCap \in Nat \ {0} /\ ColumnRows \in Nat /\ Columns \in Nat \ {0}
    BY DEF Column!ColumnAssumption
  <1> DEFINE f == [i \in 1..InitCap |-> Column!Blank]
  <1>3. f \in Seq(Column!Cell) /\ Len(f) = InitCap /\ DOMAIN f = 1..InitCap
        /\ \A i \in 1..InitCap : ~f[i].null
    <2>1. Column!Blank \in Column!Cell /\ ~Column!Blank.null
      BY <1>2 DEF Column!Cell, Column!Blank
    <2>2. f = [i \in 1..InitCap |-> f[i]] /\ \A i \in 1..InitCap : f[i] = Column!Blank
      OBVIOUS
    <2> HIDE DEF f
    <2>3. \A i \in 1..InitCap : f[i] \in Column!Cell
      BY <2>1, <2>2
    <2> QED BY <1>2, <2>1, <2>2, <2>3, CellList
  <1>4. \A c \in 1..Columns : cells[c] = f
    BY <1>1
  <1>5. cells = [c \in 1..Columns |-> cells[c]]
    BY <1>1
  <1> HIDE DEF f
  <1>6. /\ cells \in [1..Columns -> Seq(Column!Cell)]
        /\ \A c \in 1..Columns : \A i \in DOMAIN cells[c] :
              cells[c][i].null => cells[c][i].val = Null
    BY <1>3, <1>4, <1>5
  <1>7. Column!TypeOK
    <2>1. capacity \in Nat /\ count \in 0..ColumnRows /\ nextId \in 1..(ColumnRows + 1)
          /\ serial \in 0..ColumnRows
      BY <1>1, <1>2
    <2>2. dangling \in BOOLEAN
      BY <1>1
    <2> QED BY <1>6, <2>1, <2>2 DEF Column!TypeOK, Column!Col, Column!Cell
  <1>8. Aligned(cells, capacity, count, serial)
    <2>1. \A c \in 1..Columns : InitCap <= Len(cells[c])
      BY <1>2, <1>3, <1>4
    <2> QED BY <1>1, <1>2, <2>1 DEF Aligned
  <1> QED BY <1>1, <1>2, <1>7, <1>8 DEF ColumnInv
=============================================================================
