---------------------------- MODULE FilesProofs -----------------------------
(* Proofs about what reaches a file, for any sizes, limits, numbers, names and *)
(* times: the events of the binary log stay in the order they were written    *)
(* and pruning takes the oldest of them only, a name and type in the catalogue *)
(* mean one object, and what was accepted stays: the records of the audit log, *)
(* the lines of the log, the entries of the LSM tree, the backups that were   *)
(* found, and the settings.                                                   *)
EXTENDS MCFiles, SequenceLemmas

filesVars == <<subject, dataVars, recordVars, clockVars>>

-----------------------------------------------------------------------------
(* The binary log.                                                            *)

Second == 0..LogTime

\* The events of the files ascend, from the oldest file to the newest.
DiskAscends ==
    \A t \in Second :
       /\ Ascends(disk[t])
       /\ \A u \in Second : t < u => \A x \in ToSet(disk[t]), y \in ToSet(disk[u]) : x < y

\* No event has the next id, and nothing was written to a file later than the
\* current one.
NothingLater ==
    /\ \A t \in Second : \A x \in ToSet(disk[t]) : x < nextId
    /\ \A j \in DOMAIN acked : acked[j] < nextId
    /\ \A t \in Second : t > now => disk[t] = <<>>
    /\ cur # NoFile => /\ cur.name <= now /\ cur.first <= nextId
                       /\ \A t \in Second : t > cur.name => disk[t] = <<>>

\* The list has the files in the order of their names, the current one last.
ListAscends ==
    \A i \in DOMAIN binlogs :
       /\ binlogs[i].name <= now
       /\ cur # NoFile => binlogs[i].name <= cur.name
       /\ \A j \in DOMAIN binlogs : i < j => binlogs[i].name <= binlogs[j].name

\* A file of d has event x.
IsOn(d, x) == \E t \in Second : x \in ToSet(d[t])

\* While each file has a name of its own.
OwnNames ==
    ~shared =>
       /\ ~lost
       /\ \A i \in DOMAIN binlogs :
             /\ cur # NoFile /\ cur.open => binlogs[i].name # cur.name
             /\ \A x \in ToSet(disk[binlogs[i].name]) : binlogs[i].first - 1 <= x /\ x <= binlogs[i].last
       /\ cur # NoFile => \A x \in ToSet(disk[cur.name]) : cur.first - 1 <= x /\ x <= cur.last
       /\ \A n \in Log!Names : \A x \in ToSet(disk[n]), j \in DOMAIN acked :
             x < acked[j] => IsOn(disk, acked[j])

BinlogInv == Log!TypeOK /\ DiskAscends /\ NothingLater /\ ListAscends /\ OwnNames

\* The log is empty at first.
LEMMA BinlogInit ==
    ASSUME Log!BinlogAssumption, Log!Init
    PROVE  BinlogInv
  <1> USE DEF Log!BinlogAssumption
  <1>1. Log!TypeOK
    <2>1. disk \in [0..LogTime -> Seq(1..MaxEvents)]
      BY DEF Log!Init
    <2>2. nextId \in 1..(MaxEvents + 1) /\ now \in 0..LogTime
      BY DEF Log!Init
    <2>3. binlogs \in Seq(Log!File)
      BY DEF Log!Init
    <2>4. acked \in Seq(1..MaxEvents)
      BY DEF Log!Init
    <2>5. role \in Roles /\ running \in BOOLEAN /\ cur = NoFile /\ lost \in BOOLEAN
      BY Zenon DEF Log!Init
    <2>6. /\ state \in {"INIT", "CONNECTING", "RUNNING", "ERROR", "STOPPED"}
          /\ shared \in BOOLEAN /\ proc \in {"ok", "ended", "aborted"}
      BY Zenon DEF Log!Init
    <2>7. unlisted \in BOOLEAN
      BY Zenon DEF Log!Init
    <2> QED BY <2>1, <2>2, <2>3, <2>4, <2>5, <2>6, <2>7 DEF Log!TypeOK
  <1>2. \A t \in Second : disk[t] = <<>>
    BY DEF Log!Init, Second
  <1>3. DiskAscends /\ NothingLater
    BY <1>2 DEF DiskAscends, NothingLater, Ascends, ToSet, Log!Init, Second
  <1>4. ListAscends
    BY DEF ListAscends, Log!Init
  <1>5. OwnNames
    BY <1>2 DEF OwnNames, Log!Init, ToSet, Second
  <1> QED BY <1>1, <1>3, <1>4, <1>5 DEF BinlogInv

\* What the steps below need of the types.
LEMMA BinlogTypes ==
    ASSUME Log!BinlogAssumption, Log!TypeOK
    PROVE  /\ LogTime \in Nat /\ MaxEvents \in Nat /\ MaxFiles \in Nat
           /\ now \in Second /\ now \in Nat /\ nextId \in Nat \ {0}
           /\ disk \in [Second -> Seq(Nat)]
           /\ \A t \in Second : t \in Nat /\ ToSet(disk[t]) \subseteq Nat
           /\ acked \in Seq(Nat)
           /\ binlogs \in Seq(Log!File)
           /\ \A i \in DOMAIN binlogs : /\ binlogs[i] \in Log!File /\ binlogs[i].name \in Second
                                       /\ binlogs[i].first \in Nat /\ binlogs[i].last \in Nat
           /\ cur # NoFile => /\ cur \in Log!File /\ cur.name \in Second
                              /\ cur.first \in Nat /\ cur.last \in Nat /\ cur.size \in Nat
  <1> USE DEF Log!BinlogAssumption, Log!TypeOK, Second
  <1>1. disk \in [Second -> Seq(Nat)]
    OBVIOUS
  <1>2. \A t \in Second : t \in Nat /\ ToSet(disk[t]) \subseteq Nat
    BY <1>1 DEF ToSet
  <1>3. acked \in Seq(Nat)
    OBVIOUS
  <1>4. \A f \in Log!File : /\ f.name \in Second /\ f.first \in Nat
                            /\ f.last \in Nat /\ f.size \in Nat
    BY DEF Log!File
  <1>5. \A i \in DOMAIN binlogs : binlogs[i] \in Log!File
    OBVIOUS
  <1> QED BY <1>1, <1>2, <1>3, <1>4, <1>5

\* A file is opened, the one of this second.
LEMMA BinlogOpens ==
    ASSUME Log!BinlogAssumption, BinlogInv, Log!TypeOK',
           cur' = Log!Opened(Len(disk[now])), lost' = FALSE, shared' = (shared \/ Log!Named),
           UNCHANGED <<binlogs, nextId, now, disk, acked>>
    PROVE  BinlogInv'
  <1> USE DEF BinlogInv
  <1>1. cur'.name = now /\ cur'.first = nextId /\ cur'.last = 0
    BY DEF Log!Opened
  <1>2. DiskAscends'
    BY DEF DiskAscends
  <1>3. NothingLater'
    BY <1>1, BinlogTypes DEF NothingLater
  <1>4. ListAscends'
    BY <1>1, BinlogTypes DEF ListAscends
  <1>5. OwnNames'
    <2> SUFFICES ASSUME ~shared' PROVE OwnNames'
      BY DEF OwnNames
    <2>0. ~shared /\ ~Log!Named
      BY Zenon
    <2>1. ~shared /\ disk[now] = <<>> /\ ToSet(disk[now]) = {} /\ now \notin Log!Names
      BY <2>0 DEF Log!Named, ToSet
    <2>2. \A i \in DOMAIN binlogs : binlogs[i].name # now
      BY <2>1 DEF Log!Names
    <2>3. Log!Names' \subseteq Log!Names \cup {now}
      BY <1>1 DEF Log!Names
    <2>4. \A x : IsOn(disk, x) <=> IsOn(disk', x)
      BY DEF IsOn
    <2> QED BY <1>1, <2>1, <2>2, <2>3, <2>4 DEF OwnNames
  <1> QED BY <1>2, <1>3, <1>4, <1>5

\* An event goes to the current file, or to one that was removed.
LEMMA BinlogWrites ==
    ASSUME Log!BinlogAssumption, BinlogInv, Log!TypeOK', Log!Write
    PROVE  BinlogInv'
  <1> USE DEF BinlogInv
  <1> DEFINE n == cur.name
  <1>1. /\ cur # NoFile /\ cur.open /\ n \in Second
        /\ nextId' = nextId + 1 /\ acked' = Append(acked, nextId)
        /\ cur' = [cur EXCEPT !.size = @ + 1, !.last = nextId]
        /\ disk' = IF lost THEN disk ELSE [disk EXCEPT ![n] = Append(@, nextId)]
        /\ UNCHANGED <<binlogs, now, lost, shared>>
    BY BinlogTypes DEF Log!Write, Log!TakeId, Log!CanWrite, Log!Record
  <1>2. /\ cur' \in Log!File /\ cur'.name = n /\ cur'.first = cur.first /\ cur'.last = nextId
        /\ cur'.open = cur.open
    <2>1. cur \in Log!File /\ nextId \in Nat
      BY <1>1, BinlogTypes
    <2>2. cur' = [name |-> n, open |-> cur.open, named |-> cur.named, size |-> cur.size + 1,
                  first |-> cur.first, last |-> nextId]
      BY Zenon, <1>1, <2>1 DEF Log!File
    <2> QED BY <2>1, <2>2 DEF Log!File
  <1>3. /\ ~lost => disk'[n] = Append(disk[n], nextId) /\ ToSet(disk'[n]) = ToSet(disk[n]) \cup {nextId}
        /\ \A t \in Second : t # n \/ lost => disk'[t] = disk[t]
    <2>1. disk[n] \in Seq(Nat) /\ nextId \in Nat
      BY Zenon, <1>1, BinlogTypes
    <2>2. ~lost => disk'[n] = Append(disk[n], nextId)
      BY Zenon, <1>1, BinlogTypes
    <2>3. ToSet(Append(disk[n], nextId)) = ToSet(disk[n]) \cup {nextId}
      BY <2>1, AppendElements
    <2>4. \A t \in Second : t # n \/ lost => disk'[t] = disk[t]
      BY Zenon, <1>1, BinlogTypes
    <2> QED BY Zenon, <2>2, <2>3, <2>4
  <1>8. \A t \in Second : /\ ToSet(disk[t]) \subseteq ToSet(disk'[t])
                           /\ \A x \in ToSet(disk'[t]) : x \in ToSet(disk[t]) \/ (x = nextId /\ t = n)
    BY <1>3
  <1>9. /\ acked' \in Seq(Nat) /\ nextId \in Nat
        /\ \A j \in DOMAIN acked' : acked'[j] = nextId \/ (j \in DOMAIN acked /\ acked'[j] = acked[j])
    <2>1. acked \in Seq(Nat) /\ nextId \in Nat
      BY BinlogTypes
    <2>2. \A q \in Seq(Nat), e \in Nat :
             /\ Append(q, e) \in Seq(Nat)
             /\ \A j \in DOMAIN Append(q, e) : \/ Append(q, e)[j] = e
                                                \/ (j \in DOMAIN q /\ Append(q, e)[j] = q[j])
      OBVIOUS
    <2> QED BY <1>1, <2>1, <2>2
  <1>4. DiskAscends'
    <2> SUFFICES ASSUME NEW t \in Second
                 PROVE  /\ Ascends(disk'[t])
                        /\ \A u \in Second : t < u =>
                              \A x \in ToSet(disk'[t]), y \in ToSet(disk'[u]) : x < y
      BY DEF DiskAscends
    <2>1. Ascends(disk'[t])
      <3>1. CASE t = n /\ ~lost
        <4>1. disk'[t] = Append(disk[t], nextId) /\ disk[t] \in Seq(Nat)
          BY Zenon, <1>1, <3>1, BinlogTypes
        <4> QED BY <4>1, BinlogTypes, AppendAscends DEF DiskAscends, NothingLater
      <3>2. CASE ~(t = n /\ ~lost)
        <4>1. disk'[t] = disk[t]
          BY <1>1, <3>2, BinlogTypes
        <4> QED BY <4>1 DEF DiskAscends
      <3> QED BY <3>1, <3>2
    <2>2. ASSUME NEW u \in Second, t < u, NEW x \in ToSet(disk'[t]), NEW y \in ToSet(disk'[u])
          PROVE  x < y
      <3>1. CASE x \in ToSet(disk[t]) /\ y \in ToSet(disk[u])
        BY <2>2, <3>1 DEF DiskAscends
      <3>2. CASE x \in ToSet(disk[t]) /\ y = nextId
        BY <3>2 DEF NothingLater
      <3>3. CASE x = nextId /\ t = n
        <4>1. u # n /\ u > n
          <5>1. u \in Nat /\ t \in Nat
            BY BinlogTypes
          <5> HIDE DEF n
          <5> QED BY <2>2, <3>3, <5>1
        <4>2. disk[u] = <<>> /\ y \in ToSet(disk[u])
          BY <2>2, <4>1, <1>1, <1>3 DEF NothingLater
        <4> QED BY <4>2 DEF ToSet
      <3> QED BY <3>1, <3>2, <3>3, <1>8, <2>2
    <2> QED BY <2>1, <2>2
  <1>5. NothingLater'
    <2>1. ASSUME NEW t \in Second, NEW x \in ToSet(disk'[t])
          PROVE  x < nextId'
      <3>1. x \in ToSet(disk[t]) \/ x = nextId
        BY <1>8, <2>1
      <3>2. x \in ToSet(disk[t]) => x \in Nat /\ x < nextId
        BY BinlogTypes DEF NothingLater
      <3> QED BY SMTT(30), <1>1, <3>1, <3>2, BinlogTypes
    <2>2. \A j \in DOMAIN acked' : acked'[j] < nextId'
      <3>1. acked' \in Seq(Nat) /\ nextId \in Nat
            /\ \A j \in DOMAIN acked' : acked'[j] = nextId \/ (j \in DOMAIN acked /\ acked'[j] = acked[j])
        BY <1>9
      <3>2. \A j \in DOMAIN acked : acked[j] < nextId
        BY DEF NothingLater
      <3>3. \A j \in DOMAIN acked' : acked'[j] \in Nat
        BY <3>1
      <3> QED BY <1>1, <3>1, <3>2, <3>3
    <2>3. \A t \in Second : t # n => disk'[t] = disk[t]
      BY <1>1, BinlogTypes
    <2>4. \A t \in Second : (t > now \/ t > n) => t # n
      <3>1. n <= now /\ n \in Nat /\ now \in Nat /\ \A t \in Second : t \in Nat
        BY Zenon, <1>1, BinlogTypes DEF NothingLater
      <3> HIDE DEF n
      <3> QED BY <3>1
    <2>5. \A t \in Second : t > now \/ t > n => disk'[t] = <<>>
      BY <1>1, <2>3, <2>4 DEF NothingLater
    <2>6. cur'.name <= now /\ cur'.first <= nextId'
      BY <1>1, <1>2, BinlogTypes DEF NothingLater
    <2> QED BY <1>1, <1>2, <2>1, <2>2, <2>5, <2>6 DEF NothingLater
  <1>6. ListAscends'
    BY <1>1, <1>2 DEF ListAscends
  <1>7. OwnNames'
    <2> SUFFICES ASSUME ~shared' PROVE OwnNames'
      BY DEF OwnNames
    <2>1. ~shared /\ ~lost
      BY <1>1 DEF OwnNames
    <2>2. \A i \in DOMAIN binlogs : binlogs[i].name # n
      BY <1>1, <2>1 DEF OwnNames
    <2>3. Log!Names' \subseteq Log!Names
      BY <1>1, <1>2 DEF Log!Names
    <2>4. \A x : IsOn(disk, x) => IsOn(disk', x)
      BY <1>8 DEF IsOn
    <2>5. IsOn(disk', nextId)
      <3>1. nextId \in ToSet(disk'[n])
        BY <1>1, <1>3, <2>1
      <3> QED BY <1>1, <3>1 DEF IsOn
    <2>6. \A x \in ToSet(disk[n]) : cur.first - 1 <= x /\ x < nextId
      BY <1>1, <2>1 DEF OwnNames, NothingLater
    <2>7. ASSUME NEW x \in ToSet(disk'[n])
          PROVE  cur'.first - 1 <= x /\ x <= cur'.last
      <3>1. x \in ToSet(disk[n]) \/ x = nextId
        BY <1>1, <1>8
      <3>2. cur.first \in Nat /\ nextId \in Nat /\ cur.first <= nextId /\ ToSet(disk[n]) \subseteq Nat
        BY Zenon, <1>1, BinlogTypes DEF NothingLater
      <3> QED BY <1>2, <2>6, <3>1, <3>2
    <2>8. ASSUME NEW m \in Log!Names', NEW x \in ToSet(disk'[m]), NEW j \in DOMAIN acked', x < acked'[j]
          PROVE  IsOn(disk', acked'[j])
      <3>1. m \in Second
        BY Zenon, <1>1, <2>3, BinlogTypes DEF Log!Names
      <3>2. CASE acked'[j] = nextId
        BY <3>2, <2>5
      <3>3. CASE acked'[j] # nextId
        <4>1. j \in DOMAIN acked /\ acked'[j] = acked[j] /\ acked[j] < nextId
          BY <1>9, <2>8, <3>3 DEF NothingLater
        <4>2. x \in ToSet(disk[m])
          <5>1. x \in ToSet(disk[m]) \/ x = nextId
            BY <1>8, <2>8, <3>1
          <5>2. acked[j] \in Nat /\ nextId \in Nat
            BY <4>1, BinlogTypes
          <5> QED BY <2>8, <4>1, <5>1, <5>2
        <4>3. IsOn(disk, acked[j])
          BY <2>1, <2>3, <2>8, <4>1, <4>2 DEF OwnNames
        <4> QED BY <4>1, <4>3, <2>4
      <3> QED BY <3>2, <3>3
    <2> QED BY Zenon, <1>1, <1>2, <1>3, <2>1, <2>2, <2>3, <2>7, <2>8, BinlogTypes DEF OwnNames
  <1> QED BY <1>4, <1>5, <1>6, <1>7

\* The list with the file that was closed, and without the oldest if it is long.
LEMMA BinlogLists ==
    ASSUME Log!BinlogAssumption, BinlogInv, cur # NoFile
    PROVE  /\ Log!Listed \in Seq(Log!File) /\ Len(Log!Listed) # 0
           /\ \A i, j \in DOMAIN Log!Listed :
                 i <= j => Log!Listed[i].name <= Log!Listed[j].name
           /\ \A i \in DOMAIN Log!Listed :
                 /\ Log!Listed[i].name \in Log!Names
                 /\ Log!Listed[i].name \in Second /\ Log!Listed[i].name <= now
                 /\ ~shared => \A x \in ToSet(disk[Log!Listed[i].name]) :
                       Log!Listed[i].first - 1 <= x /\ x <= Log!Listed[i].last
  <1> USE DEF BinlogInv
  <1> DEFINE closed == [cur EXCEPT !.open = FALSE]
             n == Len(binlogs)
  <1>1. cur \in Log!File /\ binlogs \in Seq(Log!File) /\ n \in Nat
    BY BinlogTypes
  <1>2. /\ closed \in Log!File /\ closed.name = cur.name /\ closed.first = cur.first
        /\ closed.last = cur.last
    BY Zenon, <1>1 DEF Log!File
  <1>3. /\ Log!Listed \in Seq(Log!File) /\ DOMAIN Log!Listed = 1..(n + 1)
        /\ Len(Log!Listed) = n + 1
        /\ \A i \in 1..n : Log!Listed[i] = binlogs[i]
        /\ Log!Listed[n + 1] = closed
    BY <1>1, <1>2 DEF Log!Listed
  <1>4. \A i \in 1..(n + 1) : i \in 1..n \/ i = n + 1
    BY <1>1
  <1>5. \A i \in 1..n : i \in DOMAIN binlogs
    BY <1>1
  <1> HIDE DEF closed, n
  <1>6. ASSUME NEW i \in 1..(n + 1), NEW j \in 1..(n + 1), i <= j
        PROVE  Log!Listed[i].name <= Log!Listed[j].name
    <2>1. CASE j \in 1..n
      <3>1. i \in 1..n
        BY <1>6, <2>1, <1>1
      <3>2. CASE i = j
        <4>1. Log!Listed[j] = binlogs[j] /\ binlogs[j].name \in Second
          BY <1>3, <1>5, <2>1, BinlogTypes
        <4>2. binlogs[j].name \in Nat
          BY Zenon, <4>1, BinlogTypes
        <4> QED BY <3>2, <4>1, <4>2
      <3>3. CASE i # j
        BY <1>3, <1>5, <1>6, <2>1, <3>1, <3>3 DEF ListAscends
      <3> QED BY <3>2, <3>3
    <2>2. CASE j = n + 1 /\ i \in 1..n
      BY <1>2, <1>3, <1>5, <2>2 DEF ListAscends
    <2>3. CASE j = n + 1 /\ i = n + 1
      <3>1. Log!Listed[n + 1].name \in Nat
        BY Zenon, <1>2, <1>3, BinlogTypes
      <3> QED BY <2>3, <3>1
    <2> QED BY <1>4, <2>1, <2>2, <2>3
  <1>7. ASSUME NEW i \in 1..(n + 1)
        PROVE  /\ Log!Listed[i].name \in Log!Names
               /\ Log!Listed[i].name \in Second /\ Log!Listed[i].name <= now
               /\ ~shared => \A x \in ToSet(disk[Log!Listed[i].name]) :
                     Log!Listed[i].first - 1 <= x /\ x <= Log!Listed[i].last
    <2>1. CASE i \in 1..n
      BY Zenon, <1>3, <1>5, <2>1, BinlogTypes DEF ListAscends, OwnNames, Log!Names
    <2>2. CASE i = n + 1
      BY Zenon, <1>2, <1>3, <2>2, BinlogTypes DEF NothingLater, OwnNames, Log!Names
    <2> QED BY <1>4, <2>1, <2>2
  <1> QED BY <1>1, <1>3, <1>6, <1>7

\* Pruning takes the first file off the list, and nothing else.
LEMMA BinlogPrunes ==
    ASSUME Log!BinlogAssumption, BinlogInv, cur # NoFile
    PROVE  /\ Log!Pruned \in Seq(Log!File)
           /\ \A i \in DOMAIN Log!Pruned : i \in DOMAIN Log!Listed \/ i + 1 \in DOMAIN Log!Listed
           /\ IF Log!Prunes THEN \A i \in DOMAIN Log!Pruned :
                                   i + 1 \in DOMAIN Log!Listed /\ Log!Pruned[i] = Log!Listed[i + 1]
              ELSE Log!Pruned = Log!Listed
           /\ 1 \in DOMAIN Log!Listed
  BY BinlogLists DEF Log!Pruned

\* What pruning leaves on disk.
LEMMA BinlogRemains ==
    ASSUME Log!BinlogAssumption, BinlogInv, cur # NoFile
    PROVE  /\ Log!Remains \in [Second -> Seq(Nat)]
           /\ \A t \in Second : \/ Log!Remains[t] = disk[t]
                                \/ Log!Prunes /\ t = Log!Listed[1].name /\ Log!Remains[t] = <<>>
           /\ Log!Prunes => Log!Remains[Log!Listed[1].name] = <<>>
  <1>1. disk \in [Second -> Seq(Nat)] /\ <<>> \in Seq(Nat)
    BY BinlogTypes DEF BinlogInv
  <1>2. Log!Prunes => Log!Listed[1].name \in Second
    BY BinlogLists, BinlogPrunes DEF BinlogInv
  <1> QED BY <1>1, <1>2 DEF Log!Remains

\* The current file is full: it is listed, the oldest goes if there are too many,
\* and the event goes to a new file.
LEMMA BinlogRotates ==
    ASSUME Log!BinlogAssumption, BinlogInv, Log!TypeOK', Log!RotateAndWrite
    PROVE  BinlogInv'
  <1> USE DEF BinlogInv
  <1> DEFINE D == Log!Remains
             oldest == Log!Listed[1].name
  <1>1. /\ cur # NoFile /\ nextId' = nextId + 1 /\ UNCHANGED now
        /\ binlogs' = Log!Pruned /\ shared' = (shared \/ Log!Named)
        /\ lost' = (Log!Prunes /\ oldest = now)
        /\ \/ /\ acked' = Append(acked, nextId)
              /\ disk' = IF lost' THEN D ELSE [D EXCEPT ![now] = Append(@, nextId)]
           \/ acked' = acked /\ disk' = D
    BY DEF Log!RotateAndWrite, Log!TakeId, Log!Full, Log!CanWrite, Log!Record, Log!Opened
  <1>2. cur'.name = now /\ cur'.first = nextId + 1 /\ cur'.last \in {0, nextId}
        /\ (acked' # acked => cur'.last = nextId)
    BY Zenon DEF Log!RotateAndWrite, Log!TakeId, Log!Record, Log!Opened
  <1>3. /\ now \in Second /\ nextId \in Nat /\ disk \in [Second -> Seq(Nat)] /\ D \in [Second -> Seq(Nat)]
        /\ acked \in Seq(Nat) /\ Second \subseteq Nat
    BY Zenon, <1>1, BinlogTypes, BinlogRemains
  <1>4. /\ \A t \in Second : D[t] = disk[t] \/ (Log!Prunes /\ t = oldest /\ D[t] = <<>>)
        /\ Log!Prunes => D[oldest] = <<>>
    BY <1>1, BinlogRemains
  <1> HIDE DEF D
  <1>5. \A t \in Second : /\ Ascends(D[t])
                          /\ ToSet(D[t]) \subseteq ToSet(disk[t])
                          /\ \A x \in ToSet(D[t]) : x \in Nat /\ x < nextId
    <2>1. Ascends(<<>>) /\ ToSet(<<>>) = {}
      BY DEF Ascends, ToSet
    <2>2. \A t \in Second : Ascends(disk[t]) /\ \A x \in ToSet(disk[t]) : x \in Nat /\ x < nextId
      BY BinlogTypes DEF DiskAscends, NothingLater
    <2> QED BY <1>4, <2>1, <2>2
  <1>6. /\ \A t \in Second : disk'[t] = D[t] \/ (t = now /\ disk'[t] = Append(D[t], nextId))
        /\ acked' # acked => acked' = Append(acked, nextId) /\ (~lost' => disk'[now] = Append(D[now], nextId))
    BY Zenon, <1>1, <1>3
  <1>7. ToSet(Append(D[now], nextId)) = ToSet(D[now]) \cup {nextId} /\ Ascends(Append(D[now], nextId))
    <2>1. D[now] \in Seq(Nat) /\ Ascends(D[now]) /\ \A x \in ToSet(D[now]) : x < nextId
      BY <1>3, <1>5
    <2>2. nextId \in Nat
      BY <1>3
    <2> DEFINE q == D[now]
    <2>3. q \in Seq(Nat) /\ Ascends(q) /\ \A x \in ToSet(q) : x < nextId
      BY <2>1
    <2> HIDE DEF q
    <2>4. ToSet(Append(q, nextId)) = ToSet(q) \cup {nextId}
      BY <2>2, <2>3, AppendElements
    <2>5. Ascends(Append(q, nextId))
      BY <2>2, <2>3, AppendAscends
    <2> QED BY <2>4, <2>5 DEF q
  <1>8. \A t \in Second : /\ Ascends(disk'[t])
                          /\ ToSet(D[t]) \subseteq ToSet(disk'[t])
                          /\ \A x \in ToSet(disk'[t]) : x \in ToSet(D[t]) \/ (x = nextId /\ t = now)
    <2> SUFFICES ASSUME NEW t \in Second
                 PROVE  /\ Ascends(disk'[t])
                        /\ ToSet(D[t]) \subseteq ToSet(disk'[t])
                        /\ \A x \in ToSet(disk'[t]) : x \in ToSet(D[t]) \/ (x = nextId /\ t = now)
      OBVIOUS
    <2>1. CASE disk'[t] = D[t]
      BY <2>1, <1>5
    <2>2. CASE t = now /\ disk'[t] = Append(D[t], nextId)
      BY <2>2, <1>7
    <2> QED BY <2>1, <2>2, <1>6
  <1>9. DiskAscends'
    <2> SUFFICES ASSUME NEW t \in Second, NEW u \in Second, t < u,
                        NEW x \in ToSet(disk'[t]), NEW y \in ToSet(disk'[u])
                 PROVE  x < y
      BY <1>8 DEF DiskAscends
    <2>1. CASE x \in ToSet(D[t]) /\ y \in ToSet(D[u])
      BY <2>1, <1>5 DEF DiskAscends
    <2>2. CASE x \in ToSet(D[t]) /\ y = nextId
      BY <2>2, <1>5
    <2>3. CASE x = nextId /\ t = now
      <3>1. disk[u] = <<>>
        BY <2>3 DEF NothingLater
      <3>2. y \in ToSet(D[u])
        BY <2>3, <1>3, <1>8
      <3>3. y \in ToSet(disk[u]) /\ ToSet(<<>>) = {}
        BY <3>2, <1>5 DEF ToSet
      <3> QED BY <3>1, <3>3
    <2>4. /\ x \in ToSet(D[t]) \/ (x = nextId /\ t = now)
          /\ y \in ToSet(D[u]) \/ (y = nextId /\ u = now)
      BY <1>8
    <2> QED BY <2>1, <2>2, <2>3, <2>4
  <1>10. NothingLater'
    <2>1. ASSUME NEW t \in Second, NEW x \in ToSet(disk'[t])
          PROVE  x < nextId'
      <3>1. x \in ToSet(D[t]) \/ x = nextId
        BY <1>8, <2>1
      <3>2. x \in Nat /\ x <= nextId
        BY <3>1, <1>3, <1>5
      <3> QED BY <3>2, <1>1, <1>3
    <2>2. \A j \in DOMAIN acked' : acked'[j] < nextId'
      <3>1. CASE acked' = acked
        BY <3>1, <1>1, <1>3 DEF NothingLater
      <3>2. CASE acked' = Append(acked, nextId)
        BY <3>2, <1>1, <1>3 DEF NothingLater
      <3> QED BY <1>1, <3>1, <3>2
    <2>3. \A t \in Second : t > now => disk'[t] = <<>>
      <3> SUFFICES ASSUME NEW t \in Second, t > now PROVE disk'[t] = <<>>
        OBVIOUS
      <3>1. t # now /\ disk[t] = <<>>
        BY <1>3 DEF NothingLater
      <3> QED BY <3>1, <1>4, <1>6
    <2> QED BY <1>1, <1>2, <1>3, <2>1, <2>2, <2>3 DEF NothingLater
  <1>11. ListAscends'
    <2>1. \A i \in DOMAIN Log!Pruned : /\ Log!Pruned[i].name <= now
                                      /\ \A j \in DOMAIN Log!Pruned :
                                            i < j => Log!Pruned[i].name <= Log!Pruned[j].name
      <3>1. CASE Log!Prunes
        <4>1. \A i \in DOMAIN Log!Pruned :
                i + 1 \in DOMAIN Log!Listed /\ Log!Pruned[i] = Log!Listed[i + 1] /\ i \in Nat
          BY <1>1, <3>1, BinlogPrunes
        <4>2. \A i, j \in DOMAIN Log!Pruned : i < j => i + 1 <= j + 1
          BY <4>1
        <4> QED BY <1>1, <4>1, <4>2, BinlogLists
      <3>2. CASE ~Log!Prunes
        <4>1. Log!Pruned = Log!Listed /\ Log!Listed \in Seq(Log!File)
          BY <1>1, <3>2, BinlogPrunes
        <4>2. \A i, j \in DOMAIN Log!Listed : i < j => i <= j
          BY <4>1
        <4> QED BY <1>1, <4>1, <4>2, BinlogLists
      <3> QED BY <3>1, <3>2
    <2> QED BY <1>1, <1>2, <2>1 DEF ListAscends
  <1>12. OwnNames'
    <2> SUFFICES ASSUME ~shared' PROVE OwnNames'
      BY DEF OwnNames
    <2>0. ~shared /\ ~Log!Named
      BY Zenon, <1>1
    <2>1. disk[now] = <<>> /\ D[now] = <<>> /\ ToSet(D[now]) = {} /\ now \notin Log!Names
      BY <1>3, <1>4, <2>0 DEF Log!Named, ToSet
    <2>2. oldest \in Log!Names /\ ~lost'
      BY Zenon, <1>1, <2>1, BinlogLists, BinlogPrunes
    <2>3. \A i \in DOMAIN Log!Pruned : \E k \in DOMAIN Log!Listed : Log!Pruned[i] = Log!Listed[k]
      BY <1>1, BinlogPrunes
    <2>4. ASSUME NEW i \in DOMAIN Log!Pruned
          PROVE  /\ Log!Pruned[i].name \in Log!Names /\ Log!Pruned[i].name # now
                 /\ Log!Pruned[i].name \in Second /\ oldest <= Log!Pruned[i].name
                 /\ \A x \in ToSet(disk'[Log!Pruned[i].name]) :
                       Log!Pruned[i].first - 1 <= x /\ x <= Log!Pruned[i].last
      <3>1. PICK k \in DOMAIN Log!Listed : Log!Pruned[i] = Log!Listed[k]
        BY <2>3, <2>4
      <3>2. 1 <= k /\ 1 \in DOMAIN Log!Listed
        BY <1>1, BinlogLists
      <3>3. Log!Pruned[i].name \in Log!Names /\ Log!Pruned[i].name \in Second /\ oldest <= Log!Pruned[i].name
        BY <1>1, <3>1, <3>2, BinlogLists
      <3>4. Log!Pruned[i].name # now
        BY <3>3, <2>1
      <3>5. ToSet(disk'[Log!Pruned[i].name]) \subseteq ToSet(disk[Log!Pruned[i].name])
        BY <3>3, <3>4, <1>5, <1>8
      <3>6. \A x \in ToSet(disk[Log!Listed[k].name]) : Log!Listed[k].first - 1 <= x /\ x <= Log!Listed[k].last
        BY <1>1, <2>0, <3>1, BinlogLists
      <3> QED BY <3>1, <3>3, <3>4, <3>5, <3>6
    <2>5. \A x \in ToSet(disk'[now]) : cur'.first - 1 <= x /\ x <= cur'.last
      <3>1. CASE acked' = acked
        <4>1. disk' = D \/ disk'[now] = D[now]
          BY <3>1, <1>1, <1>3
        <4> QED BY <4>1, <2>1
      <3>2. CASE acked' # acked
        <4>1. cur'.last = nextId /\ cur'.first = nextId + 1
          BY <3>2, <1>2
        <4>2. \A x \in ToSet(disk'[now]) : x = nextId
          BY Zenon, <1>3, <1>8, <2>1
        <4> QED BY <4>1, <4>2, <1>3
      <3> QED BY <3>1, <3>2
    <2>6. Log!Names' \subseteq {Log!Pruned[i].name : i \in DOMAIN Log!Pruned} \cup {now}
      BY <1>1, <1>2 DEF Log!Names
    <2>7. ASSUME NEW m \in Log!Names', NEW x \in ToSet(disk'[m]), NEW j \in DOMAIN acked', x < acked'[j]
          PROVE  IsOn(disk', acked'[j])
      <3>1. CASE acked' # acked /\ acked'[j] = nextId
        <4>1. nextId \in ToSet(disk'[now])
          BY Zenon, <3>1, <1>6, <1>7, <2>2
        <4> QED BY <3>1, <4>1, <1>3 DEF IsOn
      <3>2. CASE j \in DOMAIN acked /\ acked'[j] = acked[j]
        <4>1. acked[j] < nextId /\ acked[j] \in Nat
          BY <3>2, <1>3 DEF NothingLater
        <4>2. m # now
          <5> SUFFICES ASSUME m = now PROVE FALSE
            OBVIOUS
          <5>1. x = nextId
            BY Zenon, <1>3, <1>8, <2>1, <2>7
          <5> QED BY <5>1, <4>1, <3>2, <2>7, <1>3
        <4>3. PICK i \in DOMAIN Log!Pruned : m = Log!Pruned[i].name
          BY <2>6, <4>2
        <4>4. m \in Log!Names /\ m \in Second /\ oldest <= m
          BY <4>3, <2>4
        <4>5. x \in ToSet(D[m]) /\ x \in ToSet(disk[m])
          BY <4>2, <4>4, <1>5, <1>8, <2>7
        <4>6. IsOn(disk, acked[j])
          BY <2>0, <2>7, <3>2, <4>4, <4>5 DEF OwnNames
        <4>7. PICK t \in Second : acked[j] \in ToSet(disk[t])
          BY <4>6 DEF IsOn
        <4>8. D[t] = disk[t]
          <5> SUFFICES ASSUME Log!Prunes, t = oldest PROVE FALSE
            BY <1>4
          <5>1. m # oldest
            BY <1>4, <4>5 DEF ToSet
          <5>2. t < m
            BY <4>4, <5>1, <1>3
          <5>3. acked[j] < x
            BY <4>5, <4>4, <4>7, <5>2 DEF DiskAscends
          <5>4. x \in Nat
            BY <4>4, <4>5, <1>5
          <5> QED BY <2>7, <3>2, <4>1, <5>3, <5>4
        <4> QED BY <3>2, <4>7, <4>8, <1>8 DEF IsOn
      <3>3. \/ acked' # acked /\ acked'[j] = nextId
            \/ j \in DOMAIN acked /\ acked'[j] = acked[j]
        <4>1. CASE acked' = acked
          BY <4>1, <2>7
        <4>2. CASE acked' # acked
          <5>1. acked' = Append(acked, nextId)
            BY <4>2, <1>6
          <5> QED BY <4>2, <5>1, <1>3, <2>7
        <4> QED BY <4>1, <4>2
      <3> QED BY <3>1, <3>2, <3>3
    <2> QED BY <1>1, <1>2, <2>2, <2>4, <2>5, <2>7 DEF OwnNames
  <1> QED BY <1>9, <1>10, <1>11, <1>12

\* The old file is closed, and no new one could be had.
LEMMA BinlogCloses ==
    ASSUME Log!BinlogAssumption, BinlogInv, Log!TypeOK', Log!RotateFails
    PROVE  BinlogInv'
  <1> USE DEF BinlogInv
  <1>1. /\ cur # NoFile /\ cur \in Log!File /\ nextId' = nextId + 1
        /\ binlogs' = <<>> \/ binlogs' = Log!Listed
        /\ UNCHANGED <<now, disk, lost, acked, shared>>
    BY BinlogTypes DEF Log!RotateFails, Log!TakeId, Log!Full, Log!CanWrite
  <1>2. /\ cur'.name = cur.name /\ cur'.first = cur.first /\ cur'.last = cur.last
        /\ ~cur'.open
    BY Zenon, <1>1 DEF Log!RotateFails, Log!File
  <1>3. DiskAscends'
    BY <1>1 DEF DiskAscends
  <1>4. NothingLater'
    <2>1. \A x \in Nat : x < nextId => x < nextId'
      BY <1>1, BinlogTypes
    <2>2. \A t \in Second : \A x \in ToSet(disk[t]) : x < nextId'
      BY <2>1, BinlogTypes DEF NothingLater
    <2>3. \A j \in DOMAIN acked : acked[j] < nextId'
      BY <2>1, BinlogTypes DEF NothingLater
    <2>4. cur.first <= nextId'
      BY <1>1, BinlogTypes DEF NothingLater
    <2> QED BY <1>1, <1>2, <2>2, <2>3, <2>4 DEF NothingLater
  <1>5. ListAscends'
    <2>1. CASE binlogs' = <<>>
      BY <2>1 DEF ListAscends
    <2>2. CASE binlogs' = Log!Listed
      <3>1. /\ \A i \in DOMAIN Log!Listed : /\ Log!Listed[i].name <= now
                                          /\ \A j \in DOMAIN Log!Listed :
                                                i < j => Log!Listed[i].name <= Log!Listed[j].name
        <4>1. \A i, j \in DOMAIN Log!Listed : i < j => i <= j
          BY <1>1, BinlogLists
        <4> QED BY <1>1, <4>1, BinlogLists
      <3>2. \A i \in DOMAIN Log!Listed : Log!Listed[i].name <= cur.name
        <4>1. cur = NoFile \/ \A i \in DOMAIN binlogs : binlogs[i].name <= cur.name
          BY DEF ListAscends
        <4>2. \A i \in DOMAIN Log!Listed : \/ i \in DOMAIN binlogs /\ Log!Listed[i] = binlogs[i]
                                         \/ Log!Listed[i] = [cur EXCEPT !.open = FALSE]
          <5> DEFINE closed == [cur EXCEPT !.open = FALSE]
          <5>1. Log!Listed = Append(binlogs, closed)
            BY <1>1 DEF Log!Listed
          <5>2. binlogs \in Seq(Log!File) /\ closed \in Log!File
            BY Zenon, <1>1, BinlogTypes DEF Log!File
          <5>3. \A T : \A q \in Seq(T), e \in T : \A i \in DOMAIN Append(q, e) :
                   (i \in DOMAIN q /\ Append(q, e)[i] = q[i]) \/ Append(q, e)[i] = e
            OBVIOUS
          <5> QED BY <5>1, <5>2, <5>3
        <4>3. [cur EXCEPT !.open = FALSE].name = cur.name /\ cur.name <= cur.name
          BY <1>1, BinlogTypes DEF Log!File
        <4> QED BY Zenon, <1>1, <4>1, <4>2, <4>3
      <3> QED BY <1>1, <1>2, <2>2, <3>1, <3>2 DEF ListAscends
    <2> QED BY <1>1, <2>1, <2>2
  <1>6. OwnNames'
    <2> SUFFICES ASSUME ~shared PROVE OwnNames'
      BY <1>1 DEF OwnNames
    <2>1. Log!Names' \subseteq Log!Names
      <3>1. CASE binlogs' = <<>>
        BY <1>1, <1>2, <3>1 DEF Log!Names
      <3>2. CASE binlogs' = Log!Listed
        BY <1>1, <1>2, <3>2, BinlogLists DEF Log!Names
      <3> QED BY <1>1, <3>1, <3>2
    <2>2. \A i \in DOMAIN binlogs' : \A x \in ToSet(disk[binlogs'[i].name]) :
             binlogs'[i].first - 1 <= x /\ x <= binlogs'[i].last
      <3>1. CASE binlogs' = <<>>
        BY <3>1
      <3>2. CASE binlogs' = Log!Listed
        BY <1>1, <3>2, BinlogLists
      <3> QED BY <1>1, <3>1, <3>2
    <2> QED BY <1>1, <1>2, <2>1, <2>2 DEF OwnNames
  <1> QED BY <1>3, <1>4, <1>5, <1>6

\* Nothing of the files changes, but time may pass and an id be used up, or there
\* is no current file any more.
LEMMA BinlogIdles ==
    ASSUME Log!BinlogAssumption, BinlogInv, Log!TypeOK',
           now' >= now, nextId' >= nextId, cur' \in {cur, NoFile},
           UNCHANGED <<binlogs, disk, lost, acked, shared>>
    PROVE  BinlogInv'
  <1> USE DEF BinlogInv
  <1>0. /\ now \in Nat /\ now' \in Nat /\ nextId \in Nat /\ nextId' \in Nat /\ Second \subseteq Nat
    BY BinlogTypes DEF Log!TypeOK, Second, Log!BinlogAssumption
  <1>1. DiskAscends'
    BY DEF DiskAscends
  <1>2. NothingLater'
    <2>1. \A x \in Nat : x < nextId => x < nextId'
      BY <1>0
    <2>2. /\ \A t \in Second : \A x \in ToSet(disk[t]) : x < nextId'
          /\ \A j \in DOMAIN acked : acked[j] < nextId'
      BY SMTT(30), <2>1, BinlogTypes DEF NothingLater
    <2>3. \A t \in Second : t > now' => t > now
      BY <1>0
    <2>4. ASSUME cur # NoFile PROVE cur.name <= now' /\ cur.first <= nextId'
      <3>1. /\ cur.name \in Nat /\ cur.first \in Nat
            /\ cur.name <= now /\ cur.first <= nextId
        BY Zenon, <1>0, <2>4, BinlogTypes DEF NothingLater
      <3> QED BY <1>0, <3>1
    <2> QED BY <2>2, <2>3, <2>4 DEF NothingLater
  <1>3. ListAscends'
    <2>1. ASSUME NEW i \in DOMAIN binlogs PROVE binlogs[i].name <= now'
      <3>1. binlogs[i].name \in Nat /\ binlogs[i].name <= now
        BY Zenon, <1>0, <2>1, BinlogTypes DEF ListAscends
      <3> QED BY <1>0, <3>1
    <2> QED BY <2>1 DEF ListAscends
  <1>4. OwnNames'
    <2>1. Log!Names' \subseteq Log!Names
      BY DEF Log!Names
    <2> QED BY <2>1 DEF OwnNames
  <1> QED BY <1>1, <1>2, <1>3, <1>4

\* The state of the manager is of its type.
LEMMA BinlogTypesKept ==
    ASSUME Log!BinlogAssumption, BinlogInv, [Log!Next]_Log!vars
    PROVE  Log!TypeOK'
  <1> USE DEF BinlogInv
  <1>1. /\ Log!TypeOK /\ LogTime \in Nat /\ MaxEvents \in Nat
        /\ \A t \in Second : disk[t] \in Seq(1..MaxEvents)
    BY DEF Log!TypeOK, Second, Log!BinlogAssumption
  <1>2. \A k \in Nat : Log!Opened(k) \in Log!File
    BY <1>1 DEF Log!Opened, Log!File, Log!TypeOK
  <1>3. Len(disk[now]) \in Nat
    BY <1>1, BinlogTypes
  <1>4. CASE Log!Start
    <2>1. cur' \in Log!File \cup {NoFile}
      BY <1>1, <1>2, <1>3, <1>4 DEF Log!Start, Log!Open, Log!TypeOK
    <2>2. running' = TRUE /\ state' \in {"RUNNING", "ERROR"}
      BY <1>4 DEF Log!Start, Log!Open
    <2>3. lost' \in BOOLEAN /\ shared' \in BOOLEAN
      BY Zenon, <1>1, <1>4 DEF Log!Start, Log!Open, Log!TypeOK
    <2>4. UNCHANGED <<role, binlogs, unlisted, nextId, now, proc, disk, acked>>
      BY <1>4 DEF Log!Start
    <2> QED BY <1>1, <2>1, <2>2, <2>3, <2>4 DEF Log!TypeOK
  <1>5. CASE Log!Stop
    BY Zenon, <1>1, <1>5 DEF Log!Stop, Log!TypeOK
  <1>6. CASE Log!Tick
    <2>1. now' \in 0..LogTime
      BY <1>1, <1>6 DEF Log!Tick, Log!TypeOK
    <2> QED BY <1>1, <1>6, <2>1 DEF Log!Tick, Log!TypeOK
  <1>7. CASE Log!Destroy
    <2>1. proc' \in {"ended", "aborted"} /\ running' = FALSE /\ state' \in {"STOPPED", state}
      BY <1>7 DEF Log!Destroy
    <2> QED BY Zenon, <1>1, <1>7, <2>1 DEF Log!Destroy, Log!TypeOK
  <1>8. CASE Log!TakeId /\ (Log!Write \/ Log!WriteFails \/ Log!RotateAndWrite \/ Log!RotateFails)
    <2>1. /\ nextId \in 1..MaxEvents /\ nextId' \in 1..(MaxEvents + 1)
          /\ UNCHANGED <<role, running, state, now, proc>>
      BY <1>1, <1>8 DEF Log!TakeId, Log!TypeOK
    <2>2. Append(acked, nextId) \in Seq(1..MaxEvents)
      BY <1>1, <2>1 DEF Log!TypeOK
    <2>3. CASE Log!WriteFails
      BY <1>1, <2>1, <2>3 DEF Log!WriteFails, Log!TypeOK
    <2>4. CASE Log!Write
      <3>1. cur \in Log!File /\ cur.name \in Second
        BY <2>4, BinlogTypes DEF Log!Write, Log!CanWrite
      <3>2. cur' = [name |-> cur.name, open |-> cur.open, named |-> cur.named,
                    size |-> cur.size + 1, first |-> cur.first, last |-> nextId]
        BY Zenon, <2>4, <3>1 DEF Log!Write, Log!Record, Log!File
      <3>3. cur' \in Log!File
        BY <2>1, <3>1, <3>2 DEF Log!File
      <3>4. disk' \in [0..LogTime -> Seq(1..MaxEvents)]
        <4>1. disk' = disk \/ disk' = [disk EXCEPT ![cur.name] = Append(disk[cur.name], nextId)]
          BY <2>4 DEF Log!Write, Log!Record
        <4>2. Append(disk[cur.name], nextId) \in Seq(1..MaxEvents)
          BY <1>1, <2>1, <3>1
        <4> QED BY Zenon, <1>1, <3>1, <4>1, <4>2 DEF Log!TypeOK, Second
      <3> QED BY <1>1, <2>1, <2>2, <2>4, <3>3, <3>4 DEF Log!Write, Log!Record, Log!TypeOK
    <2>5. CASE Log!RotateAndWrite
      <3>1. cur # NoFile
        BY <2>5 DEF Log!RotateAndWrite, Log!Full, Log!CanWrite
      <3>2. binlogs' \in Seq(Log!File)
        BY <2>5, <3>1, BinlogPrunes DEF Log!RotateAndWrite
      <3>3. Log!Remains \in [0..LogTime -> Seq(1..MaxEvents)]
        <4>1. Log!Listed[1].name \in 0..LogTime /\ <<>> \in Seq(1..MaxEvents)
          BY <3>1, BinlogLists, BinlogPrunes DEF Second
        <4> QED BY <1>1, <4>1 DEF Log!Remains, Log!TypeOK
      <3>5. cur' \in Log!File
        <4> DEFINE f == [Log!Opened(0) EXCEPT !.first = nextId + 1]
        <4>1. cur' = f \/ cur' = [f EXCEPT !.size = @ + 1, !.last = nextId]
          BY <2>5 DEF Log!RotateAndWrite, Log!Record
        <4>2. Log!Opened(0) \in Log!File /\ nextId \in Nat /\ nextId + 1 \in Nat
          BY <1>2, <2>1
        <4>3. \A g \in Log!File, k \in Nat : [g EXCEPT !.first = k] \in Log!File
          BY DEF Log!File
        <4>4. \A g \in Log!File, k \in Nat : [g EXCEPT !.size = @ + 1, !.last = k] \in Log!File
          <5> SUFFICES ASSUME NEW g \in Log!File, NEW k \in Nat
                       PROVE  [g EXCEPT !.size = @ + 1, !.last = k] \in Log!File
            OBVIOUS
          <5>1. g.size + 1 \in Nat
            BY DEF Log!File
          <5> QED BY Zenon, <5>1 DEF Log!File
        <4>5. f \in Log!File
          BY <4>2, <4>3
        <4> HIDE DEF f
        <4> QED BY Zenon, <4>1, <4>2, <4>4, <4>5
      <3>6. disk' \in [0..LogTime -> Seq(1..MaxEvents)] /\ acked' \in Seq(1..MaxEvents)
        <4>1. now \in 0..LogTime /\ Log!Remains[now] \in Seq(1..MaxEvents)
          BY <1>1, <3>3 DEF Log!TypeOK
        <4>2. \/ disk' = Log!Remains
              \/ disk' = [Log!Remains EXCEPT ![now] = Append(Log!Remains[now], nextId)]
          BY <2>5 DEF Log!RotateAndWrite, Log!Record, Log!Opened
        <4>3. acked' \in {acked, Append(acked, nextId)}
          BY <2>5 DEF Log!RotateAndWrite, Log!Record
        <4>4. Append(Log!Remains[now], nextId) \in Seq(1..MaxEvents)
          BY <2>1, <4>1
        <4>5. acked \in Seq(1..MaxEvents)
          BY <1>1 DEF Log!TypeOK
        <4>6. disk' \in [0..LogTime -> Seq(1..MaxEvents)]
          BY Zenon, <3>3, <4>1, <4>2, <4>4
        <4> QED BY Zenon, <2>2, <4>3, <4>5, <4>6
      <3>7. lost' \in BOOLEAN /\ shared' \in BOOLEAN
        BY <2>5 DEF Log!RotateAndWrite
      <3>8. unlisted' \in BOOLEAN
        BY Zenon, <1>1, <2>5 DEF Log!RotateAndWrite, Log!TypeOK
      <3> QED BY <1>1, <2>1, <3>2, <3>5, <3>6, <3>7, <3>8 DEF Log!TypeOK
    <2>6. CASE Log!RotateFails
      <3>1. cur \in Log!File /\ cur # NoFile
        BY <2>6, BinlogTypes DEF Log!RotateFails, Log!Full, Log!CanWrite
      <3>2. cur' \in Log!File
        BY Zenon, <2>6, <3>1 DEF Log!RotateFails, Log!File
      <3>3. binlogs' \in Seq(Log!File)
        <4>1. binlogs' = <<>> \/ binlogs' = Log!Listed
          BY Zenon, <2>6 DEF Log!RotateFails
        <4>2. Log!Listed \in Seq(Log!File)
          BY Zenon, <3>1, BinlogLists DEF BinlogInv
        <4>3. <<>> \in Seq(Log!File)
          OBVIOUS
        <4> QED BY Zenon, <4>1, <4>2, <4>3
      <3>4. unlisted' \in BOOLEAN
        BY Zenon, <1>1, <2>6 DEF Log!RotateFails, Log!TypeOK
      <3> QED BY <1>1, <2>1, <2>6, <3>2, <3>3, <3>4 DEF Log!RotateFails, Log!TypeOK
    <2> QED BY <1>8, <2>3, <2>4, <2>5, <2>6
  <1>9. CASE UNCHANGED Log!vars
    BY <1>1, <1>9 DEF Log!vars, Log!TypeOK
  <1>10. CASE Log!RotateUnlisted
    BY Zenon, <1>1, <1>10 DEF Log!RotateUnlisted, Log!TypeOK
  <1> QED BY <1>4, <1>5, <1>6, <1>7, <1>8, <1>9, <1>10
          DEF Log!Next, Log!Write, Log!WriteFails, Log!RotateAndWrite, Log!RotateFails

\* Start, stop, writing, rotation and pruning keep the invariant
\* (replication.c:288-312, 504-554).
LEMMA BinlogStep ==
    ASSUME Log!BinlogAssumption, BinlogInv, [Log!Next]_Log!vars
    PROVE  BinlogInv'
  <1>1. Log!TypeOK'
    BY BinlogTypesKept
  <1>2. now \in Nat /\ nextId \in Nat
    BY BinlogTypes DEF BinlogInv
  <1>3. CASE Log!Write
    BY <1>1, <1>3, BinlogWrites
  <1>4. CASE Log!RotateAndWrite
    BY <1>1, <1>4, BinlogRotates
  <1>5. CASE Log!RotateFails
    BY <1>1, <1>5, BinlogCloses
  <1>6. CASE Log!Start
    <2>1. \/ /\ cur' = Log!Opened(Len(disk[now])) /\ lost' = FALSE
             /\ shared' = (shared \/ Log!Named)
          \/ cur' \in {cur, NoFile} /\ UNCHANGED <<lost, shared>>
      BY <1>6 DEF Log!Start, Log!Open
    <2>2. UNCHANGED <<binlogs, nextId, now, disk, acked>>
      BY <1>6 DEF Log!Start
    <2>3. CASE cur' \in {cur, NoFile} /\ UNCHANGED <<lost, shared>>
      BY <1>1, <1>2, <2>2, <2>3, BinlogIdles
    <2>4. CASE /\ cur' = Log!Opened(Len(disk[now])) /\ lost' = FALSE
               /\ shared' = (shared \/ Log!Named)
      BY Zenon, <1>1, <2>2, <2>4, BinlogOpens
    <2> QED BY Zenon, <2>1, <2>3, <2>4
  <1>7. CASE \/ Log!Stop \/ Log!Tick \/ Log!Destroy \/ Log!WriteFails
             \/ Log!RotateUnlisted \/ UNCHANGED Log!vars
    <2>1. /\ now' >= now /\ nextId' >= nextId /\ cur' = cur
          /\ UNCHANGED <<binlogs, disk, lost, acked, shared>>
      BY <1>2, <1>7 DEF Log!Stop, Log!Tick, Log!Destroy, Log!WriteFails,
                       Log!RotateUnlisted, Log!TakeId, Log!vars
    <2> QED BY <1>1, <2>1, BinlogIdles
  <1> QED BY <1>3, <1>4, <1>5, <1>6, <1>7 DEF Log!Next

-----------------------------------------------------------------------------
(* The files together.                                                        *)

\* What is on disk, file after file.
LEMMA BinlogOnDisk ==
    ASSUME Log!BinlogAssumption, BinlogInv
    PROVE  Log!EventsInOrder /\ \A x : IsOn(disk, x) => x \in Log!Range(Log!OnDisk)
  <1> DEFINE s == [t \in 1..(LogTime + 1) |-> disk[t - 1]]
  <1>1. LogTime \in Nat /\ Second = 0..LogTime /\ \A t \in Second : disk[t] \in Seq(Nat)
    BY Zenon, BinlogTypes DEF BinlogInv, Second
  <1>2. /\ \A k \in 1..(LogTime + 1) : k - 1 \in Second /\ s[k] = disk[k - 1]
        /\ \A t \in Second : t + 1 \in 1..(LogTime + 1) /\ s[t + 1] = disk[t]
    BY <1>1
  <1>3. s \in Seq(Seq(Nat)) /\ Len(s) = LogTime + 1 /\ DOMAIN s = 1..(LogTime + 1)
    BY <1>1, <1>2
  <1>4. Log!OnDisk = FlattenSeq(s)
    BY DEF Log!OnDisk, Log!FlattenSeq, FlattenSeq
  <1> HIDE DEF s
  <1>5. AscendTogether(s)
    <2> SUFFICES ASSUME NEW k \in 1..(LogTime + 1)
                 PROVE  /\ Ascends(s[k])
                        /\ \A l \in 1..(LogTime + 1) :
                              k < l => \A x \in ToSet(s[k]), y \in ToSet(s[l]) : x < y
      BY <1>3 DEF AscendTogether
    <2>1. k - 1 \in Second /\ s[k] = disk[k - 1]
      BY <1>2
    <2>2. \A l \in 1..(LogTime + 1) : l - 1 \in Second /\ s[l] = disk[l - 1] /\ (k < l => k - 1 < l - 1)
      BY <1>1, <1>2
    <2> QED BY <2>1, <2>2 DEF BinlogInv, DiskAscends
  <1>6. Log!EventsInOrder
    BY <1>3, <1>4, <1>5, FlattenAscends DEF Log!EventsInOrder, Ascends
  <1>7. ASSUME NEW x, IsOn(disk, x)
        PROVE  x \in Log!Range(Log!OnDisk)
    <2>1. PICK t \in Second : x \in ToSet(disk[t])
      BY <1>7 DEF IsOn
    <2>2. PICK f : IsFlatten(f, s, Nat) /\ FlattenSeq(s) = f[Len(s)]
      BY <1>3, FlattenSteps
    <2>3. ToSet(f[Len(s)]) = ElementsUpTo(s, Len(s))
      BY <1>1, <1>3, <2>2, FlattenElements
    <2>4. x \in ElementsUpTo(s, Len(s))
      BY <1>2, <1>3, <2>1 DEF ElementsUpTo
    <2> QED BY <1>4, <2>2, <2>3, <2>4 DEF ToSet, Log!Range
  <1> QED BY <1>6, <1>7

\* From the invariant: the events are in order and the index covers them.
LEMMA BinlogHolds ==
    ASSUME Log!BinlogAssumption, BinlogInv
    PROVE  Log!EventsInOrder /\ Log!IndexCoversFile /\ Log!PruningKeepsNewest
  <1>1. Log!IndexCoversFile
    BY Zenon, BinlogTypes DEF BinlogInv, OwnNames, Log!IndexCoversFile, ToSet
  <1>2. Log!PruningKeepsNewest
    <2> SUFFICES ASSUME ~shared, NEW n \in Log!Names, NEW i \in DOMAIN disk[n],
                        NEW j \in DOMAIN acked, disk[n][i] < acked[j]
                 PROVE  acked[j] \in Log!Range(Log!OnDisk)
      BY DEF Log!PruningKeepsNewest
    <2>1. IsOn(disk, acked[j])
      BY DEF BinlogInv, OwnNames, ToSet
    <2> QED BY <2>1, BinlogOnDisk
  <1> QED BY <1>1, <1>2, BinlogOnDisk

BinlogPart == subject = "log" => BinlogInv

\* The invariant of the binary log holds in every reachable state.
THEOREM BinlogPartHolds == FilesSpec => []BinlogPart
  <1>1. FilesInit => BinlogPart
    BY FilesAssumption, BinlogInit DEF FilesInit, BinlogPart
  <1>2. BinlogPart /\ [FilesNext]_filesVars => BinlogPart'
    <2> SUFFICES ASSUME BinlogPart, [FilesNext]_filesVars, subject' = "log"
                 PROVE  BinlogInv'
      BY DEF BinlogPart
    <2>1. subject = "log"
      BY DEF FilesNext, filesVars
    <2>2. Log!Next \/ UNCHANGED Log!vars
      BY <2>1 DEF FilesNext, filesVars, Log!vars, dataVars, logVars, clockVars
    <2> QED BY <2>1, <2>2, FilesAssumption, BinlogStep DEF BinlogPart
  <1> QED BY <1>1, <1>2, PTL DEF FilesSpec, filesVars

\* The files of the binary log give the events in the order they were written,
\* and the list says of each what is in it, for any sizes and numbers of files.
THEOREM EventsStayInOrder == FilesSpec => []EventsInOrder
  <1>1. BinlogPart => EventsInOrder
    BY FilesAssumption, BinlogHolds DEF BinlogPart, EventsInOrder
  <1> QED BY <1>1, BinlogPartHolds, PTL

\* Pruning takes the oldest events only.
THEOREM PruningKeeps == FilesSpec => []PruningKeepsNewest
  <1>1. BinlogPart => PruningKeepsNewest
    BY FilesAssumption, BinlogHolds DEF BinlogPart, PruningKeepsNewest
  <1> QED BY <1>1, BinlogPartHolds, PTL

-----------------------------------------------------------------------------
(* The catalogue.                                                             *)

KeyType == {"table", "column", "index"}
Datum == [name : Catalogue!Name, owner : TableName \cup {NoTable}] \cup {Catalogue!Freed}

\* An object, and a catalogue, but for the range of the blocks.
CatEntry == [type : KeyType, name : Catalogue!Name, active : BOOLEAN, data : Nat \ {0}]
Cat == [objects : Seq(CatEntry), data : [Catalogue!Block -> Datum], dirty : BOOLEAN,
        proc : {"ok", "undefined", "aborted", "destroyed"}]

\* No two objects have one name and type.
KeysApart(c) ==
    \A i, j \in DOMAIN c.objects :
       c.objects[i].type = c.objects[j].type /\ c.objects[i].name = c.objects[j].name => i = j

\* n names an object of the type.
Names(type, n) == <<type, n>> \in Catalogue!FileName

\* An object has a name of its type, and so have its data, unless they are freed.
KeysNamed(c) == \A i \in DOMAIN c.objects : Names(c.objects[i].type, c.objects[i].name)
DataNamed(c) ==
    \A i \in DOMAIN c.objects :
       c.objects[i].data \in Catalogue!Block =>
          \/ Catalogue!DataOf(c, i) = Catalogue!Freed
          \/ Names(c.objects[i].type, Catalogue!DataOf(c, i).name)

\* Objects that share their data are of one type.
DataTyped(c) ==
    \A i, j \in DOMAIN c.objects :
       c.objects[i].data = c.objects[j].data => c.objects[i].type = c.objects[j].type

DataInHeap(c) == \A i \in DOMAIN c.objects : c.objects[i].data \in Catalogue!Block

Loose(c) == c \in Cat /\ KeysApart(c) /\ KeysNamed(c) /\ DataNamed(c) /\ DataTyped(c)
Sound(c) == Loose(c) /\ DataInHeap(c)

\* What is left when the process ended is sound.
LEMMA EmptySound ==
    ASSUME NEW how \in {"ok", "undefined", "aborted", "destroyed"}
    PROVE  Sound(Catalogue!Empty(how)) /\ Catalogue!Empty(how).objects = <<>>
           /\ Catalogue!Empty(how).proc = how
  BY DEF Sound, Loose, Catalogue!Empty, Cat, Datum, KeysApart, KeysNamed, DataNamed, DataTyped,
         DataInHeap

\* The parts of a catalogue.
LEMMA CatParts ==
    ASSUME NEW c \in Cat
    PROVE  /\ c.objects \in Seq(CatEntry) /\ Len(c.objects) \in Nat
           /\ DOMAIN c.objects = 1..Len(c.objects)
           /\ \A i \in DOMAIN c.objects :
                 /\ c.objects[i] \in CatEntry
                 /\ c.objects[i].type \in KeyType /\ c.objects[i].name \in Catalogue!Name
                 /\ c.objects[i].active \in BOOLEAN /\ c.objects[i].data \in Nat \ {0}
           /\ c.data \in [Catalogue!Block -> Datum]
  <1>1. c.objects \in Seq(CatEntry) /\ c.data \in [Catalogue!Block -> Datum]
    BY DEF Cat
  <1>2. \A o \in CatEntry : o.type \in KeyType /\ o.name \in Catalogue!Name
                         /\ o.active \in BOOLEAN /\ o.data \in Nat \ {0}
    BY DEF CatEntry
  <1> HIDE DEF CatEntry
  <1> QED BY <1>1, <1>2

\* There is a block that no object points to, among the first.
LEMMA FreshIsFree ==
    ASSUME NEW c \in Cat
    PROVE  /\ Catalogue!Fresh(c) \in 1..(Len(c.objects) + 1)
           /\ \A i \in DOMAIN c.objects : c.objects[i].data # Catalogue!Fresh(c)
  <1> DEFINE n == Len(c.objects)
             Points(d) == \E i \in DOMAIN c.objects : c.objects[i].data = d
             Unused == {d \in 1..(n + 1) : ~Points(d)}
             P(d) == /\ \A i \in DOMAIN c.objects : c.objects[i].data # d
                     /\ \A e \in 1..(d - 1) : \E i \in DOMAIN c.objects : c.objects[i].data = e
  <1>1. n \in Nat /\ DOMAIN c.objects = 1..n
    BY CatParts
  <1>2. Unused # {}
    <2> SUFFICES ASSUME \A d \in 1..(n + 1) : Points(d) PROVE FALSE
      OBVIOUS
    <2> DEFINE f == [d \in 1..(n + 1) |-> CHOOSE i \in 1..n : c.objects[i].data = d]
    <2>1. \A d \in 1..(n + 1) : f[d] \in 1..n /\ c.objects[f[d]].data = d
      BY Zenon, <1>1
    <2>2. f \in [1..(n + 1) -> 1..n]
      BY Zenon, <2>1
    <2> HIDE DEF f, n, Points
    <2>3. IsFiniteSet(1..(n + 1)) /\ IsFiniteSet(1..n)
          /\ Cardinality(1..(n + 1)) = n + 1 /\ Cardinality(1..n) = n
      BY <1>1, FS_Interval
    <2>4. \E x, y \in 1..(n + 1) : x # y /\ f[x] = f[y]
      <3>1. Cardinality(1..n) < Cardinality(1..(n + 1))
        BY <1>1, <2>3
      <3> QED BY Zenon, <2>2, <2>3, <3>1, FS_PigeonHole
    <2> QED BY <2>1, <2>4
  <1>3. PICK d \in Unused : \A e \in Unused : d <= e
    <2>1. Unused \in SUBSET Nat
      BY <1>1
    <2> HIDE DEF Unused
    <2> QED BY <1>2, <2>1, LeastNumber
  <1>4. \A e \in 1..(d - 1) : Points(e)
    <2> SUFFICES ASSUME NEW e \in 1..(d - 1) PROVE Points(e)
      OBVIOUS
    <2>1. e \in 1..(n + 1) /\ ~(d <= e)
      BY <1>1, <1>3
    <2> QED BY <1>3, <2>1
  <1>5. \E x \in 1..(n + 1) : P(x)
    BY <1>3, <1>4
  <1>6. Catalogue!Fresh(c) = CHOOSE x \in 1..(n + 1) : P(x)
    BY DEF Catalogue!Fresh
  <1> HIDE DEF n
  <1>7. Catalogue!Fresh(c) \in 1..(n + 1) /\ P(Catalogue!Fresh(c))
    BY <1>5, <1>6
  <1> QED BY <1>7 DEF n

\* Object i has the name and type, and is not dropped.
HasName(c, i, type, name) ==
    c.objects[i].type = type /\ c.objects[i].active /\ c.objects[i].name = name

\* A lookup ends at object i.
Ends(c, i, type, name) ==
    \/ i = 0 /\ \A j \in DOMAIN c.objects : ~HasName(c, j, type, name)
    \/ i # 0 /\ i \in DOMAIN c.objects /\ HasName(c, i, type, name)

LEMMA LookupFinds ==
    ASSUME NEW c \in Cat, NEW type, NEW name
    PROVE  Ends(c, Catalogue!Lookup(c, type, name), type, name)
  <1> DEFINE I == {j \in 1..Len(c.objects) : HasName(c, j, type, name)}
             i == Catalogue!Lookup(c, type, name)
  <1>1. Len(c.objects) \in Nat /\ DOMAIN c.objects = 1..Len(c.objects)
    BY CatParts
  <1>2. i = IF I # {} THEN Catalogue!Min(I) ELSE 0
    BY DEF Catalogue!Lookup, Catalogue!SelectInSeq, HasName
  <1>3. I # {} => Catalogue!Min(I) \in I
    <2> SUFFICES ASSUME I # {} PROVE Catalogue!Min(I) \in I
      OBVIOUS
    <2>1. PICK x \in I : \A y \in I : x <= y
      <3>1. I \in SUBSET Nat
        BY <1>1
      <3> HIDE DEF I
      <3> QED BY <3>1, LeastNumber
    <2> HIDE DEF I
    <2> QED BY <2>1 DEF Catalogue!Min
  <1> HIDE DEF i
  <1>4. I = {} => Ends(c, i, type, name)
    BY <1>1, <1>2 DEF Ends
  <1>5. I # {} => Ends(c, i, type, name)
    <2>1. I # {} => i \in I
      BY <1>2, <1>3
    <2> QED BY <1>1, <2>1 DEF Ends
  <1> QED BY <1>4, <1>5 DEF i

\* A lookup of a column or an index by its data, too.
LEMMA LookupPartFinds ==
    ASSUME NEW c \in Cat, NEW type, NEW name, NEW t
    PROVE  LET i == Catalogue!LookupPart(c, type, name, t)
           IN  i # 0 => /\ i \in DOMAIN c.objects /\ c.objects[i].type = type
                        /\ Catalogue!BelongsTo(c, i, t) /\ Catalogue!DataOf(c, i).name = name
  <1> DEFINE fits(j) == /\ c.objects[j].type = type
                        /\ Catalogue!BelongsTo(c, j, t) /\ Catalogue!DataOf(c, j).name = name
             q == [j \in DOMAIN c.objects |-> j]
             I == {j \in 1..Len(q) : fits(q[j])}
             i == Catalogue!LookupPart(c, type, name, t)
  <1>1. Len(c.objects) \in Nat /\ DOMAIN c.objects = 1..Len(c.objects)
    BY CatParts
  <1>2. i = IF I # {} THEN Catalogue!Min(I) ELSE 0
    BY DEF Catalogue!LookupPart, Catalogue!SelectInSeq
  <1>3. I # {} => Catalogue!Min(I) \in I
    <2> SUFFICES ASSUME I # {} PROVE Catalogue!Min(I) \in I
      BY Zenon
    <2>1. PICK x \in I : \A y \in I : x <= y
      <3>1. I \in SUBSET Nat
        <4>1. Len(q) = Len(c.objects)
          BY <1>1
        <4> QED BY <1>1, <4>1
      <3> HIDE DEF I
      <3> QED BY <3>1, LeastNumber
    <2> HIDE DEF I
    <2> QED BY <2>1 DEF Catalogue!Min
  <1>4. Len(q) = Len(c.objects) /\ \A j \in 1..Len(q) : q[j] = j
    BY <1>1
  <1> HIDE DEF i, q, fits
  <1>5. ASSUME i # 0 PROVE i \in DOMAIN c.objects /\ fits(i)
    BY <1>1, <1>2, <1>3, <1>4, <1>5
  <1> QED BY <1>5 DEF i, fits

\* What follows from b has the same objects, some of them dropped, and new ones.
Follows(b, c) ==
    /\ c.proc = b.proc
    /\ Len(b.objects) <= Len(c.objects)
    /\ \A i \in DOMAIN b.objects : /\ c.objects[i].type = b.objects[i].type
                                   /\ c.objects[i].name = b.objects[i].name
                                   /\ c.objects[i].active => b.objects[i].active
    /\ \A i \in DOMAIN c.objects \ DOMAIN b.objects : c.objects[i].active

\* Objects are dropped, and nothing else.
Fades(b, c) ==
    /\ c \in Cat /\ c.data = b.data /\ c.proc = b.proc
    /\ Len(c.objects) = Len(b.objects)
    /\ \A i \in DOMAIN b.objects : /\ c.objects[i].type = b.objects[i].type
                                   /\ c.objects[i].name = b.objects[i].name
                                   /\ c.objects[i].data = b.objects[i].data
                                   /\ c.objects[i].active => b.objects[i].active

LEMMA FadesSound ==
    ASSUME NEW b, NEW c, Sound(b), Fades(b, c)
    PROVE  Sound(c) /\ Follows(b, c)
  <1>1. b \in Cat /\ c \in Cat
    BY DEF Sound, Loose, Fades
  <1>2. DOMAIN c.objects = DOMAIN b.objects
    BY <1>1, CatParts DEF Fades
  <1>3. Len(b.objects) <= Len(c.objects)
    BY <1>1, CatParts DEF Fades
  <1>4. \A i \in DOMAIN c.objects : Catalogue!DataOf(c, i) = Catalogue!DataOf(b, i)
    BY <1>2 DEF Fades, Catalogue!DataOf
  <1>5. KeysApart(c) /\ KeysNamed(c) /\ DataTyped(c) /\ DataInHeap(c)
    BY <1>2 DEF Sound, Loose, Fades, KeysApart, KeysNamed, DataTyped, DataInHeap
  <1>6. DataNamed(c)
    BY <1>2, <1>4 DEF Sound, Loose, Fades, DataNamed
  <1> QED BY <1>1, <1>2, <1>3, <1>5, <1>6 DEF Sound, Loose, Fades, Follows

\* Object i of c is marked.
Marked(c, i) == [c EXCEPT !.objects[i].active = FALSE, !.dirty = TRUE]

LEMMA MarkedFades ==
    ASSUME NEW c \in Cat, NEW i \in DOMAIN c.objects
    PROVE  /\ Fades(c, Marked(c, i)) /\ ~Marked(c, i).objects[i].active
           /\ Marked(c, i).dirty
  <1> DEFINE o == [c.objects[i] EXCEPT !.active = FALSE]
             e == Marked(c, i)
  <1>1. c.objects \in Seq(CatEntry) /\ c.objects[i] \in CatEntry /\ DOMAIN c.objects = 1..Len(c.objects)
    BY CatParts
  <1>2. /\ o \in CatEntry /\ ~o.active /\ o.type = c.objects[i].type /\ o.name = c.objects[i].name
        /\ o.data = c.objects[i].data
    BY Zenon, <1>1 DEF CatEntry
  <1>3. e.objects = [c.objects EXCEPT ![i] = o] /\ e.data = c.data /\ e.proc = c.proc /\ e.dirty
    BY DEF Marked, Cat
  <1>4. e = [c EXCEPT !.objects = e.objects, !.dirty = TRUE]
    BY <1>3 DEF Marked, Cat
  <1> HIDE DEF o, e
  <1>5. e.objects \in Seq(CatEntry) /\ Len(e.objects) = Len(c.objects)
    BY <1>1, <1>2, <1>3
  <1>6. e \in Cat
    BY Zenon, <1>4, <1>5 DEF Cat
  <1>7. \A j \in DOMAIN c.objects : e.objects[j] = IF j = i THEN o ELSE c.objects[j]
    BY <1>1, <1>3
  <1>8. Fades(c, e) /\ ~e.objects[i].active
    BY <1>2, <1>3, <1>5, <1>6, <1>7 DEF Fades
  <1> QED BY <1>3, <1>8 DEF e

LEMMA DeletedFades ==
    ASSUME NEW c \in Cat, NEW type, NEW name
    PROVE  /\ Fades(c, Catalogue!Deleted(c, type, name))
           /\ KeysApart(c) => \A i \in DOMAIN c.objects :
                                ~HasName(Catalogue!Deleted(c, type, name), i, type, name)
  <1> DEFINE i == Catalogue!Lookup(c, type, name)
             e == Catalogue!Deleted(c, type, name)
  <1>1. Ends(c, i, type, name)
    BY LookupFinds
  <1>2. e = IF i = 0 THEN c ELSE Marked(c, i)
    BY DEF Catalogue!Deleted, Marked
  <1>3. c.proc = c.proc
    OBVIOUS
  <1> HIDE DEF i, e
  <1>4. CASE i = 0
    <2>1. Fades(c, e)
      BY <1>2, <1>4 DEF Fades
    <2>2. \A j \in DOMAIN c.objects : ~HasName(e, j, type, name)
      BY <1>1, <1>2, <1>4 DEF Ends
    <2> QED BY <2>1, <2>2 DEF e
  <1>5. CASE i # 0
    <2>1. i \in DOMAIN c.objects /\ HasName(c, i, type, name)
      BY <1>1, <1>5 DEF Ends
    <2>2. Fades(c, e) /\ ~e.objects[i].active
      BY <1>2, <1>5, <2>1, MarkedFades
    <2>3. ASSUME KeysApart(c), NEW j \in DOMAIN c.objects, HasName(e, j, type, name)
          PROVE  FALSE
      <3>1. HasName(c, j, type, name)
        BY <2>2, <2>3 DEF HasName, Fades
      <3>2. i = j
        BY <2>1, <2>3, <3>1 DEF HasName, KeysApart
      <3> QED BY <2>2, <2>3, <3>2 DEF HasName
    <2> QED BY <2>2, <2>3 DEF e
  <1> QED BY <1>4, <1>5

\* Fading again is fading.
LEMMA FadesOn ==
    ASSUME NEW a, NEW b, NEW c, a \in Cat, Fades(a, b), Fades(b, c)
    PROVE  Fades(a, c)
  <1>1. DOMAIN b.objects = DOMAIN a.objects
    BY SMTT(30), CatParts DEF Fades
  <1> QED BY <1>1 DEF Fades

\* What a step of the loop of a drop does: object i is marked, or one of the name
\* its data have.
DropOne(c, i) == Catalogue!Deleted(c, c.objects[i].type, Catalogue!DataOf(c, i).name)
DropStep(c, i, type, t) ==
    IF c = Catalogue!Faulty \/ c.objects[i].type # type \/ ~c.objects[i].active THEN c
    ELSE IF Catalogue!DataOf(c, i) = Catalogue!Freed THEN Catalogue!Faulty
    ELSE IF Catalogue!BelongsTo(c, i, t) THEN DropOne(c, i) ELSE c
Indices(c) == [i \in DOMAIN c.objects |-> i]
DropLoop(c, type, t) ==
    LET iter[s \in SUBSET DOMAIN Indices(c)] ==
          IF s = {} THEN c ELSE DropStep(iter[s \ {Max(s)}], Indices(c)[Max(s)], type, t)
    IN  iter[DOMAIN Indices(c)]
Dropped(c, t) == DropLoop(DropLoop(c, "column", t), "index", t)

LEMMA DropTableIs ==
    ASSUME NEW t, Catalogue!DropTable(t)
    PROVE  cat.proc = "ok" /\ Catalogue!Become(Catalogue!Deleted(Dropped(cat, t), "table", t))
  BY Zenon DEF Catalogue!DropTable, Catalogue!ForParts, Catalogue!OnPart, Catalogue!Ok,
         Catalogue!FoldLeftDomain, Catalogue!FoldLeft, Catalogue!MapThenFoldSet, Catalogue!Max, Max,
         Dropped, DropLoop, DropStep, DropOne, Indices

\* What the loop may make of b.
Dropping(b) == {c \in Cat : c = Catalogue!Faulty \/ Fades(b, c)}

LEMMA DropStepDrops ==
    ASSUME NEW b \in Cat, NEW c \in Dropping(b), NEW i \in DOMAIN b.objects, NEW type, NEW t
    PROVE  DropStep(c, i, type, t) \in Dropping(b)
  <1>1. Catalogue!Faulty \in Dropping(b)
    BY EmptySound DEF Dropping, Catalogue!Faulty, Sound, Loose
  <1>2. c \in Cat
    BY DEF Dropping
  <1>3. c # Catalogue!Faulty => Fades(b, c)
    BY DEF Dropping
  <1>4. c # Catalogue!Faulty => Fades(b, DropOne(c, i))
    BY <1>2, <1>3, DeletedFades, FadesOn DEF DropOne
  <1>5. c # Catalogue!Faulty => DropOne(c, i) \in Dropping(b)
    BY <1>4 DEF Dropping, Fades
  <1> QED BY <1>1, <1>5 DEF DropStep

\* f[m] is what the loop has done up to object m.
IsDropping(f, b, type, t) ==
    /\ f \in [0..Len(b.objects) -> Dropping(b)] /\ f[0] = b
    /\ \A m \in 1..Len(b.objects) : f[m] = DropStep(f[m - 1], m, type, t)

LEMMA DropLoopSteps ==
    ASSUME NEW b \in Cat, NEW type, NEW t
    PROVE  \E f : IsDropping(f, b, type, t) /\ DropLoop(b, type, t) = f[Len(b.objects)]
  <1> DEFINE n == Len(b.objects)
             D == Dropping(b)
             q == Indices(b)
             step == [i \in 1..n |-> [c \in D |-> DropStep(c, i, type, t)]]
             IsLoop(g) == g = [s \in SUBSET DOMAIN q |->
                            IF s = {} THEN b ELSE DropStep(g[s \ {Max(s)}], q[Max(s)], type, t)]
             F == CHOOSE g : IsLoop(g)
  <1>1. n \in Nat /\ DOMAIN b.objects = 1..n /\ DOMAIN q = 1..n /\ \A i \in 1..n : q[i] = i
    BY CatParts DEF Indices
  <1>2. b \in D
    BY <1>1 DEF Dropping, Fades
  <1>3. \A i \in 1..n, c \in D : DropStep(c, i, type, t) \in D
    BY Zenon, <1>1, DropStepDrops
  <1>4. IsStep(step, n, D)
    BY <1>3 DEF IsStep
  <1>5. DropLoop(b, type, t) = F[DOMAIN q]
    BY DEF DropLoop
  <1> HIDE DEF n, D, q
  <1>6. PICK g : IsSetFold(g, b, step, n, D)
    <2> HIDE DEF step
    <2> QED BY <1>1, <1>2, <1>4, SetRecursion
  <1>7. ASSUME NEW s \in SUBSET (1..n), s # {}
        PROVE  /\ Max(s) \in 1..n /\ q[Max(s)] = Max(s) /\ g[s \ {Max(s)}] \in D
               /\ g[s] = DropStep(g[s \ {Max(s)}], q[Max(s)], type, t)
    <2>1. Max(s) \in 1..n
      BY Zenon, <1>1, <1>7, MaxIsGreatest
    <2>2. s \ {Max(s)} \in SUBSET (1..n)
      BY Zenon
    <2>3. g[s \ {Max(s)}] \in D /\ g[s] = step[Max(s)][g[s \ {Max(s)}]]
      BY Zenon, <1>6, <1>7, <2>2 DEF IsSetFold
    <2> QED BY <1>1, <2>1, <2>3
  <1>8. IsLoop(g)
    <2>1. g \in [SUBSET (1..n) -> D] /\ g[{}] = b
      BY <1>6 DEF IsSetFold
    <2>2. \A s \in SUBSET (1..n) :
             g[s] = IF s = {} THEN b ELSE DropStep(g[s \ {Max(s)}], q[Max(s)], type, t)
      BY Zenon, <1>7, <2>1
    <2> QED BY <1>1, <2>1, <2>2
  <1>9. IsLoop(F)
    BY Zenon, <1>8
  <1> HIDE DEF F
  <1>10. F[{}] = b
    BY <1>1, <1>9
  <1>11. ASSUME NEW s \in SUBSET (1..n), s # {}, F[s \ {Max(s)}] \in D
         PROVE  F[s] = step[Max(s)][F[s \ {Max(s)}]]
    <2> DEFINE x == F[s \ {Max(s)}]
    <2>1. F[s] = DropStep(x, q[Max(s)], type, t)
      BY Zenon, <1>1, <1>9, <1>11
    <2>2. Max(s) \in 1..n /\ q[Max(s)] = Max(s) /\ x \in D
      BY Zenon, <1>7, <1>11
    <2> HIDE DEF x
    <2>3. step[Max(s)][x] = DropStep(x, Max(s), type, t)
      BY <2>2
    <2> QED BY <2>1, <2>2, <2>3 DEF x
  <1> HIDE DEF IsLoop
  <1>12. PICK f : IsFold(f, b, step, n, D) /\ F[1..n] = f[n]
    <2> HIDE DEF step
    <2>1. FoldsGreatest(F, b, step, n, D)
      BY Zenon, <1>10, <1>11 DEF FoldsGreatest
    <2> QED BY <1>1, <1>2, <1>4, <2>1, FoldSteps
  <1>13. f \in [0..n -> D] /\ f[0] = b
    BY <1>12 DEF IsFold
  <1>14. \A m \in 1..n : f[m] = DropStep(f[m - 1], m, type, t)
    <2> SUFFICES ASSUME NEW m \in 1..n PROVE f[m] = DropStep(f[m - 1], m, type, t)
      OBVIOUS
    <2>1. m - 1 \in 0..n
      BY <1>1
    <2>2. f[m] = step[m][f[m - 1]] /\ f[m - 1] \in D
      BY <1>12, <1>13, <2>1 DEF IsFold
    <2> QED BY <2>2
  <1> QED BY <1>1, <1>5, <1>12, <1>13, <1>14 DEF IsDropping, n, D

\* None of the first m objects is a part of t of the type.
PartsGone(c, type, t, m) ==
    \A i \in 1..m : c.objects[i].type = type => ~Catalogue!BelongsTo(c, i, t)

\* What is gone stays so when objects are dropped.
LEMMA GoneStays ==
    ASSUME NEW b \in Cat, NEW c, Fades(b, c), NEW type, NEW t, NEW m \in 0..Len(b.objects),
           PartsGone(b, type, t, m)
    PROVE  PartsGone(c, type, t, m)
  <1>1. \A i \in 1..m : i \in DOMAIN b.objects
    BY CatParts
  <1>2. \A i \in 1..m : Catalogue!BelongsTo(c, i, t) => Catalogue!BelongsTo(b, i, t)
    BY <1>1 DEF Fades, Catalogue!BelongsTo, Catalogue!DataOf
  <1> QED BY <1>1, <1>2 DEF PartsGone, Fades

\* A step of the loop drops the part it is at, if the names of the data are those of
\* the objects.
LEMMA DropStepTakes ==
    ASSUME NEW b \in Cat, KeysApart(b), Catalogue!Unrenamed(b), NEW c \in Dropping(b),
           c # Catalogue!Faulty, NEW m \in 0..Len(b.objects), m # Len(b.objects),
           NEW type, NEW t, PartsGone(c, type, t, m),
           DropStep(c, m + 1, type, t) # Catalogue!Faulty
    PROVE  PartsGone(DropStep(c, m + 1, type, t), type, t, m + 1)
  <1> DEFINE i == m + 1
             e == DropStep(c, i, type, t)
             name == Catalogue!DataOf(c, i).name
  <1>1. c \in Cat /\ Fades(b, c) /\ DOMAIN b.objects = 1..Len(b.objects) /\ Len(b.objects) \in Nat
    BY CatParts DEF Dropping
  <1>2. i \in DOMAIN b.objects /\ i \in DOMAIN c.objects /\ Len(c.objects) = Len(b.objects)
    BY <1>1, CatParts DEF Fades
  <1>3. name = c.objects[i].name
    BY <1>1, <1>2 DEF Fades, Catalogue!Unrenamed, Catalogue!DataOf
  <1>4. KeysApart(c)
    <2>1. DOMAIN c.objects = DOMAIN b.objects
      BY <1>1, CatParts DEF Fades
    <2> QED BY <1>1, <2>1 DEF Fades, KeysApart
  <1> HIDE DEF i
  <1>5. CASE c.objects[i].type = type /\ Catalogue!BelongsTo(c, i, t)
    <2>1. e = DropOne(c, i)
      BY <1>5 DEF DropStep, Catalogue!BelongsTo, i
    <2>2. e = Catalogue!Deleted(c, type, name)
      BY <1>5, <2>1 DEF DropOne
    <2> HIDE DEF e, name
    <2>3. Fades(c, e) /\ ~HasName(e, i, type, name)
      BY <1>1, <1>2, <1>4, <2>2, DeletedFades
    <2>4. PartsGone(e, type, t, m)
      BY <1>1, <1>2, <2>3, GoneStays
    <2>5. ~Catalogue!BelongsTo(e, i, t)
      BY <1>2, <1>3, <1>5, <2>3 DEF HasName, Fades, Catalogue!BelongsTo
    <2>6. \A j \in 1..i : j \in 1..m \/ j = i
      BY DEF i
    <2> QED BY <2>4, <2>5, <2>6 DEF PartsGone, e, i
  <1>6. CASE ~(c.objects[i].type = type /\ Catalogue!BelongsTo(c, i, t))
    <2>1. e = c
      BY <1>6 DEF DropStep, i
    <2>2. \A j \in 1..i : j \in 1..m \/ j = i
      BY DEF i
    <2> HIDE DEF e
    <2>3. PartsGone(e, type, t, i)
      BY <1>6, <2>1, <2>2 DEF PartsGone
    <2> QED BY <2>3 DEF e, i
  <1> QED BY <1>5, <1>6

\* The loop drops objects only, and all parts of the table that are of the type.
LEMMA DropLoopDrops ==
    ASSUME NEW b \in Cat, NEW type, NEW t
    PROVE  /\ DropLoop(b, type, t) \in Dropping(b)
           /\ KeysApart(b) /\ Catalogue!Unrenamed(b)
              /\ DropLoop(b, type, t) # Catalogue!Faulty
              => PartsGone(DropLoop(b, type, t), type, t, Len(b.objects))
  <1> DEFINE n == Len(b.objects)
  <1>1. n \in Nat
    BY CatParts
  <1>2. PICK f : IsDropping(f, b, type, t) /\ DropLoop(b, type, t) = f[n]
    BY DropLoopSteps
  <1>3. \A m \in 0..n : f[m] \in Dropping(b)
    BY <1>2 DEF IsDropping
  <1>4. ASSUME KeysApart(b), Catalogue!Unrenamed(b)
        PROVE  f[n] = Catalogue!Faulty \/ PartsGone(f[n], type, t, n)
    <2> DEFINE T == {m \in 0..n : f[m] = Catalogue!Faulty \/ PartsGone(f[m], type, t, m)}
    <2>1. 0 \in T
      BY <1>1 DEF PartsGone
    <2>2. ASSUME NEW m \in 0..n, m \in T, m # n PROVE m + 1 \in T
      <3>1. m + 1 \in 1..n /\ m + 1 \in 0..n /\ (m + 1) - 1 = m
        BY <1>1, <2>2
      <3>2. f[m + 1] = DropStep(f[m], m + 1, type, t)
        BY <1>2, <3>1 DEF IsDropping
      <3>3. CASE f[m] = Catalogue!Faulty
        BY <3>1, <3>2, <3>3 DEF DropStep
      <3>4. CASE f[m] # Catalogue!Faulty
        <4>1. PartsGone(f[m], type, t, m) /\ f[m] \in Dropping(b)
          BY <1>3, <2>2, <3>4
        <4>2. f[m + 1] # Catalogue!Faulty => PartsGone(f[m + 1], type, t, m + 1)
          BY <1>4, <2>2, <3>2, <3>4, <4>1, DropStepTakes
        <4> QED BY <3>1, <4>2
      <3> QED BY <3>3, <3>4
    <2> HIDE DEF T
    <2>3. \A m \in 0..n : m \in T
      BY Zenon, <1>1, <2>1, <2>2, UpTo
    <2>4. n \in T
      BY <1>1, <2>3
    <2> QED BY <2>4 DEF T
  <1> QED BY <1>1, <1>2, <1>3, <1>4

\* An empty catalogue stays as it is.
LEMMA FaultyStays ==
    ASSUME NEW type, NEW t
    PROVE  /\ DropLoop(Catalogue!Faulty, type, t) = Catalogue!Faulty
           /\ Catalogue!Deleted(Catalogue!Faulty, type, t) = Catalogue!Faulty
  <1> DEFINE b == Catalogue!Faulty
  <1>1. b \in Cat /\ Len(b.objects) = 0 /\ DOMAIN b.objects = {}
    <2>1. b \in Cat /\ b.objects = <<>>
      BY EmptySound DEF Catalogue!Faulty, Sound, Loose
    <2> HIDE DEF b
    <2> QED BY <2>1
  <1> HIDE DEF b
  <1>2. DropLoop(b, type, t) = b
    <2>1. PICK f : IsDropping(f, b, type, t) /\ DropLoop(b, type, t) = f[Len(b.objects)]
      BY <1>1, DropLoopSteps
    <2> QED BY <1>1, <2>1 DEF IsDropping
  <1>3. Catalogue!Lookup(b, type, t) = 0
    BY <1>1, LookupFinds DEF Ends
  <1>4. Catalogue!Deleted(b, type, t) = b
    BY <1>3 DEF Catalogue!Deleted
  <1> QED BY <1>2, <1>4 DEF b

DroppedTable(b, t) == Catalogue!Deleted(Dropped(b, t), "table", t)

\* To drop a table drops objects only, among them all parts of the table.
LEMMA DropTableDrops ==
    ASSUME NEW b \in Cat, NEW t
    PROVE  /\ DroppedTable(b, t) = Catalogue!Faulty \/ Fades(b, DroppedTable(b, t))
           /\ KeysApart(b) /\ Catalogue!Unrenamed(b) /\ DroppedTable(b, t) # Catalogue!Faulty
              => \A i \in DOMAIN DroppedTable(b, t).objects :
                    ~Catalogue!BelongsTo(DroppedTable(b, t), i, t)
  <1> DEFINE n == Len(b.objects)
             c == DropLoop(b, "column", t)
             d == DropLoop(c, "index", t)
             e == Catalogue!Deleted(d, "table", t)
  <1>1. DroppedTable(b, t) = e
    BY DEF DroppedTable, Dropped
  <1>2. /\ c \in Dropping(b)
        /\ KeysApart(b) /\ Catalogue!Unrenamed(b) /\ c # Catalogue!Faulty
           => PartsGone(c, "column", t, n)
    BY DropLoopDrops
  <1>3. c \in Cat
    BY <1>2 DEF Dropping
  <1>4. c = Catalogue!Faulty => e = Catalogue!Faulty
    BY FaultyStays
  <1>5. /\ d \in Dropping(c)
        /\ KeysApart(c) /\ Catalogue!Unrenamed(c) /\ d # Catalogue!Faulty
           => PartsGone(d, "index", t, Len(c.objects))
    BY <1>3, DropLoopDrops
  <1>6. d = Catalogue!Faulty => e = Catalogue!Faulty
    BY FaultyStays
  <1>7. d \in Cat
    BY <1>5 DEF Dropping
  <1>8. Fades(d, e)
    BY <1>7, DeletedFades
  <1> HIDE DEF c, d, e
  <1>9. ASSUME c # Catalogue!Faulty, d # Catalogue!Faulty
        PROVE  Fades(b, c) /\ Fades(c, d) /\ Fades(b, e)
    <2>1. Fades(b, c) /\ Fades(c, d)
      BY <1>2, <1>5, <1>9 DEF Dropping
    <2>2. Fades(b, d)
      BY <1>3, <2>1, FadesOn
    <2> QED BY <1>8, <2>1, <2>2, FadesOn
  <1>10. e = Catalogue!Faulty \/ Fades(b, e)
    BY <1>4, <1>6, <1>9
  <1>11. ASSUME KeysApart(b), Catalogue!Unrenamed(b), e # Catalogue!Faulty,
                NEW i \in DOMAIN e.objects, Catalogue!BelongsTo(e, i, t)
         PROVE  FALSE
    <2>1. Fades(b, c) /\ Fades(c, d) /\ Fades(b, e) /\ c # Catalogue!Faulty /\ d # Catalogue!Faulty
      BY <1>4, <1>6, <1>9, <1>11
    <2>2. DOMAIN c.objects = DOMAIN b.objects /\ DOMAIN d.objects = DOMAIN b.objects
          /\ DOMAIN e.objects = DOMAIN b.objects /\ DOMAIN b.objects = 1..n /\ n \in Nat
          /\ Len(c.objects) = n /\ Len(d.objects) = n
      BY <1>3, <1>7, <2>1, CatParts DEF Fades
    <2>3. KeysApart(c)
      BY <1>11, <2>1, <2>2 DEF Fades, KeysApart
    <2>4. Catalogue!Unrenamed(c)
      BY <1>11, <2>1, <2>2 DEF Fades, Catalogue!Unrenamed, Catalogue!DataOf
    <2>5. PartsGone(c, "column", t, n) /\ PartsGone(d, "index", t, n)
      BY <1>2, <1>5, <1>11, <2>1, <2>2, <2>3, <2>4
    <2>6. n \in 0..n
      BY <2>2
    <2>7. PartsGone(d, "column", t, n)
      BY <1>3, <2>1, <2>2, <2>5, <2>6, GoneStays
    <2>8. PartsGone(e, "column", t, n) /\ PartsGone(e, "index", t, n)
      BY Zenon, <1>7, <1>8, <2>2, <2>5, <2>6, <2>7, GoneStays
    <2>9. e.objects[i].type \in {"column", "index"}
      BY <1>11 DEF Catalogue!BelongsTo, Catalogue!Part
    <2> QED BY <1>11, <2>2, <2>8, <2>9 DEF PartsGone
  <1> QED BY <1>1, <1>10, <1>11

\* The same objects, with other data.
Retains(b, c) ==
    /\ Sound(c) /\ c.proc = b.proc
    /\ Len(c.objects) = Len(b.objects)
    /\ \A i \in DOMAIN b.objects : /\ c.objects[i].type = b.objects[i].type
                                   /\ c.objects[i].name = b.objects[i].name
                                   /\ c.objects[i].active = b.objects[i].active

\* The data in block d may be given to an object of the type.
DataFits(c, type, d) ==
    /\ d \in Catalogue!Block
    /\ \A j \in DOMAIN c.objects : c.objects[j].data = d => c.objects[j].type = type
    /\ c.data[d] = Catalogue!Freed \/ Names(type, c.data[d].name)

LEMMA RetainsFollows ==
    ASSUME NEW b \in Cat, NEW c, Retains(b, c)
    PROVE  Follows(b, c)
  <1>1. c \in Cat
    BY DEF Retains, Sound, Loose
  <1>2. DOMAIN c.objects = DOMAIN b.objects /\ Len(b.objects) <= Len(c.objects)
    BY <1>1, CatParts DEF Retains
  <1> QED BY <1>2 DEF Retains, Follows

LEMMA RetainsOn ==
    ASSUME NEW a \in Cat, NEW b \in Cat, NEW c, Retains(a, b), Retains(b, c)
    PROVE  Retains(a, c)
  <1>1. DOMAIN b.objects = DOMAIN a.objects
    BY CatParts DEF Retains
  <1> QED BY <1>1 DEF Retains

\* What names an object is a name.
LEMMA NamesAreNames ==
    ASSUME NEW type, NEW n, Names(type, n)
    PROVE  type \in KeyType /\ n \in Catalogue!Name
  BY DEF Names, Catalogue!FileName, Catalogue!Name, KeyType

\* Block d of the data becomes v.
Written(c, d, v) == [c EXCEPT !.data = [@ EXCEPT ![d] = v]]

LEMMA WrittenRetains ==
    ASSUME NEW c, Sound(c), NEW i \in DOMAIN c.objects,
           NEW v \in Datum, Names(c.objects[i].type, v.name)
    PROVE  /\ Retains(c, Written(c, c.objects[i].data, v))
           /\ Written(c, c.objects[i].data, v).objects = c.objects
           /\ Written(c, c.objects[i].data, v).data[c.objects[i].data] = v
           /\ DataFits(Written(c, c.objects[i].data, v), c.objects[i].type, c.objects[i].data)
  <1> DEFINE d == c.objects[i].data
             e == Written(c, d, v)
  <1>1. c \in Cat /\ d \in Catalogue!Block
    BY DEF Sound, Loose, DataInHeap
  <1>2. /\ e.objects = c.objects /\ e.proc = c.proc
        /\ e.data = [c.data EXCEPT ![d] = v]
        /\ e = [c EXCEPT !.data = e.data]
    BY <1>1 DEF Written, Cat
  <1>3. c.data \in [Catalogue!Block -> Datum]
    BY <1>1, CatParts
  <1> HIDE DEF e
  <1>4. /\ e.data \in [Catalogue!Block -> Datum] /\ e.data[d] = v
        /\ \A x \in Catalogue!Block : x # d => e.data[x] = c.data[x]
    BY <1>1, <1>2, <1>3
  <1>5. e \in Cat
    BY <1>1, <1>2, <1>4 DEF Cat
  <1>6. \A j \in DOMAIN c.objects : c.objects[j].data = d => c.objects[j].type = c.objects[i].type
    BY DEF Sound, Loose, DataTyped
  <1>7. KeysApart(e) /\ KeysNamed(e) /\ DataTyped(e) /\ DataInHeap(e)
    BY <1>2 DEF Sound, Loose, KeysApart, KeysNamed, DataTyped, DataInHeap
  <1>8. DataNamed(e)
    <2> SUFFICES ASSUME NEW j \in DOMAIN e.objects, e.objects[j].data \in Catalogue!Block
                 PROVE  \/ Catalogue!DataOf(e, j) = Catalogue!Freed
                        \/ Names(e.objects[j].type, Catalogue!DataOf(e, j).name)
      BY DEF DataNamed
    <2>1. CASE e.objects[j].data = d
      BY <1>2, <1>4, <1>6, <2>1 DEF Catalogue!DataOf
    <2>2. CASE e.objects[j].data # d
      <3>1. Catalogue!DataOf(e, j) = Catalogue!DataOf(c, j)
        BY <1>2, <1>4, <2>2 DEF Catalogue!DataOf
      <3> QED BY <1>2, <3>1 DEF Sound, Loose, DataNamed
    <2> QED BY <2>1, <2>2
  <1>9. Retains(c, e)
    BY <1>2, <1>5, <1>7, <1>8 DEF Retains, Sound, Loose
  <1>10. DataFits(e, c.objects[i].type, d)
    BY <1>1, <1>2, <1>4, <1>6 DEF DataFits
  <1> QED BY <1>2, <1>4, <1>9, <1>10 DEF e

\* Object i gets the data in block d, and its own are freed.
Given(c, i, d) ==
    [c EXCEPT !.data[c.objects[i].data] = Catalogue!Freed, !.objects[i].data = d, !.dirty = TRUE]

LEMMA GivenRetains ==
    ASSUME NEW c, Sound(c), NEW i \in DOMAIN c.objects, NEW d,
           DataFits(c, c.objects[i].type, d)
    PROVE  Retains(c, Given(c, i, d))
  <1> DEFINE o == [c.objects[i] EXCEPT !.data = d]
             old == c.objects[i].data
             e == Given(c, i, d)
  <1>1. c \in Cat /\ old \in Catalogue!Block /\ d \in Catalogue!Block
    BY DEF Sound, Loose, DataInHeap, DataFits
  <1>2. c.objects \in Seq(CatEntry) /\ c.objects[i] \in CatEntry /\ DOMAIN c.objects = 1..Len(c.objects)
        /\ c.data \in [Catalogue!Block -> Datum]
    BY <1>1, CatParts
  <1>3. d \in Nat \ {0}
    BY <1>1 DEF Catalogue!Block
  <1>4. /\ o \in CatEntry /\ o.active = c.objects[i].active /\ o.type = c.objects[i].type
        /\ o.name = c.objects[i].name /\ o.data = d
    BY Zenon, <1>2, <1>3 DEF CatEntry
  <1>5. /\ e.objects = [c.objects EXCEPT ![i] = o] /\ e.proc = c.proc
        /\ e.data = [c.data EXCEPT ![old] = Catalogue!Freed]
    BY <1>1 DEF Given, Cat
  <1>6. e = [c EXCEPT !.objects = e.objects, !.data = e.data, !.dirty = TRUE]
    BY Zenon, <1>1, <1>5 DEF Given, Cat
  <1> HIDE DEF o, e
  <1>7. e.objects \in Seq(CatEntry) /\ Len(e.objects) = Len(c.objects)
        /\ DOMAIN e.objects = DOMAIN c.objects
    BY <1>2, <1>4, <1>5
  <1>8. /\ e.data \in [Catalogue!Block -> Datum] /\ e.data[old] = Catalogue!Freed
        /\ \A x \in Catalogue!Block : x # old => e.data[x] = c.data[x]
    BY <1>1, <1>2, <1>5 DEF Datum
  <1>9. e \in Cat
    BY Zenon, <1>1, <1>6, <1>7, <1>8 DEF Cat
  <1>10. \A j \in DOMAIN c.objects : e.objects[j] = IF j = i THEN o ELSE c.objects[j]
    BY <1>2, <1>5
  <1>11. \A j \in DOMAIN c.objects : /\ e.objects[j].type = c.objects[j].type
                                     /\ e.objects[j].name = c.objects[j].name
                                     /\ e.objects[j].active = c.objects[j].active
                                     /\ e.objects[j].data = IF j = i THEN d ELSE c.objects[j].data
    BY <1>4, <1>10
  <1>12. KeysApart(e) /\ KeysNamed(e)
    BY <1>7, <1>11 DEF Sound, Loose, KeysApart, KeysNamed
  <1>13. DataInHeap(e)
    BY <1>1, <1>7, <1>11 DEF Sound, DataInHeap
  <1>14. DataTyped(e)
    BY <1>7, <1>11 DEF Sound, Loose, DataTyped, DataFits
  <1>15. DataNamed(e)
    <2> SUFFICES ASSUME NEW j \in DOMAIN e.objects, Catalogue!DataOf(e, j) # Catalogue!Freed
                 PROVE  Names(e.objects[j].type, Catalogue!DataOf(e, j).name)
      BY DEF DataNamed
    <2>1. e.objects[j].data # old /\ e.objects[j].data \in Catalogue!Block
      BY <1>8, <1>13 DEF Catalogue!DataOf, DataInHeap
    <2>2. Catalogue!DataOf(e, j) = c.data[e.objects[j].data]
      BY <1>8, <2>1 DEF Catalogue!DataOf
    <2>3. CASE j = i
      BY <1>7, <1>11, <2>2, <2>3 DEF DataFits
    <2>4. CASE j # i
      BY <1>7, <1>11, <2>1, <2>2, <2>4 DEF Sound, Loose, DataNamed, Catalogue!DataOf
    <2> QED BY <2>3, <2>4
  <1> QED BY <1>5, <1>7, <1>9, <1>11, <1>12, <1>13, <1>14, <1>15 DEF Retains, Sound, Loose, e

LEMMA AttachedRetains ==
    ASSUME NEW c, Sound(c), NEW type, NEW name, NEW d, DataFits(c, type, d)
    PROVE  \/ Catalogue!Attached(c, type, name, d) = Catalogue!Faulty
           \/ Retains(c, Catalogue!Attached(c, type, name, d))
  <1> DEFINE i == Catalogue!Lookup(c, type, name)
             e == Catalogue!Attached(c, type, name, d)
  <1>1. c \in Cat
    BY DEF Sound, Loose
  <1>2. Ends(c, i, type, name)
    BY <1>1, LookupFinds
  <1>3. e = IF i = 0 THEN c ELSE IF Catalogue!DataOf(c, i) = Catalogue!Freed THEN Catalogue!Faulty
            ELSE Given(c, i, d)
    BY DEF Catalogue!Attached, Given
  <1>4. Retains(c, c)
    BY DEF Retains
  <1> HIDE DEF i, e
  <1>5. i # 0 => Retains(c, Given(c, i, d))
    BY <1>2, GivenRetains DEF Ends, HasName
  <1> QED BY <1>3, <1>4, <1>5 DEF e

\* The data of an object get another name, or owner.
NewlyNamed(c, i, new) == [c EXCEPT !.data[c.objects[i].data].name = new]
Moved(c, i, new) == [c EXCEPT !.data[c.objects[i].data].owner = new]

LEMMA RenamedRetains ==
    ASSUME NEW c, Sound(c), NEW i \in DOMAIN c.objects, NEW new,
           Catalogue!DataOf(c, i) # Catalogue!Freed, Names(c.objects[i].type, new)
    PROVE  /\ Retains(c, NewlyNamed(c, i, new))
           /\ DataFits(NewlyNamed(c, i, new), c.objects[i].type, c.objects[i].data)
  <1> DEFINE d == c.objects[i].data
             v == [c.data[d] EXCEPT !.name = new]
  <1>1. c \in Cat /\ d \in Catalogue!Block
    BY DEF Sound, Loose, DataInHeap
  <1>2. c.data[d] \in [name : Catalogue!Name, owner : TableName \cup {NoTable}]
    BY <1>1, CatParts DEF Datum, Catalogue!DataOf
  <1>3. new \in Catalogue!Name
    BY NamesAreNames
  <1>4. v \in Datum /\ v.name = new
    BY <1>2, <1>3 DEF Datum
  <1>5. NewlyNamed(c, i, new) = Written(c, d, v)
    BY <1>1 DEF NewlyNamed, Written, Cat
  <1> HIDE DEF v, d
  <1>6. Retains(c, Written(c, d, v)) /\ DataFits(Written(c, d, v), c.objects[i].type, d)
    BY <1>4, WrittenRetains DEF d
  <1> QED BY <1>5, <1>6 DEF d

LEMMA MovedRetains ==
    ASSUME NEW c, Sound(c), NEW i \in DOMAIN c.objects, NEW new \in TableName,
           Catalogue!DataOf(c, i) # Catalogue!Freed
    PROVE  /\ Retains(c, Moved(c, i, new))
           /\ DataFits(Moved(c, i, new), c.objects[i].type, c.objects[i].data)
  <1> DEFINE d == c.objects[i].data
             v == [c.data[d] EXCEPT !.owner = new]
  <1>1. c \in Cat /\ d \in Catalogue!Block
    BY DEF Sound, Loose, DataInHeap
  <1>2. c.data[d] \in [name : Catalogue!Name, owner : TableName \cup {NoTable}]
    BY <1>1, CatParts DEF Datum, Catalogue!DataOf
  <1>3. Names(c.objects[i].type, c.data[d].name)
    BY <1>1 DEF Sound, Loose, DataNamed, Catalogue!DataOf
  <1>4. v \in Datum /\ v.name = c.data[d].name
    BY <1>2 DEF Datum
  <1>5. Moved(c, i, new) = Written(c, d, v)
    BY <1>1 DEF Moved, Written, Cat
  <1> HIDE DEF v, d
  <1>6. Retains(c, Written(c, d, v)) /\ DataFits(Written(c, d, v), c.objects[i].type, d)
    BY <1>3, <1>4, WrittenRetains DEF d
  <1> QED BY <1>5, <1>6 DEF d

\* What a step of the loop of a renaming does: part i of t gets the table new.
FollowOne(c, i, new) ==
    Catalogue!Attached(Moved(c, i, new), c.objects[i].type, Catalogue!DataOf(c, i).name,
                       c.objects[i].data)
FollowStep(c, i, type, t, new) ==
    IF c = Catalogue!Faulty \/ c.objects[i].type # type \/ ~c.objects[i].active THEN c
    ELSE IF Catalogue!DataOf(c, i) = Catalogue!Freed THEN Catalogue!Faulty
    ELSE IF Catalogue!BelongsTo(c, i, t) THEN FollowOne(c, i, new) ELSE c
FollowLoop(c, type, t, new) ==
    LET iter[s \in SUBSET DOMAIN Indices(c)] ==
          IF s = {} THEN c ELSE FollowStep(iter[s \ {Max(s)}], Indices(c)[Max(s)], type, t, new)
    IN  iter[DOMAIN Indices(c)]
Followed(c, t, new) == FollowLoop(FollowLoop(c, "column", t, new), "index", t, new)

\* What renaming a table makes of the catalogue.
RenamedTable(c, i, old, new) ==
    IF Catalogue!DataOf(c, i) = Catalogue!Freed THEN Catalogue!Faulty
    ELSE IF Catalogue!Lookup(c, "table", new) = 0 THEN NewlyNamed(c, i, new)
    ELSE Followed(Catalogue!Attached(NewlyNamed(c, i, new), "table", new, c.objects[i].data), old, new)

LEMMA RenameTableIs ==
    ASSUME NEW old, NEW new, Catalogue!RenameTable(old, new)
    PROVE  /\ cat.proc = "ok" /\ Catalogue!Lookup(cat, "table", old) # 0
           /\ Catalogue!Become(RenamedTable(cat, Catalogue!Lookup(cat, "table", old), old, new))
  <1>1. cat.proc = "ok" /\ Catalogue!Lookup(cat, "table", old) # 0
    BY Zenon DEF Catalogue!RenameTable, Catalogue!Ok
  <1>2. Catalogue!Become(RenamedTable(cat, Catalogue!Lookup(cat, "table", old), old, new))
    BY Zenon DEF Catalogue!RenameTable, Catalogue!ForParts, Catalogue!OnPart,
         Catalogue!FoldLeftDomain, Catalogue!FoldLeft, Catalogue!MapThenFoldSet, Catalogue!Max, Max,
         Followed, FollowLoop, FollowStep, FollowOne, Indices, RenamedTable, NewlyNamed, Moved
  <1> QED BY <1>1, <1>2

\* What the loop may make of b.
Following(b) == {c \in Cat : c = Catalogue!Faulty \/ Retains(b, c)}

LEMMA FollowStepFollows ==
    ASSUME NEW b \in Cat, NEW c \in Following(b), NEW i \in DOMAIN b.objects, NEW type, NEW t,
           NEW new \in TableName
    PROVE  FollowStep(c, i, type, t, new) \in Following(b)
  <1> DEFINE name == Catalogue!DataOf(c, i).name
             d == c.objects[i].data
             ty == c.objects[i].type
             m == Moved(c, i, new)
             e == FollowOne(c, i, new)
  <1>1. Catalogue!Faulty \in Following(b)
    BY EmptySound DEF Following, Catalogue!Faulty, Sound, Loose
  <1>2. c \in Cat /\ (c # Catalogue!Faulty => Retains(b, c))
    BY DEF Following
  <1>3. ASSUME c # Catalogue!Faulty, Catalogue!DataOf(c, i) # Catalogue!Freed
        PROVE  e \in Following(b)
    <2>1. Sound(c) /\ i \in DOMAIN c.objects
      BY <1>2, <1>3, CatParts DEF Retains
    <2>2. Retains(c, m) /\ DataFits(m, ty, d)
      BY <1>3, <2>1, MovedRetains
    <2>3. e = Catalogue!Attached(m, ty, name, d)
      BY DEF FollowOne
    <2> HIDE DEF m, e, d, name, ty
    <2>4. Sound(m)
      BY <2>2 DEF Retains
    <2>5. e = Catalogue!Faulty \/ Retains(m, e)
      BY <2>2, <2>3, <2>4, AttachedRetains
    <2>6. m \in Cat
      BY <2>4 DEF Sound, Loose
    <2>7. Retains(m, e) => Retains(b, e)
      <3>1. Retains(b, m)
        BY <1>2, <1>3, <2>2, <2>6, RetainsOn
      <3> QED BY <2>6, <3>1, RetainsOn
    <2>8. Retains(b, e) => e \in Cat
      BY DEF Retains, Sound, Loose
    <2> QED BY <1>1, <2>5, <2>7, <2>8 DEF Following
  <1> QED BY <1>1, <1>3 DEF FollowStep

\* The loop leaves what it may.
LEMMA FollowLoopFollows ==
    ASSUME NEW b, Sound(b), NEW type, NEW t, NEW new \in TableName
    PROVE  /\ FollowLoop(b, type, t, new) \in Following(b)
           /\ Len(b.objects) = 0 => FollowLoop(b, type, t, new) = b
  <1> DEFINE n == Len(b.objects)
             D == Following(b)
             q == Indices(b)
             step == [i \in 1..n |-> [c \in D |-> FollowStep(c, i, type, t, new)]]
             IsLoop(g) == g = [s \in SUBSET DOMAIN q |->
                            IF s = {} THEN b
                            ELSE FollowStep(g[s \ {Max(s)}], q[Max(s)], type, t, new)]
             F == CHOOSE g : IsLoop(g)
  <1>0. b \in Cat
    BY DEF Sound, Loose
  <1>1. n \in Nat /\ DOMAIN b.objects = 1..n /\ DOMAIN q = 1..n /\ \A i \in 1..n : q[i] = i
    BY <1>0, CatParts DEF Indices
  <1>2. b \in D
    BY <1>0, <1>1 DEF Following, Retains
  <1>3. \A i \in 1..n, c \in D : FollowStep(c, i, type, t, new) \in D
    BY Zenon, <1>0, <1>1, FollowStepFollows
  <1>4. IsStep(step, n, D)
    BY <1>3 DEF IsStep
  <1>5. FollowLoop(b, type, t, new) = F[DOMAIN q]
    BY DEF FollowLoop
  <1> HIDE DEF n, D, q
  <1>6. PICK g : IsSetFold(g, b, step, n, D)
    <2> HIDE DEF step
    <2> QED BY <1>1, <1>2, <1>4, SetRecursion
  <1>7. ASSUME NEW s \in SUBSET (1..n), s # {}
        PROVE  /\ Max(s) \in 1..n /\ q[Max(s)] = Max(s) /\ g[s \ {Max(s)}] \in D
               /\ g[s] = FollowStep(g[s \ {Max(s)}], q[Max(s)], type, t, new)
    <2>1. Max(s) \in 1..n
      BY <1>1, <1>7, MaxIsGreatest
    <2>2. s \ {Max(s)} \in SUBSET (1..n)
      BY Zenon
    <2>3. g[s \ {Max(s)}] \in D /\ g[s] = step[Max(s)][g[s \ {Max(s)}]]
      BY <1>6, <1>7, <2>2 DEF IsSetFold
    <2> QED BY <1>1, <2>1, <2>3
  <1>8. IsLoop(g)
    <2>1. g \in [SUBSET (1..n) -> D] /\ g[{}] = b
      BY <1>6 DEF IsSetFold
    <2>2. \A s \in SUBSET (1..n) :
             g[s] = IF s = {} THEN b ELSE FollowStep(g[s \ {Max(s)}], q[Max(s)], type, t, new)
      BY Zenon, <1>7, <2>1
    <2> QED BY <1>1, <2>1, <2>2
  <1>9. IsLoop(F)
    BY Zenon, <1>8
  <1> HIDE DEF F
  <1>10. F[{}] = b
    BY <1>1, <1>9
  <1>11. ASSUME NEW s \in SUBSET (1..n), s # {}, F[s \ {Max(s)}] \in D
         PROVE  F[s] = step[Max(s)][F[s \ {Max(s)}]]
    <2> DEFINE x == F[s \ {Max(s)}]
    <2>1. F[s] = FollowStep(x, q[Max(s)], type, t, new)
      BY Zenon, <1>1, <1>9, <1>11
    <2>2. Max(s) \in 1..n /\ q[Max(s)] = Max(s) /\ x \in D
      BY Zenon, <1>7, <1>11
    <2> HIDE DEF x
    <2>3. step[Max(s)][x] = FollowStep(x, Max(s), type, t, new)
      BY <2>2
    <2> QED BY <2>1, <2>2, <2>3 DEF x
  <1> HIDE DEF IsLoop
  <1>12. PICK f : IsFold(f, b, step, n, D) /\ F[1..n] = f[n]
    <2> HIDE DEF step
    <2>1. FoldsGreatest(F, b, step, n, D)
      BY <1>10, <1>11 DEF FoldsGreatest
    <2> QED BY <1>1, <1>2, <1>4, <2>1, FoldSteps
  <1>13. f[n] \in D /\ f[0] = b
    BY <1>1, <1>12 DEF IsFold
  <1> QED BY <1>1, <1>5, <1>12, <1>13 DEF D, n

\* To rename a table changes data, and the objects they belong to.
LEMMA RenameTableRetains ==
    ASSUME NEW c, Sound(c), NEW i \in DOMAIN c.objects, c.objects[i].type = "table",
           NEW old \in TableName, NEW new \in TableName
    PROVE  RenamedTable(c, i, old, new) = Catalogue!Faulty \/ Retains(c, RenamedTable(c, i, old, new))
  <1> DEFINE r == NewlyNamed(c, i, new)
             a == Catalogue!Attached(r, "table", new, c.objects[i].data)
             f == FollowLoop(a, "column", old, new)
             g == FollowLoop(f, "index", old, new)
  <1>0. c \in Cat /\ Names("table", new)
    BY DEF Sound, Loose, Names, Catalogue!FileName
  <1>1. SUFFICES ASSUME Catalogue!DataOf(c, i) # Catalogue!Freed
                 PROVE  Retains(c, r) /\ (g = Catalogue!Faulty \/ Retains(c, g))
    BY DEF RenamedTable, Followed
  <1>2. Retains(c, r) /\ DataFits(r, "table", c.objects[i].data)
    BY <1>0, <1>1, RenamedRetains
  <1>3. Sound(r) /\ r \in Cat
    BY <1>2 DEF Retains, Sound, Loose
  <1> HIDE DEF r
  <1>4. a = Catalogue!Faulty \/ Retains(r, a)
    BY <1>2, <1>3, AttachedRetains
  <1>5. Sound(a) /\ a \in Cat
    BY <1>4, EmptySound DEF Retains, Sound, Loose, Catalogue!Faulty
  <1> HIDE DEF a
  <1>6. f \in Following(a) /\ (Len(a.objects) = 0 => f = a)
    BY <1>5, FollowLoopFollows
  <1>7. Sound(f) /\ f \in Cat
    BY <1>6, EmptySound DEF Following, Retains, Sound, Loose, Catalogue!Faulty
  <1> HIDE DEF f
  <1>8. g \in Following(f) /\ (Len(f.objects) = 0 => g = f)
    BY <1>7, FollowLoopFollows
  <1> HIDE DEF g
  <1>9. g \in Cat /\ (g = Catalogue!Faulty \/ Retains(f, g)) /\ (f = Catalogue!Faulty \/ Retains(a, f))
    BY <1>6, <1>8 DEF Following
  <1>10. Len(Catalogue!Faulty.objects) = 0
    BY EmptySound DEF Catalogue!Faulty
  <1>11. g # Catalogue!Faulty => a # Catalogue!Faulty /\ f # Catalogue!Faulty
    BY <1>6, <1>8, <1>10
  <1>12. g # Catalogue!Faulty => Retains(r, a) /\ Retains(a, f) /\ Retains(f, g)
    BY <1>4, <1>9, <1>11
  <1> QED BY <1>0, <1>2, <1>3, <1>5, <1>7, <1>9, <1>12, RetainsOn

\* Object i gets data v in block d, and its own are freed.
Updated(c, i, d, v) ==
    [c EXCEPT !.data[c.objects[i].data] = Catalogue!Freed, !.data[d] = v,
              !.objects[i].data = d, !.dirty = TRUE]

LEMMA UpdatedRetains ==
    ASSUME NEW c, Sound(c), NEW i \in DOMAIN c.objects, NEW d \in Catalogue!Block,
           \A j \in DOMAIN c.objects : j # i => c.objects[j].data # d,
           NEW v \in Datum, Names(c.objects[i].type, v.name)
    PROVE  Retains(c, Updated(c, i, d, v))
  <1> DEFINE o == [c.objects[i] EXCEPT !.data = d]
             old == c.objects[i].data
             e == Updated(c, i, d, v)
  <1>1. c \in Cat /\ old \in Catalogue!Block
    BY DEF Sound, Loose, DataInHeap
  <1>2. c.objects \in Seq(CatEntry) /\ c.objects[i] \in CatEntry /\ DOMAIN c.objects = 1..Len(c.objects)
        /\ c.data \in [Catalogue!Block -> Datum]
    BY <1>1, CatParts
  <1>3. d \in Nat \ {0}
    BY DEF Catalogue!Block
  <1>4. /\ o \in CatEntry /\ o.active = c.objects[i].active /\ o.type = c.objects[i].type
        /\ o.name = c.objects[i].name /\ o.data = d
    BY Zenon, <1>2, <1>3 DEF CatEntry
  <1>5. /\ e.objects = [c.objects EXCEPT ![i] = o] /\ e.proc = c.proc
        /\ e.data = [[c.data EXCEPT ![old] = Catalogue!Freed] EXCEPT ![d] = v]
    BY <1>1 DEF Updated, Cat
  <1>6. e = [c EXCEPT !.objects = e.objects, !.data = e.data, !.dirty = TRUE]
    BY Zenon, <1>1, <1>5 DEF Updated, Cat
  <1> HIDE DEF o, e
  <1>7. e.objects \in Seq(CatEntry) /\ Len(e.objects) = Len(c.objects)
        /\ DOMAIN e.objects = DOMAIN c.objects
    BY <1>2, <1>4, <1>5
  <1>8. /\ e.data \in [Catalogue!Block -> Datum] /\ e.data[d] = v
        /\ old # d => e.data[old] = Catalogue!Freed
        /\ \A x \in Catalogue!Block : x # old /\ x # d => e.data[x] = c.data[x]
    BY ZenonT(60), <1>1, <1>2, <1>5 DEF Datum
  <1>9. e \in Cat
    BY Zenon, <1>1, <1>6, <1>7, <1>8 DEF Cat
  <1>10. \A j \in DOMAIN c.objects : e.objects[j] = IF j = i THEN o ELSE c.objects[j]
    BY <1>2, <1>5
  <1>11. \A j \in DOMAIN c.objects : /\ e.objects[j].type = c.objects[j].type
                                     /\ e.objects[j].name = c.objects[j].name
                                     /\ e.objects[j].active = c.objects[j].active
                                     /\ e.objects[j].data = IF j = i THEN d ELSE c.objects[j].data
    BY <1>4, <1>10
  <1>12. KeysApart(e) /\ KeysNamed(e)
    BY <1>7, <1>11 DEF Sound, Loose, KeysApart, KeysNamed
  <1>13. DataInHeap(e)
    BY <1>1, <1>7, <1>11 DEF Sound, DataInHeap
  <1>14. DataTyped(e)
    BY <1>7, <1>11 DEF Sound, Loose, DataTyped
  <1>15. DataNamed(e)
    <2> SUFFICES ASSUME NEW j \in DOMAIN e.objects, Catalogue!DataOf(e, j) # Catalogue!Freed
                 PROVE  Names(e.objects[j].type, Catalogue!DataOf(e, j).name)
      BY DEF DataNamed
    <2>1. CASE j = i
      BY <1>7, <1>8, <1>11, <2>1 DEF Catalogue!DataOf
    <2>2. CASE j # i
      <3>1. e.objects[j].data = c.objects[j].data /\ c.objects[j].data # d
            /\ c.objects[j].data \in Catalogue!Block
        BY <1>7, <1>11, <2>2 DEF Sound, DataInHeap
      <3>2. c.objects[j].data # old
        BY <1>8, <3>1 DEF Catalogue!DataOf
      <3>3. Catalogue!DataOf(e, j) = Catalogue!DataOf(c, j)
        BY <1>8, <3>1, <3>2 DEF Catalogue!DataOf
      <3> QED BY <1>7, <1>11, <3>1, <3>3 DEF Sound, Loose, DataNamed
    <2> QED BY <2>1, <2>2
  <1> QED BY <1>5, <1>7, <1>9, <1>11, <1>12, <1>13, <1>14, <1>15 DEF Retains, Sound, Loose, e

\* The objects of b are as they were, and there are new ones, whose blocks are among
\* the first.
Extends(b, c) ==
    /\ Loose(c) /\ c.proc = b.proc
    /\ Len(b.objects) <= Len(c.objects)
    /\ \A i \in DOMAIN b.objects : /\ c.objects[i] = b.objects[i]
                                   /\ c.data[b.objects[i].data] = b.data[b.objects[i].data]
    /\ \A i \in DOMAIN c.objects \ DOMAIN b.objects :
          c.objects[i].active /\ c.objects[i].data \in 1..i

\* Such a catalogue is sound if it is not too long.
LEMMA ExtendsSound ==
    ASSUME NEW b, Sound(b), NEW c, Extends(b, c), Len(c.objects) <= MaxObjects, MaxObjects \in Nat
    PROVE  Sound(c) /\ Follows(b, c)
  <1>1. b \in Cat /\ c \in Cat
    BY DEF Extends, Sound, Loose
  <1>2. DOMAIN c.objects = 1..Len(c.objects) /\ Len(c.objects) \in Nat
    BY <1>1, CatParts
  <1>3. \A i \in DOMAIN c.objects : 1..i \subseteq Catalogue!Block
    BY <1>2 DEF Catalogue!Block
  <1>4. DataInHeap(c)
    BY <1>3 DEF Extends, Sound, DataInHeap
  <1> QED BY <1>4 DEF Extends, Sound, Follows

LEMMA CreatedExtends ==
    ASSUME NEW b, Sound(b), NEW c, Extends(b, c), NEW type, NEW name, Names(type, name),
           NEW owner \in TableName \cup {NoTable}
    PROVE  Extends(b, Catalogue!Created(c, type, name, owner))
  <1> DEFINE d == Catalogue!Fresh(c)
             v == [name |-> name, owner |-> owner]
             o == [type |-> type, name |-> name, active |-> TRUE, data |-> d]
             e == [c EXCEPT !.data[d] = v, !.objects = Append(@, o), !.dirty = TRUE]
             n == Len(c.objects)
  <1>1. c \in Cat /\ b \in Cat
    BY DEF Extends, Sound, Loose
  <1>2. SUFFICES ASSUME Catalogue!IsFree(c, type, name) PROVE Extends(b, e)
    BY DEF Catalogue!Created
  <1>3. c.objects \in Seq(CatEntry) /\ DOMAIN c.objects = 1..n /\ n \in Nat
        /\ c.data \in [Catalogue!Block -> Datum]
        /\ \A j \in DOMAIN c.objects : c.objects[j] \in CatEntry
    BY <1>1, CatParts
  <1>4. d \in 1..(n + 1) /\ \A j \in DOMAIN c.objects : c.objects[j].data # d
    BY <1>1, FreshIsFree
  <1>5. type \in KeyType /\ name \in Catalogue!Name
    BY NamesAreNames
  <1>6. v \in Datum /\ v.name = name
    BY <1>5 DEF Datum
  <1> HIDE DEF d, n
  <1>7. o \in CatEntry /\ o.type = type /\ o.name = name /\ o.active /\ o.data = d
    BY <1>3, <1>4, <1>5 DEF CatEntry
  <1>8. /\ e.objects = Append(c.objects, o) /\ e.proc = c.proc
        /\ e.data = [c.data EXCEPT ![d] = v]
    BY <1>1 DEF Cat
  <1>9. e = [c EXCEPT !.objects = e.objects, !.data = e.data, !.dirty = TRUE]
    BY Zenon, <1>1, <1>8 DEF Cat
  <1> HIDE DEF o, e, v
  <1>10. /\ e.objects \in Seq(CatEntry) /\ Len(e.objects) = n + 1
         /\ DOMAIN e.objects = DOMAIN c.objects \cup {n + 1} /\ n + 1 \notin DOMAIN c.objects
         /\ \A j \in DOMAIN c.objects : e.objects[j] = c.objects[j]
         /\ e.objects[n + 1] = o
    BY <1>3, <1>7, <1>8 DEF n
  <1>11. /\ e.data \in [Catalogue!Block -> Datum]
         /\ d \in Catalogue!Block => e.data[d] = v
         /\ \A x \in Catalogue!Block : x # d => e.data[x] = c.data[x]
    BY Zenon, <1>3, <1>6, <1>8
  <1>12. e \in Cat
    BY Zenon, <1>1, <1>9, <1>10, <1>11 DEF Cat
  <1>13. KeysApart(e)
    <2>1. \A j \in DOMAIN c.objects : ~(c.objects[j].type = type /\ c.objects[j].name = name)
      BY <1>2 DEF Catalogue!IsFree, Catalogue!KeyOf
    <2>2. KeysApart(c)
      BY DEF Extends, Loose
    <2> QED BY <1>7, <1>10, <2>1, <2>2 DEF KeysApart
  <1>14. KeysNamed(e)
    BY <1>7, <1>10 DEF Extends, Loose, KeysNamed
  <1>15. DataTyped(e)
    BY <1>4, <1>7, <1>10 DEF Extends, Loose, DataTyped
  <1>16. DataNamed(e)
    <2> SUFFICES ASSUME NEW j \in DOMAIN e.objects, e.objects[j].data \in Catalogue!Block,
                        Catalogue!DataOf(e, j) # Catalogue!Freed
                 PROVE  Names(e.objects[j].type, Catalogue!DataOf(e, j).name)
      BY DEF DataNamed
    <2>1. CASE j = n + 1
      BY <1>6, <1>7, <1>10, <1>11, <2>1 DEF Catalogue!DataOf
    <2>2. CASE j \in DOMAIN c.objects
      <3>1. Catalogue!DataOf(e, j) = Catalogue!DataOf(c, j)
        BY <1>4, <1>10, <1>11, <2>2 DEF Catalogue!DataOf
      <3> QED BY <1>10, <2>2, <3>1 DEF Extends, Loose, DataNamed
    <2> QED BY <1>10, <2>1, <2>2
  <1>17. \A i \in DOMAIN b.objects : i \in DOMAIN c.objects
    BY <1>1, <1>3, CatParts DEF Extends, n
  <1>18. \A i \in DOMAIN b.objects : /\ e.objects[i] = b.objects[i]
                                     /\ e.data[b.objects[i].data] = b.data[b.objects[i].data]
    <2> SUFFICES ASSUME NEW i \in DOMAIN b.objects
                 PROVE  /\ e.objects[i] = b.objects[i]
                        /\ e.data[b.objects[i].data] = b.data[b.objects[i].data]
      OBVIOUS
    <2>1. c.objects[i] = b.objects[i] /\ c.data[b.objects[i].data] = b.data[b.objects[i].data]
      BY DEF Extends
    <2>2. b.objects[i].data \in Catalogue!Block /\ b.objects[i].data # d
      BY <1>4, <1>17, <2>1 DEF Sound, DataInHeap
    <2> QED BY <1>10, <1>11, <1>17, <2>1, <2>2
  <1>19. \A i \in DOMAIN e.objects \ DOMAIN b.objects :
            e.objects[i].active /\ e.objects[i].data \in 1..i
    BY <1>4, <1>7, <1>10 DEF Extends
  <1>20. Len(b.objects) <= Len(e.objects)
    BY <1>1, <1>3, <1>10, CatParts DEF Extends, n
  <1> QED BY <1>8, <1>12, <1>13, <1>14, <1>15, <1>16, <1>18, <1>19, <1>20 DEF Extends, Loose

\* What a step of the loop of a clone does: the table target gets a copy of part i,
\* if that can be made.
CopyOne(c, i, S, target) ==
    IF i \notin S THEN c
    ELSE IF c.objects[i].type = "column"
         THEN Catalogue!Created(c, "column", Catalogue!DataOf(c, i).name, target)
    ELSE Catalogue!Created(c, "index", MCCloneName[Catalogue!DataOf(c, i).name], target)
CopyStep(c, i, type, t, S, target) ==
    IF c = Catalogue!Faulty \/ c.objects[i].type # type \/ ~c.objects[i].active THEN c
    ELSE IF Catalogue!DataOf(c, i) = Catalogue!Freed THEN Catalogue!Faulty
    ELSE IF Catalogue!BelongsTo(c, i, t) THEN CopyOne(c, i, S, target) ELSE c
CopyLoop(c, type, t, S, target) ==
    LET iter[s \in SUBSET DOMAIN Indices(c)] ==
          IF s = {} THEN c
          ELSE CopyStep(iter[s \ {Max(s)}], Indices(c)[Max(s)], type, t, S, target)
    IN  iter[DOMAIN Indices(c)]
Copied(c, t, S, target) ==
    CopyLoop(CopyLoop(c, "column", t, S, target), "index", t, S, target)

\* The parts in S can be copied.
CanCopy(b, S) ==
    \A i \in S : /\ i \in DOMAIN b.objects
                 /\ b.objects[i].type = "index" => Catalogue!DataOf(b, i).name \in DOMAIN MCCloneName

LEMMA CloneTableIs ==
    ASSUME NEW t, NEW target, Catalogue!CloneTable(t, target)
    PROVE  /\ cat.proc = "ok"
           /\ \/ Catalogue!Become(Catalogue!Faulty)
              \/ \E S : CanCopy(cat, S)
                        /\ Catalogue!Become(Copied(Catalogue!Created(cat, "table", target, NoTable),
                                                   t, S, target))
  <1> DEFINE parts == {j \in DOMAIN cat.objects : Catalogue!BelongsTo(cat, j, t)}
             i == Catalogue!Lookup(cat, "table", t)
  <1>1. cat.proc = "ok"
    BY Zenon DEF Catalogue!CloneTable, Catalogue!Ok
  <1>2. CASE Catalogue!DataOf(cat, i) = Catalogue!Freed
    BY <1>1, <1>2 DEF Catalogue!CloneTable
  <1>3. CASE Catalogue!DataOf(cat, i) # Catalogue!Freed
    <2>1. \A S \in SUBSET parts : CanCopy(cat, S)
      BY Zenon, <1>3 DEF Catalogue!CloneTable, CanCopy
    <2>2. \E S \in SUBSET parts :
             Catalogue!Become(Copied(Catalogue!Created(cat, "table", target, NoTable),
                                     t, S, target))
      BY Zenon, <1>3 DEF Catalogue!CloneTable, Catalogue!ForParts, Catalogue!OnPart,
         Catalogue!FoldLeftDomain, Catalogue!FoldLeft, Catalogue!MapThenFoldSet, Catalogue!Max, Max,
         Copied, CopyLoop, CopyStep, CopyOne, Indices
    <2> QED BY <1>1, <2>1, <2>2
  <1> QED BY <1>2, <1>3

\* What the loop may make of b.
Copying(b) == {c \in Cat : c = Catalogue!Faulty \/ Extends(b, c)}

LEMMA CopyStepCopies ==
    ASSUME Catalogue!MetadataAssumption, NEW b, Sound(b), NEW c \in Copying(b), NEW i,
           NEW type \in {"column", "index"}, NEW t, NEW S, CanCopy(b, S), NEW target \in TableName
    PROVE  CopyStep(c, i, type, t, S, target) \in Copying(b)
  <1>1. Catalogue!Faulty \in Copying(b)
    BY EmptySound DEF Copying, Catalogue!Faulty, Sound, Loose
  <1>2. ASSUME c # Catalogue!Faulty, c.objects[i].type = type, i \in S,
               Catalogue!DataOf(c, i) # Catalogue!Freed
        PROVE  CopyOne(c, i, S, target) \in Copying(b)
    <2> DEFINE name == Catalogue!DataOf(c, i).name
    <2>1. Extends(b, c) /\ i \in DOMAIN b.objects
      BY <1>2 DEF Copying, CanCopy
    <2>2. c.objects[i] = b.objects[i] /\ Catalogue!DataOf(c, i) = Catalogue!DataOf(b, i)
          /\ b.objects[i].data \in Catalogue!Block
      BY <2>1 DEF Extends, Catalogue!DataOf, Sound, DataInHeap
    <2>3. Names(type, name)
      BY <1>2, <2>1, <2>2 DEF Sound, Loose, DataNamed
    <2>4. CASE type = "column"
      <3>1. CopyOne(c, i, S, target) = Catalogue!Created(c, "column", name, target)
        BY <1>2, <2>4 DEF CopyOne
      <3> HIDE DEF name
      <3>2. Extends(b, CopyOne(c, i, S, target))
        BY <2>1, <2>3, <2>4, <3>1, CreatedExtends
      <3> QED BY <3>2 DEF Copying, Extends, Loose
    <2>5. CASE type = "index"
      <3>1. CopyOne(c, i, S, target) = Catalogue!Created(c, "index", MCCloneName[name], target)
        BY <1>2, <2>5 DEF CopyOne
      <3>2. name \in DOMAIN MCCloneName
        BY <1>2, <2>2, <2>5 DEF CanCopy
      <3> HIDE DEF name
      <3>3. Names("index", MCCloneName[name])
        BY <3>2 DEF Names, Catalogue!FileName, Catalogue!MetadataAssumption
      <3>4. Extends(b, CopyOne(c, i, S, target))
        BY <2>1, <3>1, <3>3, CreatedExtends
      <3> QED BY <3>4 DEF Copying, Extends, Loose
    <2> QED BY <2>4, <2>5
  <1>3. i \notin S => CopyOne(c, i, S, target) = c
    BY DEF CopyOne
  <1> QED BY <1>1, <1>2, <1>3 DEF CopyStep

LEMMA CopyLoopCopies ==
    ASSUME Catalogue!MetadataAssumption, NEW b, Sound(b), NEW a \in Copying(b),
           NEW type \in {"column", "index"}, NEW t, NEW S, CanCopy(b, S), NEW target \in TableName
    PROVE  CopyLoop(a, type, t, S, target) \in Copying(b)
  <1> DEFINE n == Len(a.objects)
             D == Copying(b)
             q == Indices(a)
             step == [i \in 1..n |-> [c \in D |-> CopyStep(c, i, type, t, S, target)]]
             IsLoop(g) == g = [s \in SUBSET DOMAIN q |->
                            IF s = {} THEN a
                            ELSE CopyStep(g[s \ {Max(s)}], q[Max(s)], type, t, S, target)]
             F == CHOOSE g : IsLoop(g)
  <1>0. a \in Cat
    BY DEF Copying
  <1>1. n \in Nat /\ DOMAIN q = 1..n /\ \A i \in 1..n : q[i] = i
    BY <1>0, CatParts DEF Indices
  <1>2. a \in D
    OBVIOUS
  <1>3. \A i \in 1..n, c \in D : CopyStep(c, i, type, t, S, target) \in D
    BY CopyStepCopies
  <1>4. IsStep(step, n, D)
    BY <1>3 DEF IsStep
  <1>5. CopyLoop(a, type, t, S, target) = F[DOMAIN q]
    BY DEF CopyLoop
  <1> HIDE DEF n, D, q
  <1>6. PICK g : IsSetFold(g, a, step, n, D)
    <2> HIDE DEF step
    <2> QED BY <1>1, <1>2, <1>4, SetRecursion
  <1>7. ASSUME NEW s \in SUBSET (1..n), s # {}
        PROVE  /\ Max(s) \in 1..n /\ q[Max(s)] = Max(s) /\ g[s \ {Max(s)}] \in D
               /\ g[s] = CopyStep(g[s \ {Max(s)}], q[Max(s)], type, t, S, target)
    <2>1. Max(s) \in 1..n
      BY Zenon, <1>1, <1>7, MaxIsGreatest
    <2>2. s \ {Max(s)} \in SUBSET (1..n)
      BY Zenon
    <2>3. g[s \ {Max(s)}] \in D /\ g[s] = step[Max(s)][g[s \ {Max(s)}]]
      BY Zenon, <1>6, <1>7, <2>2 DEF IsSetFold
    <2> QED BY <1>1, <2>1, <2>3
  <1>8. IsLoop(g)
    <2>1. g \in [SUBSET (1..n) -> D] /\ g[{}] = a
      BY <1>6 DEF IsSetFold
    <2>2. \A s \in SUBSET (1..n) :
             g[s] = IF s = {} THEN a
                    ELSE CopyStep(g[s \ {Max(s)}], q[Max(s)], type, t, S, target)
      BY Zenon, <1>7, <2>1
    <2> QED BY <1>1, <2>1, <2>2
  <1>9. IsLoop(F)
    BY Zenon, <1>8
  <1> HIDE DEF F
  <1>10. F[{}] = a
    BY <1>1, <1>9
  <1>11. ASSUME NEW s \in SUBSET (1..n), s # {}, F[s \ {Max(s)}] \in D
         PROVE  F[s] = step[Max(s)][F[s \ {Max(s)}]]
    <2> DEFINE x == F[s \ {Max(s)}]
    <2>1. F[s] = CopyStep(x, q[Max(s)], type, t, S, target)
      BY Zenon, <1>1, <1>9, <1>11
    <2>2. Max(s) \in 1..n /\ q[Max(s)] = Max(s) /\ x \in D
      BY Zenon, <1>7, <1>11
    <2> HIDE DEF x
    <2>3. step[Max(s)][x] = CopyStep(x, Max(s), type, t, S, target)
      BY <2>2
    <2> QED BY <2>1, <2>2, <2>3 DEF x
  <1> HIDE DEF IsLoop
  <1>12. PICK f : IsFold(f, a, step, n, D) /\ F[1..n] = f[n]
    <2> HIDE DEF step
    <2>1. FoldsGreatest(F, a, step, n, D)
      BY <1>10, <1>11 DEF FoldsGreatest
    <2> QED BY <1>1, <1>2, <1>4, <2>1, FoldSteps
  <1>13. f[n] \in D
    BY <1>1, <1>12 DEF IsFold
  <1> QED BY <1>1, <1>5, <1>12, <1>13 DEF D

\* A clone adds objects only.
LEMMA CloneExtends ==
    ASSUME Catalogue!MetadataAssumption, NEW b, Sound(b), NEW t, NEW S, CanCopy(b, S),
           NEW target \in TableName
    PROVE  LET c == Copied(Catalogue!Created(b, "table", target, NoTable), t, S, target)
           IN  c = Catalogue!Faulty \/ Extends(b, c)
  <1> DEFINE a == Catalogue!Created(b, "table", target, NoTable)
             c == CopyLoop(a, "column", t, S, target)
             d == CopyLoop(c, "index", t, S, target)
  <1>1. Extends(b, b)
    BY CatParts DEF Extends, Sound, Loose
  <1>2. Names("table", target)
    BY DEF Names, Catalogue!FileName
  <1>3. Extends(b, a)
    BY <1>1, <1>2, CreatedExtends
  <1>4. a \in Copying(b)
    BY <1>3 DEF Copying, Extends, Loose
  <1> HIDE DEF a
  <1>5. c \in Copying(b)
    BY <1>4, CopyLoopCopies
  <1> HIDE DEF c
  <1>6. d \in Copying(b)
    BY <1>5, CopyLoopCopies
  <1> HIDE DEF d
  <1>7. d = Catalogue!Faulty \/ Extends(b, d)
    BY <1>6 DEF Copying
  <1> QED BY <1>7 DEF Copied, a, c, d

\* The keys of the objects that were not dropped.
ActiveKeys(c) == {Catalogue!KeyOf(c.objects[i]) : i \in {j \in DOMAIN c.objects : c.objects[j].active}}

\* The inductive invariant of the catalogue.
CatalogueInv ==
    /\ Sound(cat) /\ Len(cat.objects) <= MaxObjects
    /\ cat.proc = "ok" => files \ Catalogue!MayFail = ActiveKeys(cat) \ Catalogue!MayFail
    /\ files \subseteq Catalogue!FileName /\ renames \in 0..MaxRenames

\* An active object has a name of its type.
LEMMA ActiveNamed ==
    ASSUME NEW c, Sound(c)
    PROVE  \A i \in DOMAIN c.objects : Catalogue!KeyOf(c.objects[i]) \in Catalogue!FileName
  BY DEF Sound, Loose, KeysNamed, Names, Catalogue!KeyOf

\* What the catalogue becomes, it is afterwards.
LEMMA BecomeIs ==
    ASSUME NEW c, Catalogue!Become(c)
    PROVE  cat' = c /\ Len(c.objects) <= MaxObjects
  BY DEF Catalogue!Become

\* When objects come and go so do their files.
LEMMA BecomeKeeps ==
    ASSUME CatalogueInv, cat.proc = "ok", NEW c, Sound(c),
           c = Catalogue!Faulty \/ Follows(cat, c), Catalogue!Become(c)
    PROVE  /\ Sound(cat') /\ Len(cat'.objects) <= MaxObjects
           /\ cat'.proc = "ok" => files' \ Catalogue!MayFail = ActiveKeys(cat') \ Catalogue!MayFail
           /\ files' \subseteq Catalogue!FileName
  <1>1. cat' = c /\ Len(c.objects) <= MaxObjects
    BY BecomeIs
  <1>2. CASE c = Catalogue!Faulty
    <2>1. c.proc = "undefined"
      BY <1>2, EmptySound DEF Catalogue!Faulty
    <2>2. files' = files
      BY <1>2 DEF Catalogue!Become
    <2> QED BY <1>1, <2>1, <2>2 DEF CatalogueInv
  <1>3. CASE c # Catalogue!Faulty
    <2> DEFINE new == {Catalogue!KeyOf(c.objects[i]) : i \in DOMAIN c.objects \ DOMAIN cat.objects}
               gone == {Catalogue!KeyOf(cat.objects[i]) :
                          i \in {j \in DOMAIN cat.objects : cat.objects[j].active
                                                             /\ ~c.objects[j].active}}
    <2>1. Follows(cat, c)
      BY <1>3
    <2>2. \E skip \in SUBSET (Catalogue!MayFail \cap (new \cup gone)) :
             files' = (files \ (gone \ skip)) \cup (new \ skip)
      BY Zenon, <1>3 DEF Catalogue!Become, Catalogue!Write
    <2>3. PICK skip : /\ skip \subseteq Catalogue!MayFail
                      /\ files' = (files \ (gone \ skip)) \cup (new \ skip)
      <3> HIDE DEF new, gone
      <3> QED BY <2>2
    <2>4. DOMAIN cat.objects \subseteq DOMAIN c.objects
      <3>1. cat \in Cat /\ c \in Cat
        BY DEF CatalogueInv, Sound, Loose
      <3>2. DOMAIN cat.objects = 1..Len(cat.objects) /\ DOMAIN c.objects = 1..Len(c.objects)
            /\ Len(cat.objects) \in Nat /\ Len(c.objects) \in Nat
        BY <3>1, CatParts
      <3> QED BY <2>1, <3>2 DEF Follows
    <2>5. \A i \in DOMAIN cat.objects : Catalogue!KeyOf(c.objects[i]) = Catalogue!KeyOf(cat.objects[i])
      BY <2>1 DEF Follows, Catalogue!KeyOf
    <2>6. \A i, j \in DOMAIN cat.objects :
             Catalogue!KeyOf(cat.objects[i]) = Catalogue!KeyOf(cat.objects[j]) => i = j
      BY DEF CatalogueInv, Sound, Loose, KeysApart, Catalogue!KeyOf
    <2>7. \A x : x \in ActiveKeys(c) <=> (x \in ActiveKeys(cat) /\ x \notin gone) \/ x \in new
      <3>1. ASSUME NEW x \in ActiveKeys(c) PROVE (x \in ActiveKeys(cat) /\ x \notin gone) \/ x \in new
        <4>1. PICK i \in DOMAIN c.objects : c.objects[i].active /\ x = Catalogue!KeyOf(c.objects[i])
          BY <3>1 DEF ActiveKeys
        <4>2. CASE i \in DOMAIN cat.objects
          <5>1. cat.objects[i].active /\ x = Catalogue!KeyOf(cat.objects[i])
            BY <2>1, <2>5, <4>1, <4>2 DEF Follows
          <5>2. x \in ActiveKeys(cat)
            BY <4>2, <5>1 DEF ActiveKeys
          <5>3. x \notin gone
            BY <2>6, <4>1, <4>2, <5>1
          <5> QED BY <5>2, <5>3
        <4>3. CASE i \notin DOMAIN cat.objects
          BY <4>1, <4>3
        <4> QED BY <4>2, <4>3
      <3>2. ASSUME NEW x \in new PROVE x \in ActiveKeys(c)
        BY <2>1, <3>2 DEF ActiveKeys, Follows
      <3>3. ASSUME NEW x \in ActiveKeys(cat), x \notin gone PROVE x \in ActiveKeys(c)
        <4>1. PICK i \in DOMAIN cat.objects : cat.objects[i].active /\ x = Catalogue!KeyOf(cat.objects[i])
          BY <3>3 DEF ActiveKeys
        <4>2. c.objects[i].active
          BY <3>3, <4>1
        <4> QED BY <2>4, <2>5, <4>1, <4>2 DEF ActiveKeys
      <3> QED BY <3>1, <3>2, <3>3
    <2>8. new \subseteq Catalogue!FileName
      BY ActiveNamed
    <2> HIDE DEF new, gone
    <2>9. files' \subseteq Catalogue!FileName
      BY <2>3, <2>8 DEF CatalogueInv
    <2>10. files \ Catalogue!MayFail = ActiveKeys(cat) \ Catalogue!MayFail
      BY DEF CatalogueInv
    <2>11. files' \ Catalogue!MayFail = ActiveKeys(c) \ Catalogue!MayFail
      BY <2>3, <2>7, <2>10
    <2> QED BY <1>1, <2>9, <2>11
  <1> QED BY <1>2, <1>3

\* The catalogue becomes sound, in what way ever it follows.
MaySucceed(c) == Sound(c) /\ (c = Catalogue!Faulty \/ Follows(cat, c)) /\ Catalogue!Become(c)

LEMMA FaultyMay ==
    ASSUME Catalogue!Become(Catalogue!Faulty)
    PROVE  MaySucceed(Catalogue!Faulty)
  BY EmptySound DEF MaySucceed, Catalogue!Faulty

LEMMA RetainsMay ==
    ASSUME CatalogueInv, NEW c, c = Catalogue!Faulty \/ Retains(cat, c), Catalogue!Become(c)
    PROVE  MaySucceed(c)
  <1>1. CASE c = Catalogue!Faulty
    BY <1>1, FaultyMay
  <1>2. CASE Retains(cat, c)
    BY <1>2, RetainsFollows DEF MaySucceed, Retains, CatalogueInv, Sound, Loose
  <1> QED BY <1>1, <1>2

LEMMA FadesMay ==
    ASSUME CatalogueInv, NEW c, c = Catalogue!Faulty \/ Fades(cat, c), Catalogue!Become(c)
    PROVE  MaySucceed(c)
  <1>1. CASE c = Catalogue!Faulty
    BY <1>1, FaultyMay
  <1>2. CASE Fades(cat, c)
    BY <1>2, FadesSound DEF MaySucceed, CatalogueInv
  <1> QED BY <1>1, <1>2

LEMMA ExtendsMay ==
    ASSUME CatalogueInv, MaxObjects \in Nat, NEW c, c = Catalogue!Faulty \/ Extends(cat, c),
           Catalogue!Become(c)
    PROVE  MaySucceed(c)
  <1>1. CASE c = Catalogue!Faulty
    BY <1>1, FaultyMay
  <1>2. CASE Extends(cat, c)
    <2>1. Len(c.objects) <= MaxObjects
      BY BecomeIs
    <2> QED BY <1>2, <2>1, ExtendsSound DEF MaySucceed, CatalogueInv
  <1> QED BY <1>1, <1>2

\* What the data hold that are not freed.
LEMMA OwnedNotFreed ==
    ASSUME Catalogue!MetadataAssumption, NEW c, NEW i, NEW t \in TableName, Catalogue!BelongsTo(c, i, t)
    PROVE  Catalogue!DataOf(c, i) # Catalogue!Freed
  BY DEF Catalogue!MetadataAssumption, Catalogue!BelongsTo, Catalogue!Freed

LEMMA CreateMay ==
    ASSUME Catalogue!MetadataAssumption, CatalogueInv, NEW type, NEW name, Names(type, name),
           NEW owner \in TableName \cup {NoTable}, Catalogue!Create(type, name, owner)
    PROVE  cat.proc = "ok" /\ \E c : MaySucceed(c)
  <1> DEFINE c == Catalogue!Created(cat, type, name, owner)
  <1>1. cat.proc = "ok" /\ Catalogue!Become(c)
    BY DEF Catalogue!Create, Catalogue!Ok
  <1>2. Sound(cat) /\ Extends(cat, cat)
    BY CatParts DEF CatalogueInv, Extends, Sound, Loose
  <1>3. Extends(cat, c)
    BY <1>2, CreatedExtends
  <1> HIDE DEF c
  <1> QED BY <1>1, <1>3, ExtendsMay DEF Catalogue!MetadataAssumption

LEMMA UpdateMay ==
    ASSUME Catalogue!MetadataAssumption, CatalogueInv, NEW type, NEW name,
           Catalogue!Update(type, name)
    PROVE  cat.proc = "ok" /\ \E c : MaySucceed(c)
  <1> DEFINE i == Catalogue!Lookup(cat, type, name)
             old == cat.objects[i].data
             d == IF \E j \in DOMAIN cat.objects : j # i /\ cat.objects[j].data = old
                  THEN Catalogue!Fresh(cat) ELSE old
             v == [Catalogue!DataOf(cat, i) EXCEPT !.name = name]
             c == IF Catalogue!DataOf(cat, i) = Catalogue!Freed THEN Catalogue!Faulty
                  ELSE Updated(cat, i, d, v)
  <1>1. cat.proc = "ok" /\ i # 0 /\ Catalogue!Become(c)
    BY DEF Catalogue!Update, Catalogue!Ok, Updated
  <1>2. Sound(cat) /\ cat \in Cat /\ Len(cat.objects) <= MaxObjects
    BY DEF CatalogueInv, Sound, Loose
  <1>3. i \in DOMAIN cat.objects /\ HasName(cat, i, type, name)
    BY <1>1, <1>2, LookupFinds DEF Ends
  <1> HIDE DEF i
  <1>4. old \in Catalogue!Block /\ Catalogue!Fresh(cat) \in Catalogue!Block
    <2>1. Len(cat.objects) \in Nat /\ Catalogue!Fresh(cat) \in 1..(Len(cat.objects) + 1)
      BY <1>2, CatParts, FreshIsFree
    <2>2. Catalogue!Fresh(cat) \in Catalogue!Block
      BY <1>2, <2>1 DEF Catalogue!Block, Catalogue!MetadataAssumption
    <2> QED BY <1>2, <1>3, <2>2 DEF Sound, DataInHeap
  <1>5. d \in Catalogue!Block /\ \A j \in DOMAIN cat.objects : j # i => cat.objects[j].data # d
    BY <1>2, <1>4, FreshIsFree
  <1>6. Names(cat.objects[i].type, name)
    BY <1>2, <1>3 DEF HasName, Sound, Loose, KeysNamed
  <1>7. Catalogue!DataOf(cat, i) # Catalogue!Freed => v \in Datum /\ v.name = name
    <2>1. Catalogue!DataOf(cat, i) \in Datum
      BY <1>2, <1>4, CatParts DEF Catalogue!DataOf
    <2>2. name \in Catalogue!Name
      BY <1>6, NamesAreNames
    <2> QED BY <2>1, <2>2 DEF Datum
  <1> HIDE DEF d, v
  <1>8. Catalogue!DataOf(cat, i) # Catalogue!Freed => Retains(cat, Updated(cat, i, d, v))
    BY <1>2, <1>3, <1>5, <1>6, <1>7, UpdatedRetains
  <1>9. c = Catalogue!Faulty \/ Retains(cat, c)
    BY <1>8
  <1> HIDE DEF c
  <1> QED BY <1>1, <1>9, RetainsMay

LEMMA DropTableMay ==
    ASSUME CatalogueInv, NEW t, Catalogue!DropTable(t)
    PROVE  cat.proc = "ok" /\ \E c : MaySucceed(c)
  <1>1. cat.proc = "ok" /\ Catalogue!Become(DroppedTable(cat, t))
    BY DropTableIs DEF DroppedTable
  <1>2. cat \in Cat
    BY DEF CatalogueInv, Sound, Loose
  <1> QED BY <1>1, <1>2, DropTableDrops, FadesMay

LEMMA DropPartMay ==
    ASSUME CatalogueInv, NEW type, NEW name, NEW t, Catalogue!DropPart(type, name, t)
    PROVE  cat.proc = "ok" /\ \E c : MaySucceed(c)
  <1>1. /\ cat.proc = "ok"
        /\ \/ Catalogue!Become(Catalogue!Faulty)
           \/ Catalogue!Become(Catalogue!Deleted(cat, type, name))
    BY DEF Catalogue!DropPart, Catalogue!Ok
  <1>2. cat \in Cat
    BY DEF CatalogueInv, Sound, Loose
  <1>3. Fades(cat, Catalogue!Deleted(cat, type, name))
    BY <1>2, DeletedFades
  <1> QED BY <1>1, <1>3, FadesMay

LEMMA RenamePartMay ==
    ASSUME Catalogue!MetadataAssumption, CatalogueInv, NEW type, NEW t \in TableName, NEW old,
           NEW new, Names(type, new), Catalogue!RenamePart(type, t, old, new)
    PROVE  cat.proc = "ok" /\ \E c : MaySucceed(c)
  <1> DEFINE i == Catalogue!LookupPart(cat, type, old, t)
             r == NewlyNamed(cat, i, new)
             c == Catalogue!Attached(r, type, new, cat.objects[i].data)
  <1>1. cat.proc = "ok" /\ (Catalogue!Become(Catalogue!Faulty) \/ (i # 0 /\ Catalogue!Become(c)))
    BY DEF Catalogue!RenamePart, Catalogue!Ok, NewlyNamed
  <1>2. Sound(cat) /\ cat \in Cat
    BY DEF CatalogueInv, Sound, Loose
  <1>3. ASSUME i # 0 PROVE c = Catalogue!Faulty \/ Retains(cat, c)
    <2>1. i \in DOMAIN cat.objects /\ cat.objects[i].type = type /\ Catalogue!BelongsTo(cat, i, t)
      BY <1>2, <1>3, LookupPartFinds
    <2> HIDE DEF i
    <2>2. Catalogue!DataOf(cat, i) # Catalogue!Freed
      BY <2>1, OwnedNotFreed
    <2>3. Retains(cat, r) /\ DataFits(r, type, cat.objects[i].data)
      BY <1>2, <2>1, <2>2, RenamedRetains
    <2>4. Sound(r) /\ r \in Cat
      BY <2>3 DEF Retains, Sound, Loose
    <2> HIDE DEF r
    <2>5. c = Catalogue!Faulty \/ Retains(r, c)
      BY <2>3, <2>4, AttachedRetains
    <2> QED BY <1>2, <2>3, <2>4, <2>5, RetainsOn
  <1> HIDE DEF c
  <1> QED BY <1>1, <1>3, FaultyMay, RetainsMay

LEMMA RenameTableMay ==
    ASSUME CatalogueInv, NEW old \in TableName, NEW new \in TableName,
           Catalogue!RenameTable(old, new)
    PROVE  cat.proc = "ok" /\ \E c : MaySucceed(c)
  <1> DEFINE i == Catalogue!Lookup(cat, "table", old)
             c == RenamedTable(cat, i, old, new)
  <1>1. cat.proc = "ok" /\ i # 0 /\ Catalogue!Become(c)
    BY RenameTableIs
  <1>2. Sound(cat) /\ cat \in Cat
    BY DEF CatalogueInv, Sound, Loose
  <1>3. i \in DOMAIN cat.objects /\ cat.objects[i].type = "table"
    BY <1>1, <1>2, LookupFinds DEF Ends, HasName
  <1> HIDE DEF i
  <1>4. c = Catalogue!Faulty \/ Retains(cat, c)
    BY <1>2, <1>3, RenameTableRetains
  <1> HIDE DEF c
  <1> QED BY <1>1, <1>4, RetainsMay

LEMMA CloneTableMay ==
    ASSUME Catalogue!MetadataAssumption, CatalogueInv, NEW t, NEW target \in TableName,
           Catalogue!CloneTable(t, target)
    PROVE  cat.proc = "ok" /\ \E c : MaySucceed(c)
  <1> DEFINE copied(S) == Copied(Catalogue!Created(cat, "table", target, NoTable), t, S, target)
  <1>1. cat.proc = "ok"
    BY CloneTableIs
  <1>2. \/ Catalogue!Become(Catalogue!Faulty)
        \/ \E S : CanCopy(cat, S) /\ Catalogue!Become(copied(S))
    BY CloneTableIs
  <1>3. ASSUME NEW S, CanCopy(cat, S), Catalogue!Become(copied(S)) PROVE MaySucceed(copied(S))
    <2>1. copied(S) = Catalogue!Faulty \/ Extends(cat, copied(S))
      BY <1>3, CloneExtends DEF CatalogueInv
    <2> HIDE DEF copied
    <2> QED BY <1>3, <2>1, ExtendsMay DEF Catalogue!MetadataAssumption
  <1> HIDE DEF copied
  <1> QED BY <1>1, <1>2, <1>3, FaultyMay

LEMMA SaveKeeps ==
    ASSUME Catalogue!MetadataAssumption, CatalogueInv, Catalogue!Save \/ Catalogue!Destroy
    PROVE  /\ Sound(cat') /\ Len(cat'.objects) <= MaxObjects
           /\ cat'.proc = "ok" => files' \ Catalogue!MayFail = ActiveKeys(cat') \ Catalogue!MayFail
           /\ files' \subseteq Catalogue!FileName
  <1>1. Catalogue!Saved = ActiveKeys(cat) /\ ActiveKeys(cat) \subseteq Catalogue!FileName
    BY ActiveNamed DEF Catalogue!Saved, ActiveKeys, CatalogueInv
  <1>2. ASSUME Catalogue!Write(Catalogue!Saved, {})
        PROVE  /\ files' \subseteq Catalogue!FileName
               /\ cat.proc = "ok" => files' \ Catalogue!MayFail = ActiveKeys(cat) \ Catalogue!MayFail
    <2>1. \E skip \in SUBSET Catalogue!MayFail : files' = files \cup (ActiveKeys(cat) \ skip)
      BY <1>1, <1>2 DEF Catalogue!Write
    <2> QED BY <1>1, <2>1 DEF CatalogueInv
  <1>3. \A how \in {"aborted", "destroyed", "undefined"} :
           /\ Sound(Catalogue!Empty(how)) /\ Len(Catalogue!Empty(how).objects) = 0
           /\ Catalogue!Empty(how).proc # "ok"
    BY EmptySound
  <1>4. MaxObjects >= 0
    BY DEF Catalogue!MetadataAssumption
  <1>5. CASE Catalogue!Save
    <2>1. CASE cat' = Catalogue!Faulty /\ UNCHANGED files
      BY <1>3, <1>4, <2>1 DEF Catalogue!Faulty, CatalogueInv
    <2>2. CASE cat' = [cat EXCEPT !.dirty = FALSE] /\ Catalogue!Write(Catalogue!Saved, {})
      <3>1. cat \in Cat
        BY DEF CatalogueInv, Sound, Loose
      <3>2. cat' \in Cat /\ cat'.objects = cat.objects /\ cat'.data = cat.data /\ cat'.proc = cat.proc
        BY Zenon, <2>2, <3>1 DEF Cat
      <3>3. Sound(cat') /\ Len(cat'.objects) <= MaxObjects /\ ActiveKeys(cat') = ActiveKeys(cat)
        BY <3>2 DEF CatalogueInv, Sound, Loose, KeysApart, KeysNamed, DataNamed, DataTyped,
                    DataInHeap, ActiveKeys, Catalogue!DataOf
      <3> QED BY Zenon, <1>2, <2>2, <3>2, <3>3
    <2> QED BY <1>5, <2>1, <2>2 DEF Catalogue!Save
  <1>6. CASE Catalogue!Destroy
    <2>1. \E how \in {"aborted", "destroyed"} : cat' = Catalogue!Empty(how)
      BY <1>6 DEF Catalogue!Destroy
    <2>2. files' \subseteq Catalogue!FileName
      BY <1>2, <1>6 DEF Catalogue!Destroy, CatalogueInv
    <2> QED BY <1>3, <1>4, <2>1, <2>2
  <1> QED BY <1>5, <1>6

LEMMA ManagePartMay ==
    ASSUME Catalogue!MetadataAssumption, CatalogueInv, Catalogue!ManagePart
    PROVE  cat.proc = "ok" /\ \E c : MaySucceed(c)
  <1> DEFINE Does(type, n) ==
               \/ Catalogue!CreateFails(type, n) \/ Catalogue!Update(type, n)
               \/ \E t \in TableName : Catalogue!Create(type, n, t) \/ Catalogue!DropPart(type, n, t)
  <1>0. PICK type \in Catalogue!Part : \E n \in Catalogue!PartName(type) : Does(type, n)
    BY DEF Catalogue!ManagePart
  <1>1. PICK n \in Catalogue!PartName(type) : Does(type, n)
    BY <1>0
  <1>2. Names(type, n)
    BY DEF Names, Catalogue!Part, Catalogue!PartName, Catalogue!FileName
  <1>3. CASE Catalogue!CreateFails(type, n)
    BY <1>3, FaultyMay DEF Catalogue!CreateFails, Catalogue!Ok
  <1>4. CASE Catalogue!Update(type, n)
    BY <1>4, UpdateMay
  <1>5. ASSUME NEW t \in TableName, Catalogue!Create(type, n, t)
        PROVE  cat.proc = "ok" /\ \E c : MaySucceed(c)
    BY <1>2, <1>5, CreateMay
  <1>6. ASSUME NEW t \in TableName, Catalogue!DropPart(type, n, t)
        PROVE  cat.proc = "ok" /\ \E c : MaySucceed(c)
    BY <1>6, DropPartMay
  <1> QED BY <1>1, <1>3, <1>4, <1>5, <1>6

LEMMA ManageMay ==
    ASSUME Catalogue!MetadataAssumption, CatalogueInv, Catalogue!Manage
    PROVE  cat.proc = "ok" /\ \E c : MaySucceed(c)
  <1>1. CASE \E s, t \in TableName : Catalogue!CloneTable(s, t)
    BY <1>1, CloneTableMay
  <1>2. CASE \E t \in TableName : \/ Catalogue!Create("table", t, NoTable)
                                  \/ Catalogue!Update("table", t)
                                  \/ Catalogue!CreateFails("table", t) \/ Catalogue!DropTable(t)
    <2>1. PICK t \in TableName : \/ Catalogue!Create("table", t, NoTable)
                                 \/ Catalogue!Update("table", t)
                                 \/ Catalogue!CreateFails("table", t) \/ Catalogue!DropTable(t)
      BY <1>2
    <2>2. Names("table", t)
      BY DEF Names, Catalogue!FileName
    <2>3. CASE Catalogue!Create("table", t, NoTable)
      BY <2>2, <2>3, CreateMay
    <2>4. CASE Catalogue!Update("table", t)
      BY <2>4, UpdateMay
    <2>5. CASE Catalogue!CreateFails("table", t)
      BY <2>5, FaultyMay DEF Catalogue!CreateFails, Catalogue!Ok
    <2>6. CASE Catalogue!DropTable(t)
      BY <2>6, DropTableMay
    <2> QED BY <2>1, <2>3, <2>4, <2>5, <2>6
  <1> QED BY <1>1, <1>2 DEF Catalogue!Manage

LEMMA RenameMay ==
    ASSUME Catalogue!MetadataAssumption, CatalogueInv, Catalogue!Rename
    PROVE  cat.proc = "ok" /\ \E c : MaySucceed(c)
  <1>1. CASE \E s, t \in TableName : Catalogue!RenameTable(s, t)
    BY <1>1, RenameTableMay
  <1>2. CASE \E type \in Catalogue!Part :
               \E m, n \in Catalogue!PartName(type), t \in TableName :
                  Catalogue!RenamePart(type, t, n, m)
    <2>1. PICK type \in Catalogue!Part :
               \E m, n \in Catalogue!PartName(type), t \in TableName :
                  Catalogue!RenamePart(type, t, n, m)
      BY <1>2
    <2>2. PICK m \in Catalogue!PartName(type), n \in Catalogue!PartName(type), t \in TableName :
                  Catalogue!RenamePart(type, t, n, m)
      BY <2>1
    <2>3. Names(type, m)
      BY DEF Names, Catalogue!Part, Catalogue!PartName, Catalogue!FileName
    <2> QED BY <2>2, <2>3, RenamePartMay
  <1> QED BY <1>1, <1>2 DEF Catalogue!Rename

\* Every step keeps the invariant of the catalogue.
LEMMA CatalogueStep ==
    ASSUME Catalogue!MetadataAssumption, CatalogueInv, Catalogue!Next \/ UNCHANGED catalogueVars
    PROVE  CatalogueInv'
  <1> DEFINE Kept == /\ Sound(cat') /\ Len(cat'.objects) <= MaxObjects
                     /\ cat'.proc = "ok" => files' \ Catalogue!MayFail
                                              = ActiveKeys(cat') \ Catalogue!MayFail
                     /\ files' \subseteq Catalogue!FileName
  <1>1. ASSUME cat.proc = "ok" /\ \E c : MaySucceed(c) PROVE Kept
    BY <1>1, BecomeKeeps DEF MaySucceed
  <1>2. ASSUME Catalogue!Next PROVE Kept
    <2>1. CASE Catalogue!Manage
      BY <1>1, <2>1, ManageMay
    <2>2. CASE Catalogue!ManagePart
      BY <1>1, <2>2, ManagePartMay
    <2>3. CASE Catalogue!Rename
      BY <1>1, <2>3, RenameMay
    <2>4. CASE Catalogue!Save \/ Catalogue!Destroy
      BY <2>4, SaveKeeps
    <2> HIDE DEF Kept
    <2> QED BY <1>2, <2>1, <2>2, <2>3, <2>4 DEF Catalogue!Next
  <1>3. Catalogue!Next => renames' \in 0..MaxRenames
    BY DEF Catalogue!Next, CatalogueInv, Catalogue!MetadataAssumption
  <1>4. Kept /\ renames' \in 0..MaxRenames => CatalogueInv'
    BY DEF CatalogueInv
  <1>5. CASE UNCHANGED catalogueVars
    <2>1. cat' = cat /\ files' = files /\ renames' = renames
      BY <1>5 DEF catalogueVars
    <2>2. Kept /\ renames' \in 0..MaxRenames
      BY <2>1 DEF CatalogueInv
    <2> QED BY <1>4, <2>2
  <1> HIDE DEF Kept
  <1> QED BY <1>2, <1>3, <1>4, <1>5

\* The invariant holds at first.
LEMMA CatalogueInit ==
    ASSUME Catalogue!MetadataAssumption, Catalogue!Init
    PROVE  CatalogueInv
  <1>1. Sound(cat) /\ cat.objects = <<>>
    BY EmptySound DEF Catalogue!Init
  <1>2. ActiveKeys(cat) = {} /\ Len(cat.objects) = 0
    BY <1>1 DEF ActiveKeys
  <1> QED BY <1>1, <1>2 DEF CatalogueInv, Catalogue!Init, Catalogue!MetadataAssumption

\* What the invariant says of names, files and types.
LEMMA CatalogueHolds ==
    ASSUME CatalogueInv
    PROVE  Catalogue!NamesUnique /\ Catalogue!FilesOfActive /\ Catalogue!TypeOK
  <1>1. Catalogue!NamesUnique
    BY DEF CatalogueInv, Sound, Loose, KeysApart, Catalogue!NamesUnique, Catalogue!KeyOf
  <1>2. Catalogue!FilesOfActive
    BY DEF CatalogueInv, ActiveKeys, Catalogue!FilesOfActive, Catalogue!Ok
  <1>3. Catalogue!TypeOK
    <2> DEFINE E == [type : {"table"} \cup Catalogue!Part, name : Catalogue!Name,
                     active : BOOLEAN, data : Catalogue!Block]
    <2>1. cat \in Cat /\ DataInHeap(cat)
      BY DEF CatalogueInv, Sound, Loose
    <2>2. cat.objects \in Seq(E)
      <3>1. cat.objects \in Seq(CatEntry) /\ DOMAIN cat.objects = 1..Len(cat.objects)
        BY <2>1, CatParts
      <3>2. ASSUME NEW i \in DOMAIN cat.objects PROVE cat.objects[i] \in E
        <4>1. cat.objects[i] \in CatEntry /\ cat.objects[i].data \in Catalogue!Block
          BY <2>1, CatParts DEF DataInHeap
        <4> QED BY <4>1 DEF CatEntry, KeyType, Catalogue!Part
      <3> HIDE DEF E
      <3> QED BY <3>1, <3>2
    <2>3. /\ cat.data \in [Catalogue!Block -> [name : Catalogue!Name,
                             owner : TableName \cup {NoTable}] \cup {Catalogue!Freed}]
          /\ cat.dirty \in BOOLEAN
          /\ cat.proc \in {"ok", "undefined", "aborted", "destroyed"}
      BY <2>1 DEF Cat, Datum
    <2> QED BY <2>2, <2>3 DEF CatalogueInv, Catalogue!TypeOK
  <1> QED BY <1>1, <1>2, <1>3

\* A table is dropped with its parts, if nothing was renamed.
LEMMA DropTakes ==
    ASSUME CatalogueInv
    PROVE  Catalogue!UnrenamedDropTakesParts
  <1> SUFFICES ASSUME NEW t \in TableName, cat'.proc = "ok", Catalogue!Unrenamed(cat),
                      Catalogue!DropTable(t), NEW i \in DOMAIN cat'.objects
               PROVE  ~Catalogue!BelongsTo(cat', i, t)
    BY DEF Catalogue!UnrenamedDropTakesParts
  <1>1. cat' = DroppedTable(cat, t)
    BY DropTableIs, BecomeIs DEF DroppedTable
  <1>2. cat \in Cat /\ KeysApart(cat)
    BY DEF CatalogueInv, Sound, Loose
  <1>3. DroppedTable(cat, t) # Catalogue!Faulty
    BY <1>1, EmptySound DEF Catalogue!Faulty
  <1> QED BY <1>1, <1>2, <1>3, DropTableDrops

CataloguePart == subject = "catalogue" => CatalogueInv

\* The invariant of the catalogue holds in every reachable state.
THEOREM CataloguePartHolds == FilesSpec => []CataloguePart
  <1>1. FilesInit => CataloguePart
    BY FilesAssumption, CatalogueInit DEF FilesInit, CataloguePart
  <1>2. CataloguePart /\ [FilesNext]_filesVars => CataloguePart'
    <2> SUFFICES ASSUME CataloguePart, [FilesNext]_filesVars, subject' = "catalogue"
                 PROVE  CatalogueInv'
      BY DEF CataloguePart
    <2>1. subject = "catalogue"
      BY DEF FilesNext, filesVars
    <2>2. Catalogue!Next \/ UNCHANGED catalogueVars
      BY <2>1 DEF FilesNext, filesVars, dataVars
    <2> QED BY <2>1, <2>2, FilesAssumption, CatalogueStep DEF CataloguePart
  <1> QED BY <1>1, <1>2, PTL DEF FilesSpec, filesVars

\* A name and type mean one object, and the files are those of the objects that
\* were not dropped, for any names and number of objects and whatever is dropped,
\* renamed, cloned and saved (metadata.c:603, 623-629, 769-773, 944).
THEOREM CatalogueIsSound == FilesSpec => []CatalogueSound
  <1>1. CataloguePart => CatalogueSound
    BY CatalogueHolds DEF CataloguePart, CatalogueSound
  <1> QED BY <1>1, CataloguePartHolds, PTL

\* A table that is dropped takes its columns and indexes with it, as long as nothing
\* was renamed, for any number of parts (metadata.c:996-1027).
THEOREM DropsTakeParts == FilesSpec => DropTakesPartsUnrenamed
  <1>1. CataloguePart /\ [FilesNext]_filesVars
          => [subject = "catalogue" => Catalogue!UnrenamedDropTakesParts]_<<subject, catalogueVars>>
    BY DropTakes DEF CataloguePart
  <1> QED BY <1>1, CataloguePartHolds, PTL DEF FilesSpec, filesVars, DropTakesPartsUnrenamed

-----------------------------------------------------------------------------
(* The audit log.                                                             *)

\* Nothing was written to a file later than the one that is open.
AuditInv ==
    /\ Audit!TypeOK
    /\ Audit!RecordsInOrder
    /\ \A t \in 0..MaxTime : t > now => contents[t] = <<>>
    /\ auditFile # NoFile =>
          auditFile <= now /\ \A t \in 0..MaxTime : t > auditFile => contents[t] = <<>>

\* The files of the audit log are empty at first.
LEMMA AuditInit ==
    ASSUME Audit!AuditAssumption, Audit!Init
    PROVE  AuditInv
  <1>1. MaxTime \in Nat
    BY DEF Audit!AuditAssumption
  <1>2. /\ auditor = FALSE /\ config = [enabled |-> TRUE, rotate |-> TRUE, written |-> TRUE]
        /\ auditFile = NoFile /\ contents = [t \in 0..MaxTime |-> <<>>] /\ accepted = 0 /\ now = 0
    BY DEF Audit!Init
  <1>3. contents \in [0..MaxTime -> Seq(Nat)] /\ \A t \in 0..MaxTime : contents[t] = <<>>
    BY <1>2
  <1>4. Audit!TypeOK
    BY <1>1, <1>2, <1>3 DEF Audit!TypeOK, Audit!Config
  <1>5. Audit!RecordsInOrder
    <2> DEFINE s == [t \in 1..(MaxTime + 1) |-> contents[t - 1]]
    <2>1. s \in Seq(Seq(Nat)) /\ Len(s) = MaxTime + 1 /\ \A k \in 1..(MaxTime + 1) : s[k] = <<>>
      <3>1. \A k \in 1..(MaxTime + 1) : k - 1 \in 0..MaxTime
        BY <1>1
      <3> QED BY <1>1, <1>3, <3>1
    <2> HIDE DEF s
    <2>2. PICK f : IsFlatten(f, s, Nat) /\ FlattenSeq(s) = f[Len(s)]
      BY <2>1, FlattenSteps
    <2> DEFINE T == {m \in 0..(MaxTime + 1) : f[m] = <<>>}
    <2>3. 0 \in T
      BY <1>1, <2>2 DEF IsFlatten
    <2>4. ASSUME NEW m \in 0..(MaxTime + 1), m \in T, m # MaxTime + 1
          PROVE  m + 1 \in T
      <3>1. m + 1 \in 1..(MaxTime + 1) /\ (m + 1) - 1 = m
        BY <1>1, <2>4
      <3>2. f[m + 1] = f[m] \o s[m + 1]
        BY Zenon, <2>1, <2>2, <3>1 DEF IsFlatten
      <3>3. <<>> \o <<>> = <<>>
        OBVIOUS
      <3>4. f[m] = <<>> /\ s[m + 1] = <<>>
        BY <2>1, <2>4, <3>1
      <3>5. f[m + 1] = <<>>
        BY <3>2, <3>3, <3>4
      <3>6. m + 1 \in 0..(MaxTime + 1)
        BY <3>1
      <3> QED BY <3>5, <3>6
    <2>5. MaxTime + 1 \in T
      <3> HIDE DEF T
      <3>1. MaxTime + 1 \in Nat
        BY <1>1
      <3>2. \A m \in 0..(MaxTime + 1) : m \in T
        BY <2>3, <2>4, <3>1, UpTo
      <3> QED BY <3>1, <3>2
    <2>6. FlattenSeq(s) = <<>>
      BY <2>1, <2>2, <2>5
    <2>7. [i \in 1..accepted |-> i] = <<>>
      BY <1>2
    <2> QED BY Zenon, <2>6, <2>7 DEF s, Audit!RecordsInOrder, Audit!FlattenSeq, FlattenSeq
  <1> QED BY <1>2, <1>3, <1>4, <1>5 DEF AuditInv

\* A record goes to a file after which the others are empty.
LEMMA AuditGrows ==
    ASSUME Audit!AuditAssumption, AuditInv, NEW k \in 0..MaxTime,
           \A t \in 0..MaxTime : t > k => contents[t] = <<>>,
           contents' = [contents EXCEPT ![k] = Append(@, accepted + 1)],
           accepted' = accepted + 1
    PROVE  contents' \in [0..MaxTime -> Seq(Nat)] /\ Audit!RecordsInOrder'
  <1>1. MaxTime \in Nat /\ contents \in [0..MaxTime -> Seq(Nat)] /\ accepted \in Nat
    BY DEF AuditInv, Audit!TypeOK, Audit!AuditAssumption
  <1>2. contents' \in [0..MaxTime -> Seq(Nat)]
    BY <1>1
  <1> DEFINE s == [t \in 1..(MaxTime + 1) |-> contents[t - 1]]
             t == [u \in 1..(MaxTime + 1) |-> contents'[u - 1]]
  <1>3. s \in Seq(Seq(Nat)) /\ DOMAIN s = 1..(MaxTime + 1) /\ Len(s) = MaxTime + 1
    <2>1. \A u \in 1..(MaxTime + 1) : u - 1 \in 0..MaxTime
      BY <1>1
    <2> QED BY <1>1, <2>1
  <1>4. k + 1 \in DOMAIN s /\ (k + 1) - 1 = k /\ s[k + 1] = contents[k]
    BY <1>1
  <1>5. \A j \in DOMAIN s : j > k + 1 => s[j] = <<>>
    BY <1>1
  <1>6. t = [s EXCEPT ![k + 1] = Append(@, accepted + 1)]
    <2>1. ASSUME NEW u \in 1..(MaxTime + 1), u # k + 1
          PROVE  t[u] = s[u]
      <3>1. u - 1 \in 0..MaxTime /\ u - 1 # k
        BY <1>1, <2>1
      <3> QED BY <1>1, <3>1
    <2>2. t[k + 1] = Append(s[k + 1], accepted + 1)
      BY <1>1, <1>4
    <2> HIDE DEF s
    <2> QED BY Zenon, <1>3, <1>4, <2>1, <2>2
  <1>7. FlattenSeq(s) = [i \in 1..accepted |-> i]
    BY Zenon DEF AuditInv, Audit!RecordsInOrder, Audit!FlattenSeq, FlattenSeq
  <1>8. FlattenSeq(t) = Append(FlattenSeq(s), accepted + 1)
    <2> HIDE DEF s, t
    <2>1. accepted + 1 \in Nat
      BY <1>1
    <2> DEFINE x == accepted + 1
               l == k + 1
    <2>2. x \in Nat /\ l \in DOMAIN s /\ \A j \in DOMAIN s : j > l => s[j] = <<>>
      BY <1>4, <1>5, <2>1
    <2>3. GrowsAt(t, s, l, x)
      BY <1>6, <2>2 DEF GrowsAt
    <2> HIDE DEF x, l
    <2>4. FlattenSeq(t) = Append(FlattenSeq(s), x)
      BY Zenon, <1>3, <2>2, <2>3, FlattenGrows
    <2> QED BY <2>4 DEF x
  <1>9. Append([i \in 1..accepted |-> i], accepted + 1) = [i \in 1..(accepted + 1) |-> i]
    BY <1>1
  <1>10. Audit!RecordsInOrder'
    BY Zenon, <1>7, <1>8, <1>9 DEF Audit!RecordsInOrder, Audit!FlattenSeq, FlattenSeq
  <1> QED BY <1>2, <1>10

\* No step of the audit log touches what was recorded: a record is appended to the
\* newest file, and a rotation opens a later one (audit.c:198-237, 330-364).
LEMMA AuditStep ==
    ASSUME Audit!AuditAssumption, AuditInv, [Audit!Next]_Audit!vars
    PROVE  AuditInv'
  <1>1. /\ MaxTime \in Nat /\ contents \in [0..MaxTime -> Seq(Nat)] /\ accepted \in Nat
        /\ now \in 0..MaxTime /\ auditor \in BOOLEAN /\ config \in Audit!Config
        /\ auditFile \in 0..MaxTime \cup {NoFile}
    BY DEF AuditInv, Audit!TypeOK, Audit!AuditAssumption
  <1>2. ASSUME auditor' \in BOOLEAN, config' \in Audit!Config, auditFile' \in {now, auditFile, NoFile},
               UNCHANGED <<contents, accepted, now>>
        PROVE  AuditInv'
    BY <1>1, <1>2 DEF AuditInv, Audit!TypeOK, Audit!RecordsInOrder
  <1>3. CASE Audit!LogEvent
    <2> DEFINE k == IF config.rotate /\ Audit!TooLong THEN now ELSE auditFile
    <2>1. /\ accepted' = accepted + 1 /\ UNCHANGED <<auditor, config, now>> /\ auditFile # NoFile
          /\ contents' = [contents EXCEPT ![k] = Append(@, accepted + 1)]
          /\ auditFile' = k
      BY <1>3 DEF Audit!LogEvent, Audit!Opened, Audit!Written
    <2>2. k \in 0..MaxTime /\ k <= now /\ \A t \in 0..MaxTime : t > k => contents[t] = <<>>
      BY <1>1, <2>1 DEF AuditInv
    <2> HIDE DEF k
    <2>3. contents' \in [0..MaxTime -> Seq(Nat)] /\ Audit!RecordsInOrder'
      BY Zenon, <2>1, <2>2, AuditGrows
    <2>4. \A t \in 0..MaxTime : t > k => contents'[t] = <<>>
      BY <1>1, <2>1, <2>2
    <2>5. \A t \in 0..MaxTime : t > now => t > k
      BY <1>1, <2>2
    <2>6. Audit!TypeOK'
      BY <1>1, <2>1, <2>2, <2>3 DEF Audit!TypeOK
    <2>7. \A t \in 0..MaxTime : t > now' => contents'[t] = <<>>
      BY <2>1, <2>4, <2>5
    <2>8. auditFile' # NoFile =>
             auditFile' <= now' /\ \A t \in 0..MaxTime : t > auditFile' => contents'[t] = <<>>
      BY <2>1, <2>2, <2>4
    <2> QED BY <2>3, <2>6, <2>7, <2>8 DEF AuditInv
  <1>4. CASE Audit!Tick
    <2>1. now' = now + 1 /\ now' \in 0..MaxTime /\ UNCHANGED <<auditor, config, auditFile, contents, accepted>>
      BY <1>1, <1>4 DEF Audit!Tick, Audit!auditVars
    <2>2. \A t \in 0..MaxTime : t > now' => t > now
      BY <1>1, <2>1
    <2>3. auditFile # NoFile => auditFile <= now'
      BY <1>1, <2>1 DEF AuditInv
    <2>4. Audit!RecordsInOrder'
      BY <2>1 DEF AuditInv, Audit!RecordsInOrder
    <2>5. Audit!TypeOK'
      BY <1>1, <2>1 DEF AuditInv, Audit!TypeOK
    <2> QED BY <1>1, <2>1, <2>2, <2>3, <2>4, <2>5 DEF AuditInv
  <1>5. CASE Audit!LogEventFails \/ Audit!Rotate
    BY <1>1, <1>2, <1>5 DEF Audit!LogEventFails, Audit!Rotate, Audit!Opened, Audit!NotOpened
  <1>6. CASE \E c \in Audit!Config : Audit!InitManager(c) \/ Audit!SetConfig(c)
    BY Zenon, <1>1, <1>2, <1>6 DEF Audit!InitManager, Audit!SetConfig, Audit!Opened, Audit!NotOpened
  <1>7. CASE Audit!DestroyManager
    BY <1>1, <1>2, <1>7 DEF Audit!DestroyManager
  <1>8. CASE \E on \in BOOLEAN : Audit!Enable(on)
    <2>1. PICK on \in BOOLEAN : Audit!Enable(on)
      BY <1>8
    <2>2. config' \in Audit!Config
      BY Zenon, <1>1, <2>1 DEF Audit!Enable, Audit!Config
    <2> QED BY <1>1, <1>2, <2>1, <2>2 DEF Audit!Enable
  <1>9. CASE UNCHANGED Audit!vars
    BY <1>1, <1>2, <1>9 DEF Audit!vars, Audit!auditVars
  <1> QED BY <1>3, <1>4, <1>5, <1>6, <1>7, <1>8, <1>9 DEF Audit!Next

-----------------------------------------------------------------------------
(* The log.                                                                   *)

\* The g lines are in the file that is written, c, or in a renamed one, or were
\* lost, none twice and those of a file in their order.
LinesSound(c, a, g, without) ==
    /\ c \in Seq(1..g) /\ \A n \in DOMAIN a : a[n] \in Seq(1..g)
    /\ \A l \in 1..g : l \in without \/ l \in ToSet(c) \/ \E n \in DOMAIN a : l \in ToSet(a[n])
    /\ Ascends(c) /\ \A n \in DOMAIN a : Ascends(a[n])
    /\ \A m, n \in DOMAIN a : m # n => ToSet(a[m]) \cap ToSet(a[n]) = {}
    /\ \A n \in DOMAIN a : ToSet(a[n]) \cap ToSet(c) = {}

\* A rotation gives the file a name that no file has that was renamed since the
\* log was started.
LinesInv ==
    /\ LogLines!TypeOK
    /\ LinesSound(current, archived, given, forgone)
    /\ earlier \subseteq DOMAIN archived
    /\ isOpen => \A n \in DOMAIN archived \ earlier : n[2] < fileCount

\* c is renamed over what has that name.
Renamed(a, name, c) ==
    [n \in DOMAIN a \cup {name} |-> IF n = name THEN c ELSE a[n]]

\* A line appended to the current file.
LEMMA LinePut ==
    ASSUME NEW c, NEW a, NEW g \in Nat, NEW without, LinesSound(c, a, g, without)
    PROVE  LinesSound(Append(c, g + 1), a, g + 1, without)
  <1>1. /\ c \in Seq(1..g) /\ \A n \in DOMAIN a : a[n] \in Seq(1..g)
        /\ Ascends(c) /\ \A n \in DOMAIN a : Ascends(a[n])
    BY DEF LinesSound
  <1>2. 1..(g + 1) = (1..g) \cup {g + 1}
    OBVIOUS
  <1>3. c \in Seq(1..(g + 1)) /\ \A n \in DOMAIN a : a[n] \in Seq(1..(g + 1))
    BY <1>1, <1>2
  <1>4. Append(c, g + 1) \in Seq(1..(g + 1))
    BY <1>2, <1>3
  <1>5. ToSet(Append(c, g + 1)) = ToSet(c) \cup {g + 1}
    BY <1>2, <1>3, AppendElements
  <1>6. ToSet(c) \subseteq 1..g /\ \A n \in DOMAIN a : ToSet(a[n]) \subseteq 1..g
    BY <1>1 DEF ToSet
  <1>7. Ascends(Append(c, g + 1))
    <2>1. c \in Seq(Nat) /\ g + 1 \in Nat /\ \A y \in ToSet(c) : y < g + 1
      BY <1>1, <1>6
    <2> QED BY <1>1, <2>1, AppendAscends
  <1>8. \A l \in 1..(g + 1) :
           l \in without \/ l \in ToSet(Append(c, g + 1)) \/ \E n \in DOMAIN a : l \in ToSet(a[n])
    BY <1>2, <1>5 DEF LinesSound
  <1>9. \A n \in DOMAIN a : ToSet(a[n]) \cap ToSet(Append(c, g + 1)) = {}
    BY <1>5, <1>6 DEF LinesSound
  <1>10. \A m, n \in DOMAIN a : m # n => ToSet(a[m]) \cap ToSet(a[n]) = {}
    BY DEF LinesSound
  <1> QED BY <1>1, <1>3, <1>4, <1>7, <1>8, <1>9, <1>10 DEF LinesSound

\* A rotation that archives the current file may lose what had the name before.
LEMMA LinesRenamed ==
    ASSUME NEW c, NEW a, NEW g \in Nat, NEW without, LinesSound(c, a, g, without),
           NEW name, NEW more, without \subseteq more,
           name \in DOMAIN a => ToSet(a[name]) \subseteq more
    PROVE  LinesSound(<<>>, Renamed(a, name, c), g, more)
  <1> DEFINE b == Renamed(a, name, c)
  <1>1. DOMAIN b = DOMAIN a \cup {name} /\ b[name] = c /\ \A n \in DOMAIN a : n # name => b[n] = a[n]
    BY DEF Renamed
  <1>2. <<>> \in Seq(1..g) /\ Ascends(<<>>) /\ ToSet(<<>>) = {}
    BY DEF Ascends, ToSet
  <1> HIDE DEF b
  <1>3. \A n \in DOMAIN b : b[n] \in Seq(1..g) /\ Ascends(b[n])
    BY <1>1 DEF LinesSound
  <1>4. ASSUME NEW l \in 1..g
        PROVE  l \in more \/ l \in ToSet(<<>>) \/ \E n \in DOMAIN b : l \in ToSet(b[n])
    <2>1. CASE l \in without
      BY <2>1
    <2>2. CASE l \in ToSet(c)
      BY <2>2, <1>1
    <2>3. CASE \E n \in DOMAIN a : l \in ToSet(a[n])
      <3>1. PICK n \in DOMAIN a : l \in ToSet(a[n])
        BY <2>3
      <3> QED BY <3>1, <1>1
    <2> QED BY <2>1, <2>2, <2>3 DEF LinesSound
  <1>5. ASSUME NEW m \in DOMAIN b, NEW n \in DOMAIN b, m # n
        PROVE  ToSet(b[m]) \cap ToSet(b[n]) = {}
    <2>1. CASE m = name
      BY <1>1, <1>5, <2>1 DEF LinesSound
    <2>2. CASE n = name
      BY <1>1, <1>5, <2>2 DEF LinesSound
    <2>3. CASE m # name /\ n # name
      BY <1>1, <1>5, <2>3 DEF LinesSound
    <2> QED BY <2>1, <2>2, <2>3
  <1>6. LinesSound(<<>>, b, g, more)
    BY <1>2, <1>3, <1>4, <1>5 DEF LinesSound
  <1> QED BY <1>6 DEF b

\* A rotation that cannot rename the file truncates it, and may lose its lines.
LEMMA LinesTruncated ==
    ASSUME NEW c, NEW a, NEW g \in Nat, NEW without, LinesSound(c, a, g, without)
    PROVE  LinesSound(<<>>, a, g, without \cup ToSet(c))
  <1>1. <<>> \in Seq(1..g) /\ Ascends(<<>>) /\ ToSet(<<>>) = {}
    BY DEF Ascends, ToSet
  <1> QED BY <1>1 DEF LinesSound

\* A line may follow.
LEMMA LineFollows ==
    ASSUME NEW a, NEW g \in Nat, NEW without, LinesSound(<<>>, a, g, without),
           NEW puts \in BOOLEAN
    PROVE  LinesSound(IF puts THEN <<g + 1>> ELSE <<>>, a, g + IF puts THEN 1 ELSE 0, without)
  <1>1. LinesSound(Append(<<>>, g + 1), a, g + 1, without)
    BY Zenon, LinePut
  <1>2. Append(<<>>, g + 1) = <<g + 1>>
    OBVIOUS
  <1> QED BY <1>1, <1>2

\* There are no lines at first.
LEMMA LinesInit ==
    ASSUME LogLines!LogFileAssumption, LogLines!Init
    PROVE  LinesInv
  <1>1. LogLines!TypeOK
    <2>1. <<>> \in Seq(Nat) /\ DOMAIN <<>> = {} /\ 0 \in 0..LinesTime
      BY DEF LogLines!LogFileAssumption
    <2> QED BY Zenon, <2>1 DEF LogLines!Init, LogLines!TypeOK, LogLines!Level
  <1>2. LinesSound(<<>>, <<>>, 0, {})
    BY DEF LinesSound, Ascends, ToSet
  <1> QED BY <1>1, <1>2 DEF LinesInv, LogLines!Init

\* The parts of the type invariant of the log.
LEMMA LinesTypes ==
    ASSUME LogLines!LogFileAssumption, LinesInv
    PROVE  /\ LinesTime \in Nat /\ SizeLimit \in Nat
           /\ logger \in BOOLEAN /\ toFile \in BOOLEAN /\ rotation \in BOOLEAN /\ isOpen \in BOOLEAN
           /\ minLevel \in {"low", "high"}
           /\ current \in Seq(Nat) /\ \A n \in DOMAIN archived : archived[n] \in Seq(Nat)
           /\ DOMAIN archived \subseteq (0..LinesTime) \X Nat
           /\ fileCount \in Nat /\ logSize \in Nat /\ given \in Nat
           /\ earlier \subseteq DOMAIN archived /\ forgone \subseteq Nat
           /\ now \in 0..LinesTime
           /\ LinesSound(current, archived, given, forgone)
  BY DEF LinesInv, LogLines!TypeOK, LogLines!Name, LogLines!Level, LogLines!LogFileAssumption

\* What the parts of a new state have to be.
LEMMA LinesTogether ==
    ASSUME LogLines!LogFileAssumption,
           logger' \in BOOLEAN, toFile' \in BOOLEAN, rotation' \in BOOLEAN, isOpen' \in BOOLEAN,
           minLevel' \in {"low", "high"}, now' \in 0..LinesTime,
           fileCount' \in Nat, logSize' \in Nat, given' \in Nat, forgone' \subseteq Nat,
           DOMAIN archived' \subseteq (0..LinesTime) \X Nat, earlier' \subseteq DOMAIN archived',
           isOpen' => \A n \in DOMAIN archived' \ earlier' : n[2] < fileCount',
           LinesSound(current', archived', given', forgone')
    PROVE  LinesInv'
  <1>1. 1..given' \subseteq Nat /\ Seq(1..given') \subseteq Seq(Nat)
    OBVIOUS
  <1>2. current' \in Seq(Nat) /\ \A n \in DOMAIN archived' : archived'[n] \in Seq(Nat)
    BY <1>1 DEF LinesSound
  <1>3. LogLines!TypeOK'
    BY <1>2 DEF LogLines!TypeOK, LogLines!Name, LogLines!Level
  <1> QED BY <1>3 DEF LinesInv, LinesSound

\* The file is rotated and a line put in the new one, if there is one.
LEMMA LinesRotate ==
    ASSUME LogLines!LogFileAssumption, LinesInv, isOpen,
           NEW renamed \in BOOLEAN, NEW opens \in BOOLEAN, NEW puts \in BOOLEAN,
           LogLines!Rotation(renamed, opens, IF puts THEN <<given + 1>> ELSE <<>>),
           given' = given + IF puts /\ opens THEN 1 ELSE 0,
           logger' \in BOOLEAN, toFile' \in BOOLEAN, rotation' \in BOOLEAN,
           minLevel' \in {"low", "high"}, UNCHANGED now
    PROVE  LinesInv'
  <1> DEFINE name == <<now, fileCount>>
             a == IF renamed THEN Renamed(archived, name, current) ELSE archived
             c == IF renamed \/ opens THEN <<>> ELSE current
             more == forgone \cup
                        (IF renamed /\ name \in earlier THEN ToSet(archived[name]) ELSE {}) \cup
                        (IF ~renamed /\ opens THEN ToSet(current) ELSE {})
  <1>1. /\ archived' = a /\ isOpen' = opens /\ forgone' = more
        /\ fileCount' = fileCount + IF opens THEN 1 ELSE 0
        /\ logSize' = 1 + IF opens THEN 0 ELSE logSize
        /\ earlier' = IF renamed THEN earlier \ {name} ELSE earlier
        /\ current' = IF opens THEN (IF puts THEN <<given + 1>> ELSE <<>>)
                      ELSE IF renamed THEN <<>> ELSE current
    BY DEF LogLines!Rotation, LogLines!NameOf, Renamed, LogLines!ToSet, ToSet
  <1>2. /\ LinesTime \in Nat /\ isOpen \in BOOLEAN
        /\ current \in Seq(Nat) /\ \A n \in DOMAIN archived : archived[n] \in Seq(Nat)
        /\ DOMAIN archived \subseteq (0..LinesTime) \X Nat
        /\ fileCount \in Nat /\ logSize \in Nat /\ given \in Nat
        /\ earlier \subseteq DOMAIN archived /\ forgone \subseteq Nat
        /\ now \in 0..LinesTime
        /\ LinesSound(current, archived, given, forgone)
    BY LinesTypes
  <1>3. name \in DOMAIN archived => name \in earlier
    BY <1>2 DEF LinesInv
  <1>4. LinesSound(c, a, given, more)
    <2>1. CASE renamed
      BY Zenon, <1>2, <1>3, <2>1, LinesRenamed
    <2>2. CASE ~renamed /\ opens
      BY <1>2, <2>2, LinesTruncated
    <2>3. CASE ~renamed /\ ~opens
      BY <1>2, <2>3
    <2> QED BY <2>1, <2>2, <2>3
  <1>5. DOMAIN a = IF renamed THEN DOMAIN archived \cup {name} ELSE DOMAIN archived
    BY DEF Renamed
  <1>6. more \subseteq Nat
    <2>1. \A q \in Seq(Nat) : ToSet(q) \subseteq Nat
      BY DEF ToSet
    <2>2. ToSet(current) \subseteq Nat /\ \A n \in DOMAIN archived : ToSet(archived[n]) \subseteq Nat
      BY <1>2, <2>1
    <2> QED BY Zenon, <1>2, <2>2
  <1>7. opens => \A n \in DOMAIN a \ earlier' : n[2] < fileCount'
    BY <1>1, <1>2, <1>5 DEF LinesInv
  <1>8. DOMAIN a \subseteq (0..LinesTime) \X Nat /\ earlier' \subseteq DOMAIN a
    BY <1>1, <1>2, <1>5
  <1> HIDE DEF a, more
  <1>9. LinesSound(current', a, given', more)
    <2>1. CASE opens
      <3>1. LinesSound(<<>>, a, given, more)
        BY <1>4, <2>1
      <3>2. LinesSound(IF puts THEN <<given + 1>> ELSE <<>>, a, given + IF puts THEN 1 ELSE 0, more)
        BY <1>2, <3>1, LineFollows
      <3> QED BY <1>1, <2>1, <3>2
    <2>2. CASE ~opens
      <3>1. current' = c /\ given' = given
        BY <1>1, <1>2, <2>2
      <3> QED BY <1>4, <3>1
    <2> QED BY <2>1, <2>2
  <1>10. LinesSound(current', archived', given', forgone')
    BY <1>1, <1>9
  <1> HIDE DEF name, c
  <1>11. given' \in Nat /\ fileCount' \in Nat /\ logSize' \in Nat /\ now' \in 0..LinesTime
         /\ forgone' \subseteq Nat /\ isOpen' \in BOOLEAN
    BY <1>1, <1>2, <1>6
  <1> QED BY <1>1, <1>7, <1>8, <1>10, <1>11, LinesTogether

\* Every accepted line is appended, with or without a rotation before it.
LEMMA LinesPut ==
    ASSUME LogLines!LogFileAssumption, LinesInv, NEW puts \in BOOLEAN, LogLines!Put(puts),
           logger' \in BOOLEAN, toFile' \in BOOLEAN, rotation' \in BOOLEAN,
           minLevel' \in {"low", "high"}, UNCHANGED now
    PROVE  LinesInv'
  <1>1. CASE LogLines!Rotates
    <2>1. PICK renamed \in BOOLEAN, opens \in BOOLEAN :
             /\ LogLines!Rotation(renamed, opens, IF puts THEN <<given + 1>> ELSE <<>>)
             /\ given' = given + IF puts /\ opens THEN 1 ELSE 0
      BY <1>1 DEF LogLines!Put
    <2> QED BY <1>1, <2>1, LinesRotate DEF LogLines!Rotates
  <1>2. CASE ~LogLines!Rotates
    <2> DEFINE written == puts /\ isOpen
    <2>1. /\ current' = IF written THEN Append(current, given + 1) ELSE current
          /\ given' = given + IF written THEN 1 ELSE 0
          /\ logSize' = logSize + 1
          /\ UNCHANGED <<isOpen, archived, fileCount, earlier, forgone>>
      BY <1>2 DEF LogLines!Put
    <2>2. given \in Nat /\ LinesSound(current, archived, given, forgone)
      BY LinesTypes
    <2>3. LinesSound(Append(current, given + 1), archived, given + 1, forgone)
      BY <2>2, LinePut
    <2>4. LinesSound(current', archived', given', forgone')
      BY <2>1, <2>2, <2>3
    <2>5. given' \in Nat
      BY <2>1, <2>2
    <2>6. /\ isOpen' \in BOOLEAN /\ now' \in 0..LinesTime
          /\ fileCount' \in Nat /\ logSize' \in Nat /\ forgone' \subseteq Nat
          /\ DOMAIN archived' \subseteq (0..LinesTime) \X Nat /\ earlier' \subseteq DOMAIN archived'
      BY <2>1, LinesTypes
    <2>7. isOpen' => \A n \in DOMAIN archived' \ earlier' : n[2] < fileCount'
      BY <2>1 DEF LinesInv
    <2> QED BY <2>4, <2>5, <2>6, <2>7, LinesTogether
  <1> QED BY <1>1, <1>2

\* Each call and each restart of the log keeps the invariant (logging.c:49-155).
LEMMA LinesStep ==
    ASSUME LogLines!LogFileAssumption, LinesInv, [LogLines!Next]_LogLines!vars
    PROVE  LinesInv'
  <1>1. /\ LinesTime \in Nat /\ SizeLimit \in Nat
        /\ logger \in BOOLEAN /\ toFile \in BOOLEAN /\ rotation \in BOOLEAN /\ isOpen \in BOOLEAN
        /\ minLevel \in {"low", "high"}
        /\ current \in Seq(Nat)
        /\ DOMAIN archived \subseteq (0..LinesTime) \X Nat
        /\ fileCount \in Nat /\ logSize \in Nat /\ given \in Nat
        /\ earlier \subseteq DOMAIN archived /\ forgone \subseteq Nat
        /\ now \in 0..LinesTime
        /\ LinesSound(current, archived, given, forgone)
    BY LinesTypes
  <1>2. ASSUME UNCHANGED <<current, archived, given, forgone, earlier, fileCount, logSize>>,
               logger' \in BOOLEAN, toFile' \in BOOLEAN, rotation' \in BOOLEAN,
               minLevel' \in {"low", "high"}, now' \in 0..LinesTime, isOpen' \in {isOpen, FALSE}
        PROVE  LinesInv'
    <2>1. isOpen' => \A n \in DOMAIN archived' \ earlier' : n[2] < fileCount'
      BY Zenon, <1>2 DEF LinesInv
    <2>2. LinesSound(current', archived', given', forgone')
      BY <1>1, <1>2
    <2> QED BY Zenon, <1>1, <1>2, <2>1, <2>2, LinesTogether
  <1>3. CASE \E puts, rotates \in BOOLEAN : LogLines!InitLog(puts, rotates)
    <2>1. PICK puts \in BOOLEAN, rotates \in BOOLEAN : LogLines!InitLog(puts, rotates)
      BY <1>3
    <2>2. /\ logger' = TRUE /\ isOpen' = TRUE /\ minLevel' = "low"
          /\ toFile' = puts /\ rotation' = rotates /\ fileCount' = 0 /\ logSize' = Len(current)
          /\ earlier' = DOMAIN archived
          /\ UNCHANGED <<current, archived, given, forgone, now>>
      BY <2>1 DEF LogLines!InitLog
    <2>3. LinesSound(current', archived', given', forgone')
      BY <1>1, <2>2
    <2> QED BY <1>1, <2>2, <2>3, LinesTogether
  <1>4. CASE LogLines!DestroyLog
    BY Zenon, <1>1, <1>2, <1>4 DEF LogLines!DestroyLog
  <1>5. CASE \E level \in LogLines!Level : LogLines!Log(level)
    BY <1>1, <1>5, LinesPut DEF LogLines!Log
  <1>6. CASE \E level \in LogLines!Level : LogLines!SetLevel(level)
    <2>1. PICK level \in LogLines!Level : LogLines!SetLevel(level)
      BY <1>6
    <2>2. CASE level = "low"
      BY <1>1, <2>1, <2>2, LinesPut DEF LogLines!SetLevel, LogLines!Level
    <2>3. CASE level # "low"
      BY <1>1, <1>2, <2>1, <2>3 DEF LogLines!SetLevel, LogLines!Level
    <2> QED BY <2>2, <2>3
  <1>7. CASE \E puts \in BOOLEAN : LogLines!SetTarget(puts)
    <2>1. PICK puts \in BOOLEAN : LogLines!SetTarget(puts)
      BY <1>7
    <2>2. CASE minLevel = "low"
      BY <1>1, <2>1, <2>2, LinesPut DEF LogLines!SetTarget
    <2>3. CASE minLevel # "low"
      BY <1>1, <1>2, <2>1, <2>3 DEF LogLines!SetTarget
    <2> QED BY <2>2, <2>3
  <1>8. CASE LogLines!Tick
    BY <1>1, <1>2, <1>8 DEF LogLines!Tick, LogLines!logFileVars
  <1>9. CASE UNCHANGED LogLines!vars
    BY <1>1, <1>2, <1>9 DEF LogLines!vars, LogLines!logFileVars
  <1> QED BY <1>3, <1>4, <1>5, <1>6, <1>7, <1>8, <1>9 DEF LogLines!Next

\* From the invariant: a line is lost only with a file that a rotation gives up.
LEMMA LinesHold ==
    ASSUME LinesInv
    PROVE  LogLines!LinesKept
  <1> DEFINE All == {current} \cup {archived[n] : n \in DOMAIN archived}
             Stray == {l \in 1..given : ~\E f \in All : l \in ToSet(f)}
  <1>1. LinesSound(current, archived, given, forgone)
    BY DEF LinesInv
  <1>2. Stray \subseteq forgone
    BY <1>1 DEF LinesSound
  <1>3. \A f \in All : \A i, j \in DOMAIN f : i < j => f[i] < f[j]
    BY <1>1 DEF LinesSound, Ascends
  <1>4. \A m, n \in DOMAIN archived : m # n => ToSet(archived[m]) \cap ToSet(archived[n]) = {}
    BY <1>1 DEF LinesSound
  <1>5. \A n \in DOMAIN archived : ToSet(archived[n]) \cap ToSet(current) = {}
    BY <1>1 DEF LinesSound
  <1> QED BY Zenon, <1>2, <1>3, <1>4, <1>5 DEF LogLines!LinesKept, LogLines!ToSet, ToSet

-----------------------------------------------------------------------------
(* The LSM tree.                                                              *)

\* The file of the i-th place in the list has the memtable flushed to it, or, when
\* it was written over, a later one or the one that waits.
FileHas(i) ==
    \/ file[listed[i]].entries = flushed[i]
    \/ /\ listed[i] \in over
       /\ \/ \E j \in DOMAIN flushed : j > i /\ file[listed[i]].entries = flushed[j]
          \/ immutable = <<file[listed[i]].entries>>

\* What was accepted is in memory or was flushed, in order, and no file, listed or
\* left behind by a failed flush, has anything else.
TreeSound ==
    /\ log = FlattenSeq(flushed) \o FlattenSeq(immutable) \o active
    /\ \A i \in DOMAIN listed : FileHas(i)
    /\ \A t \in 0..MaxTime : ToSet(file[t].entries) \subseteq ToSet(log)

\* The types of what is the tree's own.
TreeTyped ==
    /\ active \in Seq(Entry)
    /\ immutable \in Seq(Seq(Entry)) /\ Len(immutable) <= 1
    /\ listed \in Seq(0..MaxTime)
    /\ file \in [0..MaxTime -> [entries : Seq(Entry), bytes : Nat]]
    /\ log \in Seq(Entry)
    /\ flushed \in Seq(Seq(Entry)) /\ Len(flushed) = Len(listed)
    /\ over \subseteq 0..MaxTime

TreeInv == TypeOK /\ (proc = "ok" => TreeSound)

\* One sequence after none, and none.
LEMMA FlattenOne ==
    /\ FlattenSeq(<<>>) = <<>>
    /\ \A Y, e : e \in Seq(Y) => FlattenSeq(<<e>>) = e
  <1>1. FlattenSeq(<<>>) = <<>>
    <2>1. <<>> \in Seq(Seq(Nat)) /\ Len(<<>>) = 0
      OBVIOUS
    <2>2. PICK f : IsFlatten(f, <<>>, Nat) /\ FlattenSeq(<<>>) = f[Len(<<>>)]
      BY Zenon, <2>1, FlattenSteps
    <2> QED BY <2>1, <2>2 DEF IsFlatten
  <1>2. ASSUME NEW Y, NEW e, e \in Seq(Y)
        PROVE  FlattenSeq(<<e>>) = e
    <2>1. <<>> \in Seq(Seq(Y)) /\ Append(<<>>, e) = <<e>> /\ <<>> \o e = e
      BY <1>2
    <2>2. FlattenSeq(Append(<<>>, e)) = FlattenSeq(<<>>) \o e
      BY Zenon, <1>2, <2>1, FlattenAppend
    <2> QED BY Zenon, <1>1, <2>1, <2>2
  <1> QED BY Zenon, <1>1, <1>2

\* Every item of a sequence over a set is one of the set.
LEMMA ItemsOf ==
    ASSUME NEW E, NEW s \in Seq(E)
    PROVE  \A i \in DOMAIN s : s[i] \in E
  OBVIOUS

\* There is one memtable waiting, or none.
LEMMA WaitsOrNot ==
    ASSUME NEW E, NEW w \in Seq(Seq(E)), Len(w) <= 1
    PROVE  w = <<>> \/ (w = <<w[1]>> /\ w[1] \in Seq(E) /\ DOMAIN w = {1})
  <1> DEFINE T == Seq(E)
  <1>1. w \in Seq(T)
    OBVIOUS
  <1> HIDE DEF T
  <1>2. Len(w) \in Nat /\ DOMAIN w = 1..Len(w)
    BY <1>1
  <1>3. CASE Len(w) = 0
    BY <1>1, <1>3
  <1>4. CASE Len(w) = 1
    <2>1. DOMAIN w = {1} /\ w[1] \in T
      BY <1>1, <1>2, <1>4
    <2>2. w = <<w[1]>>
      BY <1>1, <1>4
    <2> QED BY <2>1, <2>2 DEF T
  <1> QED BY <1>2, <1>3, <1>4

\* The tree is empty at first.
LEMMA TreeInit ==
    ASSUME LsmAssumption, Init
    PROVE  TreeInv /\ TreeTyped /\ TreeSound
  <1>1. /\ MaxTime \in Nat /\ active = <<>> /\ immutable = <<>> /\ listed = <<>> /\ log = <<>>
        /\ file = [t \in 0..MaxTime |-> [entries |-> <<>>, bytes |-> 0]] /\ now = 0 /\ proc = "ok"
        /\ flushed = <<>> /\ over = {}
    BY DEF LsmAssumption, Init
  <1>2. TypeOK
    <2>1. <<>> \in Seq(Entry) /\ Len(<<>>) = 0 /\ <<>> \in Seq(0..MaxTime) /\ <<>> \in Seq(Seq(Entry))
      OBVIOUS
    <2>2. file \in [0..MaxTime -> [entries : Seq(Entry), bytes : Nat]] /\ now \in 0..MaxTime
      BY <1>1, <2>1
    <2> QED BY <1>1, <2>1, <2>2 DEF TypeOK
  <1>3. TreeTyped
    BY <1>2 DEF TreeTyped, TypeOK
  <1>4. TreeSound
    <2>1. <<>> = FlattenSeq(<<>>) \o FlattenSeq(<<>>) \o <<>>
      BY FlattenOne
    <2>2. \A t \in 0..MaxTime : file[t].entries = <<>>
      BY <1>1
    <2>3. DOMAIN listed = {}
      BY <1>1
    <2> QED BY <1>1, <2>1, <2>2, <2>3 DEF TreeSound
  <1> QED BY <1>2, <1>3, <1>4 DEF TreeInv

\* A step that writes a file, or none.
FileWritten(full) ==
    \E n \in Nat : /\ file' = [file EXCEPT ![now] = [entries |-> full, bytes |-> n]]
                   /\ over' = over \cup ({now} \cap ToSet(listed))

\* What a flush may come to.
LEMMA FlushCases ==
    ASSUME NEW full, FlushOf(full), proc = "ok"
    PROVE  /\ \/ UNCHANGED <<file, over>> /\ immutable' = <<full>> /\ proc' = proc
              \/ FileWritten(full)
           /\ \/ immutable' = <<full>> /\ UNCHANGED <<listed, flushed>>
              \/ /\ immutable' = <<>> /\ FileWritten(full)
                 /\ listed' = Append(listed, now) /\ flushed' = Append(flushed, full)
           /\ proc' \in {"ok", "undefined"}
  <1>1. ASSUME NEW n \in 0..Bytes(full),
               file' = [file EXCEPT ![now] = [entries |-> full, bytes |-> n]],
               over' = over \cup ({now} \cap ToSet(listed))
        PROVE  FileWritten(full)
    <2>1. n \in Nat
      OBVIOUS
    <2> QED BY Zenon, <1>1, <2>1 DEF FileWritten
  <1>2. \/ immutable' = <<full>> /\ UNCHANGED <<listed, file, proc, flushed, over>>
        \/ /\ FileWritten(full)
           /\ \/ /\ immutable' = <<>> /\ listed' = Append(listed, now)
                 /\ flushed' = Append(flushed, full) /\ UNCHANGED proc
              \/ immutable' = <<full>> /\ UNCHANGED <<listed, proc, flushed>>
              \/ immutable' = <<full>> /\ proc' = "undefined" /\ UNCHANGED <<listed, flushed>>
    BY Zenon, <1>1 DEF FlushOf
  <1> QED BY Zenon, <1>2

\* What a flush leaves is of its type, and has been there before.
LEMMA FlushTypes ==
    ASSUME LsmAssumption, TypeOK, NEW full \in Seq(Entry), FlushOf(full), proc = "ok"
    PROVE  /\ immutable' \in Seq(Seq(Entry)) /\ Len(immutable') <= 1
           /\ listed' \in Seq(0..MaxTime)
           /\ file' \in [0..MaxTime -> [entries : Seq(Entry), bytes : Nat]]
           /\ proc' \in {"ok", "undefined"}
           /\ flushed' \in Seq(Seq(Entry)) /\ Len(flushed') = Len(listed')
           /\ over' \subseteq 0..MaxTime
           /\ \A t \in 0..MaxTime :
                 file'[t].entries = file[t].entries \/ (t = now /\ file'[t].entries = full)
  <1>1. /\ file \in [0..MaxTime -> [entries : Seq(Entry), bytes : Nat]]
        /\ listed \in Seq(0..MaxTime) /\ now \in 0..MaxTime
        /\ flushed \in Seq(Seq(Entry)) /\ Len(flushed) = Len(listed) /\ over \subseteq 0..MaxTime
    BY DEF TypeOK
  <1>2. <<full>> \in Seq(Seq(Entry)) /\ Len(<<full>>) = 1 /\ <<>> \in Seq(Seq(Entry)) /\ Len(<<>>) = 0
    OBVIOUS
  <1>3. immutable' \in Seq(Seq(Entry)) /\ Len(immutable') <= 1 /\ proc' \in {"ok", "undefined"}
    <2>1. immutable' = <<full>> \/ immutable' = <<>>
      BY Zenon, FlushCases
    <2>2. proc' \in {"ok", "undefined"}
      BY Zenon, FlushCases
    <2>3. 0 <= 1 /\ 1 <= 1
      OBVIOUS
    <2> QED BY Zenon, <1>2, <2>1, <2>2, <2>3
  <1>4. /\ listed' \in Seq(0..MaxTime) /\ flushed' \in Seq(Seq(Entry)) /\ Len(flushed') = Len(listed')
    <2>1. /\ Append(listed, now) \in Seq(0..MaxTime) /\ Len(Append(listed, now)) = Len(listed) + 1
          /\ Append(flushed, full) \in Seq(Seq(Entry)) /\ Len(Append(flushed, full)) = Len(flushed) + 1
      BY <1>1
    <2>2. \/ listed' = listed /\ flushed' = flushed
          \/ listed' = Append(listed, now) /\ flushed' = Append(flushed, full)
      BY FlushCases
    <2> QED BY Zenon, <1>1, <2>1, <2>2
  <1>5. /\ file' \in [0..MaxTime -> [entries : Seq(Entry), bytes : Nat]]
        /\ over' \subseteq 0..MaxTime
        /\ \A t \in 0..MaxTime :
              file'[t].entries = file[t].entries \/ (t = now /\ file'[t].entries = full)
    <2>1. CASE UNCHANGED <<file, over>>
      BY Zenon, <1>1, <2>1
    <2>2. CASE FileWritten(full)
      <3>1. PICK n \in Nat : /\ file' = [file EXCEPT ![now] = [entries |-> full, bytes |-> n]]
                             /\ over' = over \cup ({now} \cap ToSet(listed))
        BY <2>2 DEF FileWritten
      <3> DEFINE r == [entries |-> full, bytes |-> n]
      <3>2. r \in [entries : Seq(Entry), bytes : Nat] /\ r.entries = full
        OBVIOUS
      <3> HIDE DEF r
      <3>3. file' = [file EXCEPT ![now] = r]
        BY <3>1 DEF r
      <3>4. /\ file' \in [0..MaxTime -> [entries : Seq(Entry), bytes : Nat]]
            /\ \A t \in 0..MaxTime : file'[t] = IF t = now THEN r ELSE file[t]
        BY Zenon, <1>1, <3>2, <3>3
      <3> QED BY Zenon, <1>1, <3>1, <3>2, <3>4
    <2> QED BY <2>1, <2>2, FlushCases
  <1> QED BY <1>3, <1>4, <1>5

\* It keeps what was flushed and what waits, and the files have it.
LEMMA FlushKeeps ==
    ASSUME LsmAssumption, TypeOK, NEW full \in Seq(Entry), FlushOf(full), proc = "ok",
           immutable \in {<<>>, <<full>>}, \A i \in DOMAIN listed : FileHas(i)
    PROVE  /\ FlattenSeq(flushed') \o FlattenSeq(immutable') = FlattenSeq(flushed) \o full
           /\ \A i \in DOMAIN listed' : FileHas(i)'
  <1>1. /\ file \in [0..MaxTime -> [entries : Seq(Entry), bytes : Nat]]
        /\ listed \in Seq(0..MaxTime) /\ now \in 0..MaxTime
        /\ flushed \in Seq(Seq(Entry)) /\ Len(flushed) = Len(listed)
    BY DEF TypeOK
  <1>2. FlattenSeq(<<>>) = <<>> /\ FlattenSeq(<<full>>) = full
    BY Zenon, FlattenOne
  <1>3. \A t \in 0..MaxTime :
           file'[t].entries = file[t].entries \/ (t = now /\ file'[t].entries = full)
    BY Zenon, FlushTypes
  <1>4. \A i \in DOMAIN listed : listed[i] \in 0..MaxTime
    BY Zenon, <1>1, ItemsOf
  <1>5. DOMAIN listed = 1..Len(listed) /\ DOMAIN flushed = 1..Len(listed) /\ Len(listed) \in Nat
    BY <1>1
  <1>6. over \subseteq over' /\ (FileWritten(full) => now \in over' \/ now \notin ToSet(listed))
    BY FlushCases DEF FileWritten
  <1>7. CASE immutable' = <<full>> /\ UNCHANGED <<listed, flushed>>
    <2>1. FlattenSeq(flushed') \o FlattenSeq(immutable') = FlattenSeq(flushed) \o full
      BY Zenon, <1>2, <1>7
    <2>2. ASSUME NEW i \in DOMAIN listed
          PROVE  FileHas(i)'
      <3>1. CASE file'[listed[i]].entries = file[listed[i]].entries
        <4>1. immutable = <<file[listed[i]].entries>> => immutable' = <<file[listed[i]].entries>>
          BY <1>7
        <4> QED BY Zenon, <1>6, <1>7, <3>1, <4>1 DEF FileHas
      <3>2. CASE listed[i] = now /\ file'[listed[i]].entries = full
                 /\ file'[listed[i]].entries # file[listed[i]].entries
        <4>1. FileWritten(full)
          BY <3>2, FlushCases
        <4>2. now \in ToSet(listed)
          BY <1>1, <3>2 DEF ToSet
        <4> QED BY Zenon, <1>6, <1>7, <3>2, <4>1, <4>2 DEF FileHas
      <3> QED BY Zenon, <1>3, <1>4, <3>1, <3>2
    <2> QED BY <1>7, <2>1, <2>2
  <1>8. CASE /\ immutable' = <<>> /\ FileWritten(full)
             /\ listed' = Append(listed, now) /\ flushed' = Append(flushed, full)
    <2>0. PICK m \in Nat : m = Len(listed) + 1
      BY <1>5
    <2>1. /\ DOMAIN listed' = 1..m /\ DOMAIN flushed' = 1..m
          /\ \A i \in DOMAIN listed : listed'[i] = listed[i] /\ flushed'[i] = flushed[i]
          /\ listed'[m] = now /\ flushed'[m] = full
      BY <1>1, <1>8, <2>0
    <2>2. FlattenSeq(flushed') \o FlattenSeq(immutable') = FlattenSeq(flushed) \o full
      <3>1. FlattenSeq(flushed') = FlattenSeq(flushed) \o full
        BY Zenon, <1>1, <1>8, FlattenAppend
      <3>2. FlattenSeq(flushed) \in Seq(Entry)
        BY Zenon, <1>1, FlattenHas
      <3>3. FlattenSeq(flushed) \o full \in Seq(Entry)
        BY <3>2
      <3>4. (FlattenSeq(flushed) \o full) \o <<>> = FlattenSeq(flushed) \o full
        BY <3>3
      <3> QED BY Zenon, <1>2, <1>8, <3>1, <3>4
    <2>3. file'[now].entries = full
      <3>1. PICK n \in Nat : file' = [file EXCEPT ![now] = [entries |-> full, bytes |-> n]]
        BY <1>8 DEF FileWritten
      <3>2. file'[now] = [entries |-> full, bytes |-> n]
        BY Zenon, <1>1, <3>1
      <3> QED BY <3>2
    <2>4. FileHas(m)'
      BY Zenon, <2>1, <2>3 DEF FileHas
    <2>5. ASSUME NEW i \in DOMAIN listed
          PROVE  FileHas(i)'
      <3>0. m \in DOMAIN flushed' /\ m > i /\ DOMAIN flushed \subseteq DOMAIN flushed'
        BY <1>5, <2>0, <2>1
      <3>1. CASE listed[i] = now
        <4>1. now \in over'
          BY <1>1, <1>6, <1>8, <3>1 DEF ToSet
        <4>2. listed'[i] = now
          BY <2>1, <3>1
        <4> QED BY Zenon, <2>1, <2>3, <3>0, <4>1, <4>2 DEF FileHas
      <3>2. CASE listed[i] # now
        <4>1. listed'[i] = listed[i] /\ flushed'[i] = flushed[i] /\ file'[listed[i]].entries = file[listed[i]].entries
          BY <1>3, <1>4, <2>1, <3>2
        <4>2. CASE file[listed[i]].entries = flushed[i]
          BY Zenon, <4>1, <4>2 DEF FileHas
        <4>3. CASE /\ listed[i] \in over
                   /\ \E j \in DOMAIN flushed : j > i /\ file[listed[i]].entries = flushed[j]
          <5>1. PICK j \in DOMAIN flushed : j > i /\ file[listed[i]].entries = flushed[j]
            BY <4>3
          <5>2. j \in DOMAIN flushed' /\ flushed'[j] = flushed[j]
            BY <1>5, <2>1, <3>0
          <5> QED BY Zenon, <1>6, <4>1, <4>3, <5>1, <5>2 DEF FileHas
        <4>4. CASE listed[i] \in over /\ immutable = <<file[listed[i]].entries>>
          <5>1. file[listed[i]].entries = full
            <6>1. <<file[listed[i]].entries>> # <<>>
              OBVIOUS
            <6>2. <<file[listed[i]].entries>> = <<full>>
              BY <4>4, <6>1
            <6> QED BY <6>2
          <5> QED BY Zenon, <1>6, <2>1, <3>0, <4>1, <4>4, <5>1 DEF FileHas
        <4> QED BY Zenon, <4>2, <4>3, <4>4 DEF FileHas
      <3> QED BY <3>1, <3>2
    <2>6. \A i \in DOMAIN listed' : i \in DOMAIN listed \/ i = m
      BY <1>5, <2>0, <2>1
    <2> QED BY Zenon, <2>2, <2>4, <2>5, <2>6
  <1> QED BY Zenon, <1>7, <1>8, FlushCases

\* Once the process has gone wrong nothing is promised any more.
LEMMA TreeLost ==
    ASSUME TypeOK', proc' = "undefined"
    PROVE  TreeInv'
  BY DEF TreeInv

\* The memtables have nothing but what was accepted.
LEMMA TreeParts ==
    ASSUME TreeTyped, TreeSound
    PROVE  /\ FlattenSeq(flushed) \in Seq(Entry) /\ FlattenSeq(immutable) \in Seq(Entry)
           /\ ToSet(active) \subseteq ToSet(log)
           /\ \A i \in DOMAIN immutable : /\ immutable[i] \in Seq(Entry)
                                          /\ ToSet(immutable[i]) \subseteq ToSet(log)
  <1>1. flushed \in Seq(Seq(Entry)) /\ immutable \in Seq(Seq(Entry)) /\ active \in Seq(Entry)
    BY DEF TreeTyped
  <1> DEFINE a == FlattenSeq(flushed)
             b == FlattenSeq(immutable)
  <1>2. /\ a \in Seq(Entry) /\ b \in Seq(Entry)
        /\ ToSet(b) = UNION {ToSet(immutable[k]) : k \in DOMAIN immutable}
    BY Zenon, <1>1, FlattenHas
  <1>3. log = a \o b \o active
    BY DEF TreeSound
  <1> HIDE DEF a, b
  <1>4. a \o b \in Seq(Entry)
    BY <1>2
  <1>5. ToSet(log) = (ToSet(a) \cup ToSet(b)) \cup ToSet(active)
    <2>1. ToSet(a \o b) = ToSet(a) \cup ToSet(b)
      BY Zenon, <1>2, ConcatElements
    <2>2. ToSet((a \o b) \o active) = ToSet(a \o b) \cup ToSet(active)
      BY Zenon, <1>1, <1>4, ConcatElements
    <2> QED BY Zenon, <1>3, <2>1, <2>2
  <1>6. \A i \in DOMAIN immutable : immutable[i] \in Seq(Entry)
    BY <1>1
  <1> QED BY Zenon, <1>2, <1>5, <1>6 DEF a, b

\* An insertion appends to the memtable and to what was accepted, if at all.
LEMMA TreeInserts ==
    ASSUME LsmAssumption, TreeInv, NEW k \in Key, NEW v \in Text, Insert(k, v)
    PROVE  TreeInv'
  <1> DEFINE e == [key |-> k, val |-> v]
             a == FlattenSeq(flushed)
             b == FlattenSeq(immutable)
  <1>1. e \in Entry
    BY DEF Entry
  <1>2. proc = "ok" /\ now' = now /\ TreeSound
    BY DEF Insert, TreeInv
  <1>3. TypeOK /\ TreeTyped
    BY DEF TreeInv, TypeOK, TreeTyped
  <1>4. /\ a \in Seq(Entry) /\ b \in Seq(Entry) /\ active \in Seq(Entry) /\ log \in Seq(Entry)
        /\ ToSet(active) \subseteq ToSet(log) /\ log = (a \o b) \o active
    BY Zenon, <1>2, <1>3, TreeParts DEF TreeTyped, TreeSound
  <1>5. /\ Append(active, e) \in Seq(Entry) /\ Append(log, e) \in Seq(Entry) /\ <<e>> \in Seq(Entry)
        /\ <<>> \in Seq(Entry)
        /\ a \o b \in Seq(Entry)
        /\ (a \o b) \o Append(active, e) = Append((a \o b) \o active, e)
    <2>1. a \o b \in Seq(Entry)
      <3> HIDE DEF a, b
      <3> QED BY <1>4
    <2>2. \A p, q \in Seq(Entry) : p \o Append(q, e) = Append(p \o q, e)
      <3> HIDE DEF e
      <3> QED BY <1>1
    <2>3. /\ Append(active, e) \in Seq(Entry) /\ Append(log, e) \in Seq(Entry) /\ <<e>> \in Seq(Entry)
          /\ <<>> \in Seq(Entry)
      <3> HIDE DEF e, a, b
      <3> QED BY <1>1, <1>4
    <2> HIDE DEF e, a, b
    <2> QED BY Zenon, <1>4, <2>1, <2>2, <2>3
  <1>6. ToSet(log) \subseteq ToSet(Append(log, e))
    <2> HIDE DEF e, a, b
    <2>1. \A q \in Seq(Entry), y \in Entry : ToSet(Append(q, y)) = ToSet(q) \cup {y}
      BY Zenon, AppendElements
    <2> QED BY <1>1, <1>4, <2>1
  <1>7. CASE /\ active' = Append(active, e)
             /\ log' = Append(log, e)
             /\ UNCHANGED <<immutable, listed, file, proc, flushed, over>>
    <2>1. TypeOK'
      BY <1>2, <1>3, <1>5, <1>7 DEF TypeOK
    <2>2. TreeSound'
      <3>1. log' = FlattenSeq(flushed') \o FlattenSeq(immutable') \o active'
        BY Zenon, <1>4, <1>5, <1>7
      <3>2. \A i \in DOMAIN listed' : FileHas(i)'
        BY Zenon, <1>2, <1>7 DEF TreeSound, FileHas
      <3>3. \A t \in 0..MaxTime : ToSet(file'[t].entries) \subseteq ToSet(log')
        BY Zenon, <1>2, <1>6, <1>7 DEF TreeSound
      <3> QED BY <3>1, <3>2, <3>3 DEF TreeSound
    <2> QED BY <2>1, <2>2 DEF TreeInv
  <1>8. CASE /\ immutable = <<>> /\ FlushOf(active)
             /\ \/ active' = <<e>> /\ log' = Append(log, e)
                \/ active' = <<>> /\ UNCHANGED log
    <2>1. /\ immutable' \in Seq(Seq(Entry)) /\ Len(immutable') <= 1
          /\ listed' \in Seq(0..MaxTime)
          /\ file' \in [0..MaxTime -> [entries : Seq(Entry), bytes : Nat]]
          /\ proc' \in {"ok", "undefined"}
          /\ flushed' \in Seq(Seq(Entry)) /\ Len(flushed') = Len(listed')
          /\ over' \subseteq 0..MaxTime
          /\ \A t \in 0..MaxTime :
                file'[t].entries = file[t].entries \/ (t = now /\ file'[t].entries = active)
      BY Zenon, <1>2, <1>3, <1>4, <1>8, FlushTypes
    <2>2. TypeOK'
      <3>1. active' \in Seq(Entry) /\ log' \in Seq(Entry)
        BY Zenon, <1>4, <1>5, <1>8
      <3> QED BY <1>2, <1>3, <2>1, <3>1 DEF TypeOK
    <2>3. /\ FlattenSeq(flushed') \o FlattenSeq(immutable') = a \o active
          /\ \A i \in DOMAIN listed' : FileHas(i)'
      BY Zenon, <1>2, <1>3, <1>4, <1>8, FlushKeeps DEF TreeSound
    <2>4. log = a \o active
      <3>1. b = <<>>
        BY Zenon, <1>8, FlattenOne
      <3>2. a \o <<>> = a
        <4> HIDE DEF a, b
        <4> QED BY <1>4
      <3> QED BY Zenon, <1>4, <3>1, <3>2
    <2>5. log' = FlattenSeq(flushed') \o FlattenSeq(immutable') \o active'
      <3>1. CASE active' = <<e>> /\ log' = Append(log, e)
        <4>1. log \o <<e>> = Append(log, e)
          <5> HIDE DEF e, a, b
          <5> QED BY <1>1, <1>4
        <4> QED BY Zenon, <2>3, <2>4, <3>1, <4>1
      <3>2. CASE active' = <<>> /\ log' = log
        <4>1. log \o <<>> = log
          <5> HIDE DEF a, b
          <5> QED BY <1>4
        <4> QED BY Zenon, <2>3, <2>4, <3>2, <4>1
      <3> QED BY Zenon, <1>8, <3>1, <3>2
    <2>6. \A t \in 0..MaxTime : ToSet(file'[t].entries) \subseteq ToSet(log')
      <3>1. ToSet(log) \subseteq ToSet(log')
        BY Zenon, <1>6, <1>8
      <3>2. \A t \in 0..MaxTime : ToSet(file'[t].entries) \subseteq ToSet(log)
        BY Zenon, <1>2, <1>4, <2>1 DEF TreeSound
      <3> QED BY Zenon, <3>1, <3>2
    <2> QED BY <2>2, <2>3, <2>5, <2>6 DEF TreeInv, TreeSound
  <1>9. CASE /\ immutable' = <<active>>
             /\ active' = <<>>
             /\ proc' = "undefined"
             /\ UNCHANGED <<listed, file, log, flushed, over>>
    <2>1. <<active>> \in Seq(Seq(Entry)) /\ Len(<<active>>) = 1 /\ 1 <= 1
      <3> HIDE DEF e, a, b
      <3> QED BY <1>4
    <2>2. TypeOK'
      <3> HIDE DEF e, a, b
      <3> QED BY Zenon, <1>2, <1>3, <1>5, <1>9, <2>1 DEF TypeOK
    <2> QED BY <1>9, <2>2, TreeLost
  <1> QED BY Zenon, <1>7, <1>8, <1>9 DEF Insert, e

\* Insertions, flushes whole or failed, and the passing of time keep the invariant
\* (lsm_tree.c:74-121, 224-323).
LEMMA TreeStep ==
    ASSUME LsmAssumption, TreeInv, [Next]_vars
    PROVE  TreeInv'
  <1>1. TypeOK /\ TreeTyped
    BY DEF TreeInv, TypeOK, TreeTyped
  <1>2. CASE \E k \in Key, v \in Value : Insert(k, v)
    BY <1>2, TreeInserts DEF Text
  <1>3. CASE \E k \in Key : Delete(k)
    BY <1>3, TreeInserts DEF Delete, Text
  <1>4. CASE Flush
    <2>1. /\ proc = "ok" /\ immutable # <<>> /\ FlushOf(immutable[1])
          /\ UNCHANGED <<active, now, log>> /\ TreeSound
      BY <1>4 DEF Flush, TreeInv
    <2> DEFINE full == immutable[1]
               a == FlattenSeq(flushed)
    <2>2. immutable = <<full>> /\ full \in Seq(Entry) /\ 1 \in DOMAIN immutable
      BY <1>1, <2>1, WaitsOrNot DEF TreeTyped
    <2>3. ToSet(full) \subseteq ToSet(log)
      BY <1>1, <2>1, <2>2, TreeParts
    <2>4. FlattenSeq(immutable) = full
      BY Zenon, <2>2, FlattenOne
    <2> HIDE DEF full
    <2>5. FlushOf(full)
      BY <2>1 DEF full
    <2>6. /\ immutable' \in Seq(Seq(Entry)) /\ Len(immutable') <= 1
          /\ listed' \in Seq(0..MaxTime)
          /\ file' \in [0..MaxTime -> [entries : Seq(Entry), bytes : Nat]]
          /\ proc' \in {"ok", "undefined"}
          /\ flushed' \in Seq(Seq(Entry)) /\ Len(flushed') = Len(listed')
          /\ over' \subseteq 0..MaxTime
          /\ \A t \in 0..MaxTime :
                file'[t].entries = file[t].entries \/ (t = now /\ file'[t].entries = full)
      BY Zenon, <1>1, <2>1, <2>2, <2>5, FlushTypes
    <2>7. TypeOK'
      BY <1>1, <2>1, <2>6 DEF TypeOK
    <2>8. /\ FlattenSeq(flushed') \o FlattenSeq(immutable') = a \o full
          /\ \A i \in DOMAIN listed' : FileHas(i)'
      <3>1. immutable \in {<<>>, <<full>>}
        BY <2>2
      <3> QED BY Zenon, <1>1, <2>1, <2>2, <2>5, <3>1, FlushKeeps DEF TreeSound
    <2>9. log' = FlattenSeq(flushed') \o FlattenSeq(immutable') \o active'
      BY Zenon, <2>1, <2>4, <2>8 DEF TreeSound
    <2>10. \A t \in 0..MaxTime : ToSet(file'[t].entries) \subseteq ToSet(log')
      BY Zenon, <2>1, <2>3, <2>6 DEF TreeSound
    <2> QED BY <2>7, <2>8, <2>9, <2>10 DEF TreeInv, TreeSound
  <1>5. CASE Tick
    <2>1. /\ now' \in 0..MaxTime
          /\ UNCHANGED <<active, immutable, listed, file, proc, log, flushed, over>>
      BY <1>1, <1>5 DEF Tick, TypeOK, LsmAssumption
    <2>2. TypeOK'
      BY <1>1, <2>1 DEF TypeOK
    <2> QED BY Zenon, <2>1, <2>2 DEF TreeInv, TreeSound, FileHas
  <1>6. CASE UNCHANGED vars
    BY Zenon, <1>6 DEF vars, TreeInv, TypeOK, TreeSound, FileHas
  <1> QED BY <1>2, <1>3, <1>4, <1>5, <1>6 DEF Next

\* A key that is found in a place is found with an entry of that place.
LEMMA FirstIsThere ==
    ASSUME NEW place, place.entries \in Seq(Entry), NEW k \in Key, First(place, k) # 0
    PROVE  [key |-> k, val |-> place.entries[First(place, k)].val] \in ToSet(place.entries)
  <1> DEFINE source == place.entries
             I == {i \in 1..Len(source) : source[i].key = k}
  <1>1. First(place, k) = IF I # {} THEN Min(I) ELSE 0
    BY DEF First, SelectInSeq
  <1>2. I \in SUBSET Nat /\ I # {}
    BY <1>1
  <1>3. Min(I) \in I
    <2> HIDE DEF I
    <2> QED BY <1>2, MinIsLeast
  <1> DEFINE m == Min(I)
             e == source[m]
  <1>4. e \in ToSet(source) /\ e \in Entry /\ e.key = k
    <2>1. m \in 1..Len(source) /\ source[m].key = k
      BY <1>3
    <2> HIDE DEF m
    <2> QED BY <2>1 DEF ToSet
  <1>5. e = [key |-> k, val |-> e.val]
    <2> HIDE DEF e
    <2> QED BY <1>4 DEF Entry
  <1> QED BY <1>1, <1>2, <1>4, <1>5

\* A search looks through the memtables and the listed files.
LEMMA PlacesAre ==
    ASSUME TreeTyped, NEW i \in DOMAIN Places
    PROVE  \/ Places[i].entries = active
           \/ \E j \in DOMAIN immutable : Places[i].entries = immutable[j]
           \/ \E t \in 0..MaxTime : Places[i].entries = file[t].entries
  <1> DEFINE A == {InMemory(active)}
             B == {InMemory(immutable[j]) : j \in DOMAIN immutable}
             C == {OnFile(t) : t \in 0..MaxTime}
             Q == A \cup B \cup C
             one == <<InMemory(active)>>
             two == [j \in DOMAIN immutable |-> InMemory(immutable[j])]
             three == [j \in DOMAIN listed |-> OnFile(listed[j])]
  <1>1. DOMAIN immutable = 1..Len(immutable) /\ Len(immutable) \in Nat
        /\ DOMAIN listed = 1..Len(listed) /\ Len(listed) \in Nat
        /\ \A j \in DOMAIN listed : listed[j] \in 0..MaxTime
    <2> HIDE DEF A, B, C, Q, one, two, three
    <2>1. immutable \in Seq(Seq(Entry)) /\ listed \in Seq(0..MaxTime)
      BY Zenon DEF TreeTyped
    <2>2. DOMAIN immutable = 1..Len(immutable) /\ Len(immutable) \in Nat
          /\ DOMAIN listed = 1..Len(listed) /\ Len(listed) \in Nat
      BY <2>1
    <2> QED BY Zenon, <2>1, <2>2, ItemsOf
  <1>2. /\ InMemory(active) \in Q
        /\ \A j \in DOMAIN immutable : InMemory(immutable[j]) \in Q
        /\ \A j \in DOMAIN listed : OnFile(listed[j]) \in Q
    BY Zenon, <1>1
  <1> HIDE DEF Q
  <1>3. one \in Seq(Q) /\ two \in Seq(Q) /\ three \in Seq(Q)
    BY <1>1, <1>2
  <1>4. Places = (one \o two) \o three
    BY DEF Places
  <1> HIDE DEF one, two, three
  <1>5. Places \in Seq(Q)
    BY <1>3, <1>4
  <1>6. Places[i] \in Q
    BY <1>5
  <1> USE DEF Q
  <1>7. CASE Places[i] \in A
    BY <1>7 DEF InMemory
  <1>8. CASE Places[i] \in B
    BY <1>8 DEF InMemory
  <1>9. CASE Places[i] \in C
    BY <1>9 DEF OnFile
  <1> QED BY Zenon, <1>6, <1>7, <1>8, <1>9

\* From the invariant: what is held is what was accepted, and a get finds an entry of it.
LEMMA TreeHolds ==
    ASSUME LsmAssumption, TreeTyped, proc = "ok" => TreeSound
    PROVE  EntriesKept
  <1>1. LogPreserved
    BY DEF TreeSound, LogPreserved, FileHas
  <1>2. ASSUME NEW k \in Key, NEW i \in DOMAIN Places, NEW v \in Answers(Places[i], k),
               proc = "ok", ~Torn(Places[i])
        PROVE  [key |-> k, val |-> v] \in ToSet(log)
    <2> DEFINE place == Places[i]
    <2>1. TreeSound
      BY <1>2
    <2>2. place.entries \in Seq(Entry) /\ ToSet(place.entries) \subseteq ToSet(log)
      <3>1. \A t \in 0..MaxTime : file[t].entries \in Seq(Entry) /\ ToSet(file[t].entries) \subseteq ToSet(log)
        BY <2>1 DEF TreeTyped, TreeSound
      <3>2. active \in Seq(Entry)
        BY DEF TreeTyped
      <3> HIDE DEF place
      <3>3. \/ place.entries = active
            \/ \E j \in DOMAIN immutable : place.entries = immutable[j]
            \/ \E t \in 0..MaxTime : place.entries = file[t].entries
        BY Zenon, PlacesAre DEF place
      <3> QED BY Zenon, <2>1, <3>1, <3>2, <3>3, TreeParts
    <2> HIDE DEF place
    <2>3. Finds(place, k) /\ v = place.entries[First(place, k)].val
      BY <1>2 DEF Answers, place
    <2>4. First(place, k) # 0
      BY <2>3 DEF Finds
    <2>5. [key |-> k, val |-> place.entries[First(place, k)].val] \in ToSet(place.entries)
      BY Zenon, <2>2, <2>4, FirstIsThere
    <2> QED BY Zenon, <2>2, <2>3, <2>5
  <1>3. GetReturnsAccepted
    BY Zenon, <1>2 DEF GetReturnsAccepted
  <1> QED BY <1>1, <1>3 DEF EntriesKept

-----------------------------------------------------------------------------
(* The backups.                                                               *)

\* p is in the list, before all others of its name.
FirstOfName(l, p) ==
    \E i \in DOMAIN l : l[i] = p /\ \A j \in DOMAIN l : j < i => l[j][2] # p[2]

\* What was found at the start is there, and comes before what got its name later.
BackupInv ==
    /\ Backup!TypeOK
    /\ IsFiniteSet(onDisk)
    /\ keeper /\ ~isNull => seen \subseteq onDisk /\ \A p \in seen : FirstOfName(list, p)

\* No keeper, no list and no files at first.
LEMMA BackupInit ==
    ASSUME Backup!BackupAssumption, Backup!Init
    PROVE  BackupInv
  <1>1. /\ keeper = FALSE /\ isNull = FALSE /\ dir \in Dir /\ list = <<>> /\ onDisk = {} /\ empty = {} /\ seen = {}
        /\ now = 0 /\ MaxTime \in Nat
    BY DEF Backup!BackupAssumption, Backup!Init
  <1>2. IsFiniteSet({})
    BY FS_EmptySet
  <1>3. list \in Seq(Backup!Path)
    BY <1>1
  <1>4. Backup!TypeOK
    <2>1. onDisk \subseteq Backup!Path /\ empty \subseteq Backup!Path /\ seen \subseteq Backup!Path
      BY <1>1
    <2>2. keeper \in BOOLEAN /\ isNull \in BOOLEAN
      BY Zenon, <1>1
    <2>3. now \in 0..MaxTime
      BY <1>1
    <2> QED BY <1>1, <1>3, <2>1, <2>2, <2>3 DEF Backup!TypeOK
  <1>5. ~(keeper /\ ~isNull)
    BY <1>1
  <1> QED BY <1>1, <1>2, <1>4, <1>5 DEF BackupInv

\* What was there stays first when more is added.
LEMMA AppendKeepsFirst ==
    ASSUME NEW E, NEW l \in Seq(E), NEW e \in E, NEW p, FirstOfName(l, p)
    PROVE  FirstOfName(Append(l, e), p)
  <1>1. PICK i \in DOMAIN l : l[i] = p /\ \A j \in DOMAIN l : j < i => l[j][2] # p[2]
    BY DEF FirstOfName
  <1> DEFINE m == Append(l, e)
  <1>2. i \in DOMAIN m /\ m[i] = p /\ \A j \in DOMAIN m : j < i => j \in DOMAIN l /\ m[j] = l[j]
    BY <1>1
  <1> HIDE DEF m
  <1>3. FirstOfName(m, p)
    BY <1>1, <1>2 DEF FirstOfName
  <1> QED BY <1>3 DEF m

\* The first of its name stays so when another element is removed.
LEMMA RemovalKeepsFirst ==
    ASSUME NEW E, NEW l \in Seq(E), NEW k \in DOMAIN l, NEW p, FirstOfName(l, p), l[k] # p
    PROVE  FirstOfName(RemoveAt(l, k), p)
  <1>1. PICK i \in DOMAIN l : l[i] = p /\ \A j \in DOMAIN l : j < i => l[j][2] # p[2]
    BY DEF FirstOfName
  <1> DEFINE m == RemoveAt(l, k)
             n == Len(l)
  <1>2. n \in Nat /\ DOMAIN l = 1..n /\ i # k
    BY <1>1
  <1>3. /\ m \in Seq(E) /\ Len(m) = n - 1
        /\ \A j \in 1..(n - 1) : (j < k => m[j] = l[j]) /\ (j >= k => m[j] = l[j + 1])
    BY RemoveAtSkips
  <1> HIDE DEF m
  <1>4. DOMAIN m = 1..(n - 1)
    BY <1>3
  <1> HIDE DEF n
  <1>5. CASE i < k
    <2>1. i \in DOMAIN m /\ m[i] = p
      BY <1>1, <1>2, <1>3, <1>4, <1>5
    <2>2. \A j \in DOMAIN m : j < i => m[j] = l[j] /\ j \in DOMAIN l
      BY <1>2, <1>3, <1>4, <1>5
    <2> QED BY <1>1, <2>1, <2>2 DEF FirstOfName, m
  <1>6. CASE i > k
    <2>1. i - 1 \in DOMAIN m /\ (i - 1) + 1 = i /\ i - 1 >= k
      BY <1>1, <1>2, <1>3, <1>4, <1>6
    <2>2. m[i - 1] = p
      BY <1>1, <1>3, <1>4, <2>1
    <2>3. ASSUME NEW j \in DOMAIN m, j < i - 1
          PROVE  m[j][2] # p[2]
      <3>1. CASE j < k
        <4>1. m[j] = l[j] /\ j \in DOMAIN l /\ j < i
          BY <1>2, <1>3, <1>4, <2>3, <3>1
        <4> QED BY <1>1, <4>1
      <3>2. CASE j >= k
        <4>1. m[j] = l[j + 1] /\ j + 1 \in DOMAIN l /\ j + 1 < i
          BY <1>2, <1>3, <1>4, <2>3, <3>2
        <4> QED BY <1>1, <4>1
      <3> QED BY <1>2, <1>4, <3>1, <3>2
    <2> QED BY <2>1, <2>2, <2>3 DEF FirstOfName, m
  <1> QED BY <1>1, <1>2, <1>5, <1>6

\* The files of a directory differ in their names, those too that a scan lists
\* when it passes some over.
LEMMA ScanListsFirst ==
    ASSUME NEW fs, IsFiniteSet(fs), fs \subseteq Backup!Path, NEW d,
           \A q \in fs : q[1] = d
    PROVE  /\ Backup!Scanned(fs) \in Seq(Backup!Path)
           /\ \A p \in fs : FirstOfName(Backup!Scanned(fs), p)
  <1> DEFINE l == SetToSeq(fs)
  <1>1. /\ l \in Seq(fs) /\ ToSet(l) = fs
        /\ \A i, j \in DOMAIN l : l[i] = l[j] => i = j
    BY SetToSeqLists
  <1>2. Backup!Scanned(fs) = l
    BY DEF Backup!Scanned, Backup!SetToSeq, SetToSeq, Backup!IsInjective, IsInjective,
           Backup!Cardinality, Cardinality
  <1> HIDE DEF l
  <1>3. l \in Seq(Backup!Path)
    BY <1>1
  <1>4. ASSUME NEW p \in fs
        PROVE  FirstOfName(l, p)
    <2>1. PICK i \in DOMAIN l : l[i] = p
      BY <1>1, <1>4 DEF ToSet
    <2>2. ASSUME NEW j \in DOMAIN l, j < i
          PROVE  l[j][2] # p[2]
      <3>1. DOMAIN l \subseteq Nat /\ l[j] \in fs
        BY <1>1
      <3>2. l[j] # p
        BY <1>1, <2>1, <2>2, <3>1
      <3>3. l[j] \in Dir \X Backup!Name /\ p \in Dir \X Backup!Name /\ l[j][1] = p[1]
        BY <3>1 DEF Backup!Path
      <3> QED BY <3>2, <3>3
    <2> QED BY <2>1, <2>2 DEF FirstOfName
  <1> QED BY <1>2, <1>3, <1>4

\* The first of a name, when there is one.
LEMMA FindFinds ==
    ASSUME NEW name, list \in Seq(Backup!Path)
    PROVE  /\ Backup!Find(name) # 0 => Backup!Find(name) \in DOMAIN list
           /\ \A i \in DOMAIN list :
                 list[i][2] = name /\ (\A j \in DOMAIN list : j < i => list[j][2] # name)
                 => Backup!Find(name) = i
  <1> DEFINE I == {i \in 1..Len(list) : list[i][2] = name}
             m == Min(I)
  <1>1. Backup!Find(name) = IF I # {} THEN m ELSE 0
    BY DEF Backup!Find, Backup!SelectInSeq, Backup!Min, Min
  <1>2. I # {} => m \in I /\ \A j \in I : m <= j
    <2>1. I \in SUBSET Nat
      OBVIOUS
    <2> HIDE DEF I
    <2> QED BY <2>1, MinIsLeast
  <1> HIDE DEF m
  <1>3. ASSUME NEW i \in DOMAIN list, list[i][2] = name,
               \A j \in DOMAIN list : j < i => list[j][2] # name
        PROVE  I # {} /\ m = i
    <2>1. i \in I
      BY <1>3
    <2>2. m \in I /\ m <= i
      BY <1>2, <2>1
    <2>3. m \in DOMAIN list /\ list[m][2] = name /\ m \in Nat /\ i \in Nat
      BY <2>2
    <2> QED BY <1>3, <2>1, <2>2, <2>3
  <1> QED BY <1>1, <1>2, <1>3

\* What the parts of a new state have to be.
LEMMA BackupTogether ==
    ASSUME BackupInv, keeper' \in BOOLEAN, isNull' \in BOOLEAN, dir' \in Dir, list' \in Seq(Backup!Path),
           IsFiniteSet(onDisk'), onDisk' \subseteq Backup!Path, empty' \subseteq Backup!Path,
           seen' \subseteq onDisk' \/ seen' \subseteq seen,
           now' \in 0..MaxTime,
           keeper' /\ ~isNull' => seen' \subseteq onDisk' /\ \A p \in seen' : FirstOfName(list', p)
    PROVE  BackupInv'
  <1>1. seen' \subseteq Backup!Path
    BY DEF BackupInv, Backup!TypeOK
  <1>2. Backup!TypeOK'
    BY <1>1 DEF Backup!TypeOK, Backup!Path, Backup!Name
  <1> QED BY <1>2 DEF BackupInv, FirstOfName

\* Performing, deleting and listing backups keep the invariant (backup.c:148-419).
LEMMA BackupStep ==
    ASSUME Backup!BackupAssumption, BackupInv, [Backup!Next]_Backup!vars
    PROVE  BackupInv'
  <1> USE DEF Backup!BackupAssumption
  <1>1. /\ keeper \in BOOLEAN /\ isNull \in BOOLEAN /\ dir \in Dir /\ list \in Seq(Backup!Path)
        /\ onDisk \subseteq Backup!Path /\ empty \subseteq Backup!Path
        /\ seen \subseteq Backup!Path /\ now \in 0..MaxTime /\ IsFiniteSet(onDisk) /\ MaxTime \in Nat
    BY DEF BackupInv, Backup!TypeOK
  <1>2. keeper /\ ~isNull => seen \subseteq onDisk /\ \A p \in seen : FirstOfName(list, p)
    BY DEF BackupInv
  <1>3. CASE \E d \in Dir : Backup!InitManager(d)
    <2>1. PICK d \in Dir : Backup!InitManager(d)
      BY <1>3
    <2>2. PICK fs \in SUBSET {p \in onDisk : p[1] = d} :
             list' = Backup!Scanned(fs) /\ seen' = fs
             /\ isNull' \in IF fs # {} THEN BOOLEAN ELSE {FALSE}
      BY <2>1 DEF Backup!InitManager
    <2>3. keeper' = TRUE /\ dir' = d /\ UNCHANGED <<onDisk, empty, now>> /\ isNull' \in BOOLEAN
      BY <2>1, <2>2 DEF Backup!InitManager
    <2>4. IsFiniteSet(fs) /\ fs \subseteq onDisk /\ \A q \in fs : q[1] = d
      BY <1>1, <2>2, FS_Subset
    <2>5. list' \in Seq(Backup!Path) /\ \A p \in seen' : FirstOfName(list', p)
      BY <1>1, <2>2, <2>4, ScanListsFirst
    <2> QED BY <1>1, <2>2, <2>3, <2>4, <2>5, BackupTogether
  <1>4. CASE \E d \in Dir : Backup!SetConfig(d)
    <2>1. PICK d \in Dir : Backup!SetConfig(d)
      BY <1>4
    <2>2. dir' \in Dir /\ UNCHANGED <<keeper, list, isNull, onDisk, empty, seen, now>>
      BY <2>1 DEF Backup!SetConfig
    <2> QED BY <1>1, <1>2, <2>2, BackupTogether
  <1>5. CASE \E type \in Type : Backup!Perform(type)
    <2>1. PICK type \in Type : Backup!Perform(type)
      BY <1>5
    <2> DEFINE e == <<dir, <<type, now>>>>
    <2>2. /\ keeper /\ ~isNull /\ UNCHANGED <<keeper, dir, onDisk, seen, now>>
          /\ UNCHANGED empty
          /\ \/ list' = Append(list, e) /\ isNull' = isNull
             \/ isNull' = TRUE /\ list' = list
      BY <2>1 DEF Backup!Perform
    <2>3. e \in Backup!Path
      BY <1>1 DEF Backup!Path, Backup!Name
    <2> HIDE DEF e
    <2>4. Append(list, e) \in Seq(Backup!Path)
      BY <1>1, <2>3
    <2>5. \A p \in seen : FirstOfName(Append(list, e), p)
      BY <1>1, <1>2, <2>2, <2>3, AppendKeepsFirst
    <2>6. list' \in Seq(Backup!Path) /\ isNull' \in BOOLEAN
          /\ (~isNull' => list' = Append(list, e))
      BY Zenon, <1>1, <2>2, <2>4
    <2> QED BY Zenon, <1>1, <1>2, <2>2, <2>5, <2>6, BackupTogether
  <1>6. CASE \E name \in Backup!Name : Backup!Delete(name)
    <2>1. PICK name \in Backup!Name : Backup!Delete(name)
      BY <1>6
    <2> DEFINE k == Backup!Find(name)
    <2>2. /\ keeper /\ ~isNull /\ k # 0
          /\ onDisk' = onDisk \ {list[k]} /\ empty' = empty \ {list[k]}
          /\ seen' = seen \ {list[k]}
          /\ list' = RemoveAt(list, k) /\ isNull' \in BOOLEAN
          /\ UNCHANGED <<keeper, dir, now>>
      BY Zenon, <2>1 DEF Backup!Delete, Backup!RemoveAt, RemoveAt
    <2>3. k \in DOMAIN list
      BY <1>1, <2>2, FindFinds
    <2> HIDE DEF k
    <2>4. RemoveAt(list, k) \in Seq(Backup!Path)
      BY <1>1, <2>3, RemoveAtSkips
    <2>5. \A p \in seen' : FirstOfName(RemoveAt(list, k), p)
      BY <1>1, <1>2, <2>2, <2>3, RemovalKeepsFirst
    <2>6. IsFiniteSet(onDisk')
      BY <1>1, <2>2, FS_Subset
    <2> QED BY <1>1, <1>2, <2>2, <2>4, <2>5, <2>6, BackupTogether
  <1>7. CASE \E p \in Backup!Path : Backup!Place(p)
    <2>1. PICK p \in Backup!Path : Backup!Place(p)
      BY <1>7
    <2>2. onDisk' = onDisk \cup {p} /\ empty' \in {empty, empty \cup {p}} /\ UNCHANGED <<keeper, dir, list, isNull, seen, now>>
      BY <2>1 DEF Backup!Place
    <2>3. IsFiniteSet(onDisk')
      BY <1>1, <2>2, FS_AddElement
    <2> QED BY <1>1, <1>2, <2>2, <2>3, BackupTogether
  <1>8. CASE \E p \in Backup!Path : Backup!TakeAway(p)
    <2>1. PICK p \in Backup!Path : Backup!TakeAway(p)
      BY <1>8
    <2>2. onDisk' = onDisk \ {p} /\ empty' = empty \ {p} /\ seen' = seen \ {p} /\ UNCHANGED <<keeper, dir, list, isNull, now>>
      BY <2>1 DEF Backup!TakeAway
    <2>3. IsFiniteSet(onDisk')
      BY <1>1, <2>2, FS_Subset
    <2> QED BY <1>1, <1>2, <2>2, <2>3, BackupTogether
  <1>9. CASE Backup!DestroyManager
    <2>1. keeper' = FALSE /\ list' = <<>> /\ seen' = {} /\ UNCHANGED <<dir, isNull, onDisk, empty, now>>
      BY <1>9 DEF Backup!DestroyManager
    <2>2. list' \in Seq(Backup!Path)
      BY <2>1
    <2> QED BY Zenon, <1>1, <2>1, <2>2, BackupTogether
  <1>10. CASE Backup!Tick
    <2>1. now' \in 0..MaxTime /\ UNCHANGED <<keeper, dir, list, isNull, onDisk, empty, seen>>
      BY <1>1, <1>10 DEF Backup!Tick, Backup!backupVars
    <2> QED BY <1>1, <1>2, <2>1, BackupTogether
  <1>11. CASE UNCHANGED Backup!vars
    <2>1. UNCHANGED <<keeper, dir, list, isNull, onDisk, empty, seen, now>>
      BY <1>11 DEF Backup!vars, Backup!backupVars
    <2> QED BY <1>1, <1>2, <2>1, BackupTogether
  <1> QED BY <1>3, <1>4, <1>5, <1>6, <1>7, <1>8, <1>9, <1>10, <1>11 DEF Backup!Next

\* From the invariant: the files found are listed, and verify unless they are empty.
LEMMA BackupHolds ==
    ASSUME BackupInv
    PROVE  Backup!FilesStayListed
  <1> SUFFICES ASSUME keeper, ~isNull, NEW p \in seen
               PROVE  p \in ToSet(list) /\ (Backup!Verifies(p[2]) <=> p \notin empty)
    BY DEF Backup!FilesStayListed, Backup!ToSet, ToSet
  <1>1. p \in onDisk /\ FirstOfName(list, p) /\ list \in Seq(Backup!Path)
    BY DEF BackupInv, Backup!TypeOK
  <1>2. PICK i \in DOMAIN list : list[i] = p /\ \A j \in DOMAIN list : j < i => list[j][2] # p[2]
    BY <1>1 DEF FirstOfName
  <1>3. Backup!Find(p[2]) = i
    BY <1>1, <1>2, FindFinds
  <1>4. i # 0
    BY <1>1
  <1> QED BY <1>1, <1>2, <1>3, <1>4 DEF Backup!Verifies, ToSet

-----------------------------------------------------------------------------
(* The settings.                                                              *)

Contents == DOMAIN MCPrinted
Item == [key : Setting, value : Contents]
Items == Seq(Item)

\* Two items have two keys; an item has a key and a value.
Distinct(l) == \A i, j \in DOMAIN l : l[i].key = l[j].key => i = j
KeysOf(l) == {l[i].key : i \in DOMAIN l}
Has(l, k, v) == \E i \in DOMAIN l : l[i].key = k /\ l[i].value = v

\* Where With puts a value.
LEMMA WithTypes ==
    ASSUME NEW l \in Items, NEW k \in Setting, NEW v \in Contents
    PROVE  /\ Config!With(l, k, v) \in Items
           /\ \/ /\ k \notin KeysOf(l)
                 /\ Config!With(l, k, v) = Append(l, [key |-> k, value |-> v])
              \/ \E i \in DOMAIN l : l[i].key = k /\ Config!With(l, k, v) = [l EXCEPT ![i].value = v]
  <1> DEFINE I == {i \in 1..Len(l) : l[i].key = k}
             m == Min(I)
             e == [key |-> k, value |-> v]
  <1>1. Config!Find(l, k) = IF I # {} THEN m ELSE 0
    BY DEF Config!Find, Config!SelectInSeq, Config!Min, Min
  <1>2. I # {} => m \in I
    <2>1. I \in SUBSET Nat
      OBVIOUS
    <2> HIDE DEF I
    <2> QED BY <2>1, MinIsLeast
  <1>3. 0 \notin I
    OBVIOUS
  <1>4. CASE I = {}
    <2>1. Config!With(l, k, v) = Append(l, e)
      BY <1>1, <1>4 DEF Config!With
    <2>2. e \in Item /\ Append(l, e) \in Items
      BY DEF Item, Items
    <2>3. k \notin KeysOf(l)
      BY <1>4 DEF KeysOf, Items
    <2> QED BY <2>1, <2>2, <2>3
  <1>5. CASE I # {}
    <2> HIDE DEF m
    <2>1. m \in DOMAIN l /\ l[m].key = k /\ m # 0
      BY <1>2, <1>3, <1>5 DEF Items
    <2>2. Config!With(l, k, v) = [l EXCEPT ![m].value = v]
      BY <1>1, <1>5, <2>1 DEF Config!With
    <2>3. [l[m] EXCEPT !.value = v] \in Item
      <3>1. \A g \in Item :
               [g EXCEPT !.value = v] \in Item
        BY DEF Item
      <3>2. l[m] \in Item
        BY <2>1 DEF Items
      <3> QED BY <3>1, <3>2
    <2>4. [l EXCEPT ![m].value = v] \in Items
      BY <2>1, <2>3 DEF Items
    <2> QED BY Zenon, <2>1, <2>2, <2>4
  <1> QED BY <1>4, <1>5

\* No item is lost, and none is there twice.
LEMMA WithSets ==
    ASSUME NEW l \in Items, Distinct(l), NEW k \in Setting, NEW v \in Contents,
           NEW m, m = Config!With(l, k, v)
    PROVE  /\ m \in Items /\ Distinct(m) /\ KeysOf(m) = KeysOf(l) \cup {k}
           /\ Has(m, k, v)
           /\ \A x, u : x # k /\ Has(l, x, u) => Has(m, x, u)
  <1> DEFINE e == [key |-> k, value |-> v]
  <1>1. m \in Items
    BY Zenon, WithTypes
  <1>2. CASE k \notin KeysOf(l) /\ m = Append(l, e)
    <2>1. /\ DOMAIN m = (DOMAIN l) \cup {Len(l) + 1} /\ Len(l) + 1 \notin DOMAIN l
          /\ m[Len(l) + 1] = e /\ \A i \in DOMAIN l : m[i] = l[i]
      BY <1>2 DEF Items
    <2>2. e.key = k /\ e.value = v
      OBVIOUS
    <2> HIDE DEF e
    <2>3. Distinct(m)
      BY <1>2, <2>1, <2>2 DEF Distinct, KeysOf
    <2>4. KeysOf(m) = KeysOf(l) \cup {k}
      BY <2>1, <2>2 DEF KeysOf
    <2> QED BY <1>1, <2>1, <2>2, <2>3, <2>4 DEF Has
  <1>3. ASSUME NEW i \in DOMAIN l, l[i].key = k, m = [l EXCEPT ![i].value = v]
        PROVE  /\ Distinct(m) /\ KeysOf(m) = KeysOf(l) \cup {k}
               /\ Has(m, k, v)
               /\ \A x, u : x # k /\ Has(l, x, u) => Has(m, x, u)
    <2>1. DOMAIN m = DOMAIN l /\ m[i].key = k /\ m[i].value = v /\ \A j \in DOMAIN l : j # i => m[j] = l[j]
      <3>1. l[i] \in Item
        BY DEF Items
      <3>2. m[i] = [l[i] EXCEPT !.value = v]
        BY <1>3
      <3>3. m[i].key = l[i].key /\ m[i].value = v
        BY <3>1, <3>2 DEF Item
      <3> QED BY <1>3, <3>3
    <2>2. \A j \in DOMAIN l : m[j].key = l[j].key
      BY <1>3, <2>1
    <2>3. Distinct(m)
      BY <2>1, <2>2 DEF Distinct
    <2>4. KeysOf(m) = KeysOf(l) /\ k \in KeysOf(l)
      BY <1>3, <2>1, <2>2 DEF KeysOf
    <2>5. ASSUME NEW x, NEW u, x # k, Has(l, x, u)
          PROVE  Has(m, x, u)
      BY <1>3, <2>1, <2>5 DEF Has
    <2> QED BY <2>1, <2>3, <2>4, <2>5 DEF Has
  <1> QED BY Zenon, <1>1, <1>2, <1>3, WithTypes

\* The list after n items with keys ks and values vs are set on top of base.
IsSetting(f, base, ks, vs, n) ==
    /\ f \in [0..n -> Items] /\ f[0] = base
    /\ \A i \in 1..n : f[i] = Config!With(f[i - 1], ks[i], vs[i])

\* What the folds of the library compute.
IsSettingFold(F, base, ks, vs, n) ==
    F = [s \in SUBSET (1..n) |->
           IF s = {} THEN base ELSE Config!With(F[s \ {Max(s)}], ks[Max(s)], vs[Max(s)])]

\* The settings after each line of a file, or after each default, exist as a function.
LEMMA SettingFoldExists ==
    ASSUME NEW n \in Nat, NEW base \in Items,
           NEW ks \in [1..n -> Setting], NEW vs \in [1..n -> Contents]
    PROVE  \E F : IsSettingFold(F, base, ks, vs, n)
  <1> DEFINE step == [i \in 1..n |-> [d \in Items |-> Config!With(d, ks[i], vs[i])]]
  <1>1. \A i \in 1..n, d \in Items : Config!With(d, ks[i], vs[i]) \in Items
    BY Zenon, WithTypes
  <1>2. IsStep(step, n, Items)
    BY <1>1 DEF IsStep
  <1>3. PICK g : IsSetFold(g, base, step, n, Items)
    <2> HIDE DEF step
    <2> QED BY <1>2, SetRecursion
  <1>4. ASSUME NEW s \in SUBSET (1..n), s # {}
        PROVE  g[s] = Config!With(g[s \ {Max(s)}], ks[Max(s)], vs[Max(s)])
    <2>1. Max(s) \in 1..n
      BY Zenon, <1>4, MaxIsGreatest
    <2>2. g[s \ {Max(s)}] \in Items
      BY Zenon, <1>3 DEF IsSetFold
    <2>3. g[s] = step[Max(s)][g[s \ {Max(s)}]]
      BY Zenon, <1>3, <1>4 DEF IsSetFold
    <2> QED BY <2>1, <2>2, <2>3
  <1>5. IsSettingFold(g, base, ks, vs, n)
    BY Zenon, <1>3, <1>4 DEF IsSetFold, IsSettingFold
  <1> QED BY <1>5

\* One step of that function is one call of set.
LEMMA SettingFoldSteps ==
    ASSUME NEW n \in Nat, NEW base \in Items,
           NEW ks \in [1..n -> Setting], NEW vs \in [1..n -> Contents],
           NEW F, IsSettingFold(F, base, ks, vs, n)
    PROVE  \E f : IsSetting(f, base, ks, vs, n) /\ F[1..n] = f[n]
  <1> DEFINE f == [i \in 0..n |-> F[1..i]]
  <1>1. F[{}] = base
    BY DEF IsSettingFold
  <1>2. ASSUME NEW i \in 1..n
        PROVE  F[1..i] = Config!With(F[1..(i - 1)], ks[i], vs[i])
    <2>1. Max(1..i) = i /\ (1..i) \ {Max(1..i)} = 1..(i - 1)
      BY MaxOfInterval
    <2>2. 1..i \in SUBSET (1..n) /\ 1..i # {}
      <3>1. i \in 1..i /\ \A x \in 1..i : x \in 1..n
        OBVIOUS
      <3> QED BY Zenon, <3>1
    <2>3. F[1..i] = Config!With(F[(1..i) \ {Max(1..i)}], ks[Max(1..i)], vs[Max(1..i)])
      BY Zenon, <2>2 DEF IsSettingFold
    <2> QED BY Zenon, <2>1, <2>3
  <1>3. 1..0 = {}
    OBVIOUS
  <1> DEFINE T == {m \in 0..n : f[m] \in Items}
  <1>4. 0 \in T
    BY <1>1, <1>3
  <1>5. ASSUME NEW m \in 0..n, m \in T, m # n
        PROVE  m + 1 \in T
    <2>1. m + 1 \in 1..n /\ (m + 1) - 1 = m
      BY <1>5
    <2>2. f[m + 1] = Config!With(f[m], ks[m + 1], vs[m + 1])
      BY <1>2, <2>1
    <2>3. f[m] \in Items /\ ks[m + 1] \in Setting /\ vs[m + 1] \in Contents
      BY <1>5, <2>1
    <2>4. f[m + 1] \in Items
      <3> DEFINE g == f[m]
                 k == ks[m + 1]
                 v == vs[m + 1]
      <3>1. g \in Items /\ k \in Setting /\ v \in Contents
        BY <2>3
      <3> HIDE DEF g, k, v
      <3>2. Config!With(g, k, v) \in Items
        BY Zenon, <3>1, WithTypes
      <3> QED BY <2>2, <3>2 DEF g, k, v
    <2> QED BY <2>1, <2>4
  <1>6. \A m \in 0..n : m \in T
    <2> HIDE DEF T
    <2> QED BY Zenon, <1>4, <1>5, UpTo
  <1>7. f \in [0..n -> Items] /\ f[0] = base
    BY <1>1, <1>3, <1>6
  <1>8. \A i \in 1..n : f[i] = Config!With(f[i - 1], ks[i], vs[i])
    BY <1>2
  <1>9. F[1..n] = f[n]
    OBVIOUS
  <1> HIDE DEF f
  <1>10. IsSetting(f, base, ks, vs, n)
    BY <1>7, <1>8 DEF IsSetting
  <1> QED BY <1>9, <1>10

\* What has been set after m of the items, those of base included.
SetUpTo(f, base, ks, vs, m) ==
    /\ Distinct(f[m]) /\ KeysOf(f[m]) = KeysOf(base) \cup {ks[i] : i \in 1..m}
    /\ \A i \in 1..m : (\A j \in 1..m : i < j => ks[j] # ks[i]) => Has(f[m], ks[i], vs[i])
    /\ \A x, u : (\A i \in 1..m : ks[i] # x) /\ Has(base, x, u) => Has(f[m], x, u)

\* After all lines a key has what the last line for it says, or what it had.
LEMMA SettingsAreSet ==
    ASSUME NEW n \in Nat, NEW base \in Items, Distinct(base),
           NEW ks \in [1..n -> Setting], NEW vs \in [1..n -> Contents],
           NEW f, IsSetting(f, base, ks, vs, n)
    PROVE  f[n] \in Items /\ SetUpTo(f, base, ks, vs, n)
  <1> DEFINE T == {m \in 0..n : SetUpTo(f, base, ks, vs, m)}
  <1>1. f[0] = base /\ f \in [0..n -> Items] /\ 1..0 = {}
    BY DEF IsSetting
  <1>2. 0 \in T
    <2>1. KeysOf(base) \cup {ks[i] : i \in 1..0} = KeysOf(base)
      BY <1>1
    <2>2. \A i \in 1..0 : FALSE
      BY <1>1
    <2> QED BY <1>1, <2>1, <2>2 DEF SetUpTo
  <1>3. ASSUME NEW m \in 0..n, m \in T, m # n
        PROVE  m + 1 \in T
    <2> DEFINE k == ks[m + 1]
               v == vs[m + 1]
               l == f[m]
               new == f[m + 1]
    <2>1. m + 1 \in 1..n /\ (m + 1) - 1 = m /\ 1..(m + 1) = (1..m) \cup {m + 1} /\ m \in Nat
      BY <1>3
    <2>2. l \in Items /\ k \in Setting /\ v \in Contents /\ new = Config!With(l, k, v)
      BY <2>1, <1>1 DEF IsSetting
    <2>3. SetUpTo(f, base, ks, vs, m)
      BY <1>3
    <2>4. Distinct(l) /\ KeysOf(l) = KeysOf(base) \cup {ks[i] : i \in 1..m}
      BY <2>3 DEF SetUpTo
    <2>5. /\ Distinct(new) /\ KeysOf(new) = KeysOf(l) \cup {k} /\ Has(new, k, v)
          /\ \A x, u : x # k /\ Has(l, x, u) => Has(new, x, u)
      <3> HIDE DEF k, v, l, new
      <3> QED BY <2>2, <2>4, WithSets
    <2>6. KeysOf(new) = KeysOf(base) \cup {ks[i] : i \in 1..(m + 1)}
      BY <2>1, <2>4, <2>5
    <2>7. ASSUME NEW i \in 1..(m + 1), \A j \in 1..(m + 1) : i < j => ks[j] # ks[i]
          PROVE  Has(new, ks[i], vs[i])
      <3>1. CASE i = m + 1
        BY <2>5, <3>1
      <3>2. CASE i \in 1..m
        <4>1. i < m + 1 /\ m + 1 \in 1..(m + 1)
          BY <2>1, <3>2
        <4>2. ks[i] # k
          BY <2>7, <4>1
        <4>3. \A j \in 1..m : i < j => ks[j] # ks[i]
          BY <2>1, <2>7
        <4>4. Has(l, ks[i], vs[i])
          BY <2>3, <3>2, <4>3 DEF SetUpTo
        <4> QED BY <2>5, <4>2, <4>4
      <3> QED BY <2>1, <3>1, <3>2
    <2>8. ASSUME NEW x, NEW u, \A i \in 1..(m + 1) : ks[i] # x, Has(base, x, u)
          PROVE  Has(new, x, u)
      <3>1. k # x /\ \A i \in 1..m : ks[i] # x
        BY <2>1, <2>8
      <3>2. Has(l, x, u)
        BY <2>3, <2>8, <3>1 DEF SetUpTo
      <3> QED BY <2>5, <3>1, <3>2
    <2>9. SetUpTo(f, base, ks, vs, m + 1)
      <3> HIDE DEF k, v
      <3> QED BY <2>5, <2>6, <2>7, <2>8 DEF SetUpTo
    <2>10. m + 1 \in 0..n
      BY <2>1
    <2> QED BY <2>9, <2>10
  <1>4. \A m \in 0..n : m \in T
    <2> HIDE DEF T
    <2> QED BY Zenon, <1>2, <1>3, UpTo
  <1>5. n \in 0..n
    OBVIOUS
  <1> QED BY <1>1, <1>4, <1>5

\* The values of a list.
LEMMA ValuesAre ==
    ASSUME NEW l \in Items, Distinct(l)
    PROVE  /\ DOMAIN Config!Values(l) = KeysOf(l)
           /\ \A k, v : Has(l, k, v) => Config!Values(l)[k] = v
           /\ \A k \in KeysOf(l) : Has(l, k, Config!Values(l)[k])
  <1>1. DOMAIN Config!Values(l) = KeysOf(l)
    BY DEF Config!Values, Config!ToSet, KeysOf
  <1>2. ASSUME NEW i \in DOMAIN l
        PROVE  Config!Values(l)[l[i].key] = l[i].value
    <2> DEFINE I == {j \in 1..Len(l) : l[j].key = l[i].key}
    <2>1. I = {i}
      BY DEF Distinct, Items
    <2>2. Config!Find(l, l[i].key) = Min(I)
      BY <2>1 DEF Config!Find, Config!SelectInSeq, Config!Min, Min
    <2>3. Min({i}) = i
      <3>1. {i} \in SUBSET Nat
        BY DEF Items
      <3> QED BY <3>1, MinIsLeast
    <2>4. l[i].key \in KeysOf(l)
      BY DEF KeysOf
    <2>5. Config!Values(l)[l[i].key] = l[Config!Find(l, l[i].key)].value
      BY <2>4 DEF Config!Values, Config!ToSet, KeysOf
    <2> QED BY Zenon, <2>1, <2>2, <2>3, <2>5
  <1> QED BY <1>1, <1>2 DEF KeysOf, Has

\* The lines of the file are set on top of base.
LEMMA LoadedSteps ==
    ASSUME Config!ConfigAssumption, NEW base \in Items,
           lines \in Seq([key : Setting, text : DOMAIN MCGuessed])
    PROVE  \E f : /\ IsSetting(f, base, [i \in 1..Len(lines) |-> lines[i].key],
                               [i \in 1..Len(lines) |-> MCGuessed[lines[i].text]], Len(lines))
                  /\ Config!Loaded(base) = f[Len(lines)]
  <1> DEFINE n == Len(lines)
             ks == [i \in 1..n |-> lines[i].key]
             vs == [i \in 1..n |-> MCGuessed[lines[i].text]]
             F == CHOOSE f : f = [s \in SUBSET (1..n) |->
                    IF s = {} THEN base
                    ELSE Config!With(f[s \ {Max(s)}], lines[Max(s)].key, MCGuessed[lines[Max(s)].text])]
  <1>1. n \in Nat /\ DOMAIN lines = 1..n
    OBVIOUS
  <1>2. ks \in [1..n -> Setting] /\ vs \in [1..n -> Contents]
    <2>1. \A i \in 1..n : lines[i].key \in Setting /\ lines[i].text \in DOMAIN MCGuessed
      <3> DEFINE L == [key : Setting, text : DOMAIN MCGuessed]
      <3>1. \A g \in L : g.key \in Setting /\ g.text \in DOMAIN MCGuessed
        OBVIOUS
      <3>2. lines \in Seq(L)
        OBVIOUS
      <3> HIDE DEF L
      <3>3. \A i \in 1..n : lines[i] \in L
        BY <3>2
      <3> QED BY <3>1, <3>3
    <2>2. MCGuessed \in [DOMAIN MCGuessed -> Contents]
      BY DEF Config!ConfigAssumption, Contents
    <2> QED BY <2>1, <2>2
  <1>3. ASSUME NEW g, NEW s \in SUBSET (1..n)
        PROVE  (IF s = {} THEN base
                ELSE Config!With(g[s \ {Max(s)}], lines[Max(s)].key, MCGuessed[lines[Max(s)].text]))
             = (IF s = {} THEN base ELSE Config!With(g[s \ {Max(s)}], ks[Max(s)], vs[Max(s)]))
    <2>1. CASE s # {}
      <3>1. Max(s) \in 1..n
        BY Zenon, <1>1, <2>1, MaxIsGreatest
      <3> QED BY <3>1
    <2> QED BY <2>1
  <1>4. PICK G : IsSettingFold(G, base, ks, vs, n)
    <2> HIDE DEF n, ks, vs
    <2> QED BY Zenon, <1>1, <1>2, SettingFoldExists
  <1>5. G = [s \in SUBSET (1..n) |->
               IF s = {} THEN base
               ELSE Config!With(G[s \ {Max(s)}], lines[Max(s)].key, MCGuessed[lines[Max(s)].text])]
    <2> HIDE DEF n, ks, vs
    <2> QED BY Zenon, <1>3, <1>4 DEF IsSettingFold
  <1>6. F = [s \in SUBSET (1..n) |->
               IF s = {} THEN base
               ELSE Config!With(F[s \ {Max(s)}], lines[Max(s)].key, MCGuessed[lines[Max(s)].text])]
    BY Zenon, <1>5
  <1>7. Config!Loaded(base) = F[1..n]
    BY <1>1 DEF Config!Loaded, Config!FoldLeft, Config!MapThenFoldSet, Config!Max, Max
  <1> HIDE DEF F
  <1>8. IsSettingFold(F, base, ks, vs, n)
    <2> HIDE DEF n, ks, vs
    <2> QED BY Zenon, <1>3, <1>6 DEF IsSettingFold
  <1>9. \E f : IsSetting(f, base, ks, vs, n) /\ F[1..n] = f[n]
    <2> HIDE DEF n, ks, vs
    <2> QED BY <1>1, <1>2, <1>8, SettingFoldSteps
  <1> QED BY Zenon, <1>7, <1>9

Initial == FoldLeft(LAMBDA l, m : Config!With(l, m.key, m.value), <<>>, MCDefaults)

\* The defaults.
LEMMA InitialSteps ==
    ASSUME Config!ConfigAssumption
    PROVE  Initial \in Items /\ Distinct(Initial)
  <1> DEFINE n == Len(MCDefaults)
             base == <<>>
             ks == [i \in 1..n |-> MCDefaults[i].key]
             vs == [i \in 1..n |-> MCDefaults[i].value]
             F == CHOOSE f : f = [s \in SUBSET (1..n) |->
                    IF s = {} THEN base
                    ELSE Config!With(f[s \ {Max(s)}], MCDefaults[Max(s)].key, MCDefaults[Max(s)].value)]
  <1>0. MCDefaults \in Items
    BY DEF Config!ConfigAssumption, Items, Item, Contents
  <1>1. n \in Nat /\ DOMAIN MCDefaults = 1..n
    BY <1>0 DEF Items
  <1>2. ks \in [1..n -> Setting] /\ vs \in [1..n -> Contents]
    <2>1. \A g \in Item : g.key \in Setting /\ g.value \in Contents
      BY DEF Item
    <2>2. \A i \in 1..n : MCDefaults[i] \in Item
      BY <1>0 DEF Items
    <2> QED BY <2>1, <2>2
  <1>3. ASSUME NEW g, NEW s \in SUBSET (1..n)
        PROVE  (IF s = {} THEN base
                ELSE Config!With(g[s \ {Max(s)}], MCDefaults[Max(s)].key, MCDefaults[Max(s)].value))
             = (IF s = {} THEN base ELSE Config!With(g[s \ {Max(s)}], ks[Max(s)], vs[Max(s)]))
    <2>1. CASE s # {}
      <3>1. Max(s) \in 1..n
        BY Zenon, <1>1, <2>1, MaxIsGreatest
      <3> QED BY <3>1
    <2> QED BY <2>1
  <1>4. base \in Items /\ Distinct(base)
    BY DEF Items, Distinct
  <1>5. PICK G : IsSettingFold(G, base, ks, vs, n)
    <2> HIDE DEF n, ks, vs, base
    <2> QED BY <1>1, <1>2, <1>4, SettingFoldExists
  <1>6. G = [s \in SUBSET (1..n) |->
               IF s = {} THEN base
               ELSE Config!With(G[s \ {Max(s)}], MCDefaults[Max(s)].key, MCDefaults[Max(s)].value)]
    <2> HIDE DEF n, ks, vs, base
    <2> QED BY Zenon, <1>3, <1>5 DEF IsSettingFold
  <1>7. F = [s \in SUBSET (1..n) |->
               IF s = {} THEN base
               ELSE Config!With(F[s \ {Max(s)}], MCDefaults[Max(s)].key, MCDefaults[Max(s)].value)]
    BY Zenon, <1>6
  <1>8. Initial = F[1..n]
    BY <1>1 DEF Initial, FoldLeft, MapThenFoldSet, Max
  <1> HIDE DEF F
  <1>9. IsSettingFold(F, base, ks, vs, n)
    <2> HIDE DEF n, ks, vs, base
    <2> QED BY Zenon, <1>3, <1>7 DEF IsSettingFold
  <1>10. PICK f : IsSetting(f, base, ks, vs, n) /\ F[1..n] = f[n]
    <2> HIDE DEF n, ks, vs, base
    <2> QED BY <1>1, <1>2, <1>4, <1>9, SettingFoldSteps
  <1>11. f[n] \in Items /\ SetUpTo(f, base, ks, vs, n)
    <2> HIDE DEF n, ks, vs, base
    <2> QED BY <1>1, <1>2, <1>4, <1>10, SettingsAreSet
  <1> HIDE DEF n, ks, vs, base
  <1> QED BY <1>8, <1>10, <1>11 DEF SetUpTo

Lasts(v) == v \in Config!Lasting

\* The list has the items that w wants, with the values of those that last.
Wants(l, w) ==
    /\ l \in Items /\ Distinct(l)
    /\ DOMAIN w = KeysOf(l)
    /\ \A k \in DOMAIN w : Lasts(w[k]) => Has(l, k, w[k])

\* The same of the lines of the file, as what they will be taken for.
LinesWant(l, w) ==
    /\ l \in Seq([key : Setting, text : DOMAIN MCGuessed])
    /\ \A i, j \in DOMAIN l : l[i].key = l[j].key => i = j
    /\ DOMAIN w = {l[i].key : i \in DOMAIN l}
    /\ \A i \in DOMAIN l : Lasts(w[l[i].key]) => MCGuessed[l[i].text] = w[l[i].key]

ConfigInv ==
    /\ Wants(settings, wanted) /\ LinesWant(lines, saved)
    /\ onFile \in BOOLEAN /\ sets \in Nat

\* Loading puts what was saved over what is wanted.
LEMMA LoadedWants ==
    ASSUME Config!ConfigAssumption, LinesWant(lines, saved), NEW base, NEW w, Wants(base, w)
    PROVE  Wants(Config!Loaded(base), Config!Over(saved, w))
  <1> DEFINE n == Len(lines)
             ks == [i \in 1..n |-> lines[i].key]
             vs == [i \in 1..n |-> MCGuessed[lines[i].text]]
             o == Config!Over(saved, w)
  <1>1. /\ n \in Nat /\ DOMAIN lines = 1..n
        /\ base \in Items /\ Distinct(base) /\ DOMAIN w = KeysOf(base)
        /\ lines \in Seq([key : Setting, text : DOMAIN MCGuessed])
        /\ DOMAIN saved = {lines[i].key : i \in DOMAIN lines}
    BY DEF Wants, LinesWant
  <1>2. ks \in [1..n -> Setting] /\ vs \in [1..n -> Contents]
    <2>1. \A i \in 1..n : lines[i].key \in Setting /\ lines[i].text \in DOMAIN MCGuessed
      <3> DEFINE L == [key : Setting, text : DOMAIN MCGuessed]
      <3>1. \A g \in L : g.key \in Setting /\ g.text \in DOMAIN MCGuessed
        OBVIOUS
      <3>2. lines \in Seq(L)
        BY <1>1
      <3> HIDE DEF L
      <3>3. \A i \in 1..n : lines[i] \in L
        BY <3>2
      <3> QED BY <3>1, <3>3
    <2>2. MCGuessed \in [DOMAIN MCGuessed -> Contents]
      BY DEF Config!ConfigAssumption, Contents
    <2> QED BY <2>1, <2>2
  <1>3. PICK f : IsSetting(f, base, ks, vs, n) /\ Config!Loaded(base) = f[n]
    BY Zenon, <1>1, LoadedSteps
  <1>4. f[n] \in Items /\ SetUpTo(f, base, ks, vs, n)
    <2> HIDE DEF n, ks, vs
    <2> QED BY Zenon, <1>1, <1>2, <1>3, SettingsAreSet
  <1> DEFINE l == f[n]
  <1>5. Distinct(l) /\ KeysOf(l) = KeysOf(base) \cup {ks[i] : i \in 1..n}
    BY <1>4 DEF SetUpTo
  <1>6. DOMAIN o = DOMAIN w \cup DOMAIN saved
        /\ (\A k \in DOMAIN saved : o[k] = saved[k])
        /\ (\A k \in DOMAIN w : k \notin DOMAIN saved => o[k] = w[k])
    BY DEF Config!Over
  <1>7. {ks[i] : i \in 1..n} = DOMAIN saved
    BY <1>1
  <1> HIDE DEF o
  <1>8. ASSUME NEW k \in DOMAIN o, Lasts(o[k])
        PROVE  Has(l, k, o[k])
    <2>1. CASE k \in DOMAIN saved
      <3>1. PICK i \in 1..n : lines[i].key = k
        BY <1>1, <2>1
      <3>2. ks[i] = k /\ vs[i] = MCGuessed[lines[i].text]
        BY <3>1
      <3>3. vs[i] = saved[k] /\ o[k] = saved[k]
        <4>1. o[k] = saved[k]
          BY <1>6, <2>1
        <4>2. MCGuessed[lines[i].text] = saved[lines[i].key]
          BY Zenon, <1>1, <1>8, <2>1, <3>1, <4>1 DEF LinesWant
        <4> QED BY <3>1, <3>2, <4>1, <4>2
      <3>4. \A j \in 1..n : i < j => ks[j] # ks[i]
        <4>1. \A j \in 1..n : lines[j].key = lines[i].key => i = j
          BY <1>1 DEF LinesWant
        <4> QED BY <4>1
      <3> HIDE DEF ks, vs
      <3>5. Has(f[n], ks[i], vs[i])
        BY <1>4, <3>4 DEF SetUpTo
      <3> QED BY <3>2, <3>3, <3>5
    <2>2. CASE k \notin DOMAIN saved
      <3>1. k \in DOMAIN w /\ o[k] = w[k]
        BY <1>6, <1>8, <2>2
      <3>2. Has(base, k, w[k])
        BY <1>8, <3>1 DEF Wants
      <3>3. \A i \in 1..n : ks[i] # k
        BY <1>7, <2>2
      <3> HIDE DEF ks, vs
      <3> QED BY <1>4, <3>1, <3>2, <3>3 DEF SetUpTo
    <2> QED BY <2>1, <2>2
  <1>9. DOMAIN o = KeysOf(l)
    BY <1>1, <1>5, <1>6, <1>7
  <1> HIDE DEF ks, vs, n
  <1>10. Wants(l, o)
    BY <1>4, <1>5, <1>8, <1>9 DEF Wants
  <1> QED BY <1>3, <1>10 DEF o

\* Values that are wanted as they are.
LEMMA ValuesWant ==
    ASSUME NEW l \in Items, Distinct(l)
    PROVE  Wants(l, Config!Values(l))
  BY ValuesAre DEF Wants

\* The defaults are set one after the other.
LEMMA ConfigInit ==
    ASSUME Config!ConfigAssumption, Config!Init
    PROVE  ConfigInv
  <1>1. settings = Initial
    BY DEF Config!Init, Initial, Config!FoldLeft, FoldLeft, Config!MapThenFoldSet, MapThenFoldSet,
           Config!Max, Max
  <1>2. wanted = Config!Values(settings) /\ lines = <<>> /\ saved = <<>> /\ onFile = FALSE /\ sets = 0
    BY Zenon DEF Config!Init
  <1>3. Wants(settings, wanted)
    BY <1>1, <1>2, InitialSteps, ValuesWant
  <1>4. LinesWant(<<>>, <<>>)
    BY DEF LinesWant
  <1> QED BY Zenon, <1>2, <1>3, <1>4 DEF ConfigInv

\* The first n items, as lines.
LEMMA SavedWant ==
    ASSUME Config!ConfigAssumption, Wants(settings, wanted), NEW n \in 0..Len(settings)
    PROVE  /\ LinesWant(Config!Written(n), Config!WantedOf(n))
           /\ DOMAIN Config!WantedOf(n) = {settings[i].key : i \in 1..n}
  <1> DEFINE line(i) == [key |-> settings[i].key, text |-> MCPrinted[settings[i].value]]
             l == [i \in 1..n |-> line(i)]
             S == {settings[i].key : i \in 1..n}
             w == Config!Restrict(wanted, S)
  <1>1. /\ settings \in Items /\ Distinct(settings) /\ n \in Nat
        /\ DOMAIN wanted = KeysOf(settings)
        /\ \A i \in 1..n : i \in DOMAIN settings /\ settings[i] \in Item
    BY DEF Wants, Items
  <1>2. MCPrinted \in [Contents -> DOMAIN MCGuessed]
    BY DEF Config!ConfigAssumption, Contents
  <1>3. \A i \in 1..n : settings[i].key \in Setting /\ settings[i].value \in Contents
    BY <1>1 DEF Item
  <1>4. \A i \in 1..n : line(i) \in [key : Setting, text : DOMAIN MCGuessed]
    BY <1>2, <1>3
  <1>5. l \in Seq([key : Setting, text : DOMAIN MCGuessed])
    <2> HIDE DEF line
    <2> QED BY <1>1, <1>4
  <1>6. DOMAIN l = 1..n /\ \A i \in 1..n : l[i].key = settings[i].key /\ l[i].text = MCPrinted[settings[i].value]
    OBVIOUS
  <1>7. DOMAIN w = S /\ \A k \in S : w[k] = wanted[k]
    BY DEF Config!Restrict
  <1> HIDE DEF l, w
  <1>8. \A i, j \in DOMAIN l : l[i].key = l[j].key => i = j
    BY <1>1, <1>6 DEF Distinct
  <1>9. DOMAIN w = {l[i].key : i \in DOMAIN l}
    BY <1>6, <1>7
  <1>10. ASSUME NEW i \in DOMAIN l, Lasts(w[l[i].key])
         PROVE  MCGuessed[l[i].text] = w[l[i].key]
    <2> DEFINE k == settings[i].key
    <2>1. i \in DOMAIN settings /\ k \in KeysOf(settings) /\ k \in S /\ l[i].key = k
          /\ l[i].text = MCPrinted[settings[i].value]
      BY <1>1, <1>6 DEF KeysOf
    <2>2. w[k] = wanted[k] /\ Has(settings, k, wanted[k])
      BY Zenon, <1>1, <1>7, <1>10, <2>1 DEF Wants
    <2>3. PICK j \in DOMAIN settings : settings[j].key = k /\ settings[j].value = wanted[k]
      BY <2>2 DEF Has
    <2>4. j = i
      BY <1>1, <2>1, <2>3 DEF Distinct
    <2>5. l[i].text = MCPrinted[w[k]]
      BY <2>1, <2>2, <2>3, <2>4
    <2> QED BY <1>10, <2>1, <2>5 DEF Lasts, Config!Lasting
  <1>11. LinesWant(l, w)
    BY <1>5, <1>8, <1>9, <1>10 DEF LinesWant
  <1>12. Config!Written(n) = l /\ Config!WantedOf(n) = w
    BY DEF l, w, Config!Written, Config!WantedOf
  <1> QED BY <1>7, <1>11, <1>12

\* The lines l with one more that was cut, and what is wanted of them then.
Cut(l, k, text) == Append(l, [key |-> k, text |-> text])
Misread(w, k, u) == Config!Over([x \in {k} |-> u], w)

\* A line that ends in its text is taken for anything, and nothing is asked of it.
LEMMA CutWants ==
    ASSUME NEW l, NEW w, LinesWant(l, w), NEW k \in Setting, k \notin DOMAIN w,
           NEW text \in DOMAIN MCGuessed, NEW u, ~Lasts(u)
    PROVE  LinesWant(Cut(l, k, text), Misread(w, k, u))
  <1> USE DEF Cut, Misread
  <1> DEFINE L == [key : Setting, text : DOMAIN MCGuessed]
             e == [key |-> k, text |-> text]
             m == Append(l, e)
             o == Config!Over([x \in {k} |-> u], w)
             n == Len(l)
  <1>1. /\ l \in Seq(L) /\ DOMAIN w = {l[i].key : i \in DOMAIN l}
        /\ \A i, j \in DOMAIN l : l[i].key = l[j].key => i = j
        /\ \A i \in DOMAIN l : Lasts(w[l[i].key]) => MCGuessed[l[i].text] = w[l[i].key]
    BY DEF LinesWant
  <1>2. e \in L /\ e.key = k
    OBVIOUS
  <1>3. DOMAIN o = {k} \cup DOMAIN w /\ o[k] = u /\ \A x \in DOMAIN w : x # k => o[x] = w[x]
    BY DEF Config!Over
  <1> HIDE DEF e, L, o
  <1>4. /\ m \in Seq(L) /\ n \in Nat /\ DOMAIN l = 1..n /\ DOMAIN m = 1..(n + 1)
        /\ m[n + 1] = e /\ \A i \in 1..n : m[i] = l[i]
    BY <1>1, <1>2
  <1> HIDE DEF m, n
  <1>5. \A i \in 1..(n + 1) : i \in 1..n \/ i = n + 1
    BY <1>4
  <1>6. \A i \in 1..n : i \in 1..(n + 1) /\ l[i].key \in DOMAIN w /\ l[i].key # k
    BY <1>1, <1>4
  <1>7. \A i, j \in DOMAIN m : m[i].key = m[j].key => i = j
    BY Zenon, <1>1, <1>2, <1>4, <1>5, <1>6
  <1>8. DOMAIN o = {m[i].key : i \in DOMAIN m}
    <2>1. n + 1 \in 1..(n + 1)
      BY <1>4
    <2>2. \A x \in DOMAIN w : \E i \in 1..n : x = l[i].key
      BY Zenon, <1>1, <1>4
    <2>3. ASSUME NEW x \in DOMAIN o
          PROVE  \E i \in 1..(n + 1) : x = m[i].key
      <3>1. CASE x = k
        BY Zenon, <1>2, <1>4, <2>1, <3>1
      <3>2. CASE x \in DOMAIN w
        <4>1. PICK i \in 1..n : x = l[i].key
          BY Zenon, <2>2, <3>2
        <4>2. i \in 1..(n + 1) /\ m[i] = l[i]
          BY Zenon, <1>4, <1>6
        <4> QED BY Zenon, <4>1, <4>2
      <3> QED BY Zenon, <1>3, <3>1, <3>2
    <2>4. \A i \in 1..(n + 1) : m[i].key \in DOMAIN o
      BY Zenon, <1>2, <1>3, <1>4, <1>5, <1>6
    <2> QED BY Zenon, <1>4, <2>3, <2>4
  <1>9. ASSUME NEW i \in DOMAIN m, Lasts(o[m[i].key])
        PROVE  MCGuessed[m[i].text] = o[m[i].key]
    <2>1. i # n + 1
      BY <1>2, <1>3, <1>4, <1>9
    <2>2. i \in 1..n /\ m[i] = l[i] /\ o[l[i].key] = w[l[i].key]
      BY <1>3, <1>4, <1>5, <1>6, <1>9, <2>1
    <2> QED BY <1>1, <1>4, <1>9, <2>2
  <1> QED BY <1>4, <1>7, <1>8, <1>9 DEF LinesWant, m, e, o, L

\* The next item is none of the first n.
LEMMA NextIsNew ==
    ASSUME Wants(settings, wanted), NEW n \in 0..Len(settings), n < Len(settings)
    PROVE  /\ settings[n + 1].key \in Setting /\ settings[n + 1].value \in Contents
           /\ settings[n + 1].key \notin {settings[i].key : i \in 1..n}
  <1>1. settings \in Seq(Item) /\ Distinct(settings)
    BY DEF Wants, Items
  <1>2. n + 1 \in DOMAIN settings /\ \A i \in 1..n : i \in DOMAIN settings /\ i # n + 1
    BY <1>1
  <1>3. settings[n + 1] \in Item
    BY <1>1, <1>2
  <1>4. \A g \in Item : g.key \in Setting /\ g.value \in Contents
    BY DEF Item
  <1>5. \A i \in 1..n : settings[i].key # settings[n + 1].key
    BY Zenon, <1>1, <1>2 DEF Distinct
  <1> QED BY <1>3, <1>4, <1>5

\* Set, save and load keep what was asked for (config.c:168-255, 294-434).
LEMMA ConfigStep ==
    ASSUME Config!ConfigAssumption, ConfigInv, [Config!Next]_Config!vars
    PROVE  ConfigInv'
  <1>1. Wants(settings, wanted) /\ LinesWant(lines, saved) /\ onFile \in BOOLEAN /\ sets \in Nat
    BY DEF ConfigInv
  <1>2. ASSUME Wants(settings', wanted'), LinesWant(lines', saved'), onFile' \in BOOLEAN, sets' \in Nat
        PROVE  ConfigInv'
    BY <1>2 DEF ConfigInv, Wants, LinesWant, Distinct, KeysOf, Has
  <1>3. CASE Config!Save
    <2> DEFINE U == <<"unknown", "">>
               cut(n, text) == Append(Config!Written(n), [key |-> settings[n + 1].key, text |-> text])
               but(n) == Config!Over([x \in {settings[n + 1].key} |-> U], Config!WantedOf(n))
    <2>1. onFile' = TRUE /\ UNCHANGED <<settings, sets, wanted>>
      BY Zenon, <1>3 DEF Config!Save
    <2>2. PICK n \in 0..Len(settings) :
             \/ lines' = Config!Written(n) /\ saved' = Config!WantedOf(n)
             \/ /\ n < Len(settings)
                /\ \E text \in MCCuts[MCPrinted[settings[n + 1].value]] : lines' = cut(n, text)
                /\ saved' = but(n)
      BY Zenon, <1>3 DEF Config!Save
    <2>3. LinesWant(Config!Written(n), Config!WantedOf(n))
          /\ DOMAIN Config!WantedOf(n) = {settings[i].key : i \in 1..n}
      BY Zenon, <1>1, SavedWant
    <2>4. CASE lines' = Config!Written(n) /\ saved' = Config!WantedOf(n)
      BY <1>1, <1>2, <2>1, <2>3, <2>4
    <2>5. ASSUME n < Len(settings), saved' = but(n),
                 NEW text \in MCCuts[MCPrinted[settings[n + 1].value]], lines' = cut(n, text)
          PROVE  ConfigInv'
      <3>1. /\ settings[n + 1].key \in Setting /\ settings[n + 1].value \in Contents
            /\ settings[n + 1].key \notin DOMAIN Config!WantedOf(n)
        BY Zenon, <1>1, <2>3, <2>5, NextIsNew
      <3>2. text \in DOMAIN MCGuessed
        <4>1. /\ MCPrinted \in [Contents -> DOMAIN MCGuessed]
              /\ MCCuts \in [DOMAIN MCGuessed -> SUBSET DOMAIN MCGuessed]
          BY DEF Config!ConfigAssumption, Contents
        <4> QED BY <2>5, <3>1, <4>1
      <3>3. ~Lasts(U)
        BY DEF Lasts, Config!Lasting, Config!ConfigAssumption
      <3> HIDE DEF U
      <3>4. LinesWant(cut(n, text), but(n))
        <4> DEFINE l == Config!Written(n)
                   w == Config!WantedOf(n)
                   y == settings[n + 1].key
        <4>1. /\ LinesWant(l, w) /\ y \in Setting /\ y \notin DOMAIN w
              /\ text \in DOMAIN MCGuessed /\ ~Lasts(U)
          BY Zenon, <2>3, <3>1, <3>2, <3>3
        <4> HIDE DEF l, w, y
        <4>2. LinesWant(Cut(l, y, text), Misread(w, y, U))
          BY Zenon, <4>1, CutWants
        <4> QED BY Zenon, <4>2 DEF l, w, y, Cut, Misread
      <3>5. LinesWant(lines', saved')
        BY Zenon, <2>5, <3>4
      <3> QED BY <1>1, <1>2, <2>1, <3>5
    <2> QED BY Zenon, <2>2, <2>4, <2>5
  <1>4. CASE Config!Load
    <2>1. /\ settings' = Config!Loaded(settings) /\ wanted' = Config!Over(saved, wanted)
          /\ UNCHANGED <<lines, onFile, sets, saved>>
      BY <1>4 DEF Config!Load
    <2>2. Wants(settings', wanted')
      BY <1>1, <2>1, LoadedWants
    <2> QED BY <1>1, <1>2, <2>1, <2>2
  <1>5. CASE Config!Restart
    <2>1. /\ settings' = Config!Loaded(Initial) /\ wanted' = Config!Over(saved, Config!Values(Initial))
          /\ UNCHANGED <<lines, onFile, sets, saved>>
      BY <1>5 DEF Config!Restart, Initial, Config!FoldLeft, FoldLeft, Config!MapThenFoldSet,
                  MapThenFoldSet, Config!Max, Max
    <2>2. Wants(Initial, Config!Values(Initial))
      BY InitialSteps, ValuesWant
    <2>3. Wants(settings', wanted')
      BY <1>1, <2>1, <2>2, LoadedWants
    <2> QED BY <1>1, <1>2, <2>1, <2>3
  <1>6. CASE \E k \in Setting, v \in Contents : Config!Set(k, v)
    <2>1. PICK k \in Setting, v \in Contents : Config!Set(k, v)
      BY <1>6
    <2> DEFINE w == Config!Over([x \in {k} |-> v], wanted)
               l == Config!With(settings, k, v)
    <2>2. settings' = l /\ wanted' = w /\ sets' = sets + 1 /\ UNCHANGED <<lines, onFile, saved>>
      BY <2>1 DEF Config!Set
    <2>3. settings \in Items /\ Distinct(settings) /\ DOMAIN wanted = KeysOf(settings)
      BY <1>1 DEF Wants
    <2>4. /\ l \in Items /\ Distinct(l) /\ KeysOf(l) = KeysOf(settings) \cup {k} /\ Has(l, k, v)
          /\ \A x, u : x # k /\ Has(settings, x, u) => Has(l, x, u)
      <3> HIDE DEF l
      <3>1. l = Config!With(settings, k, v)
        BY DEF l
      <3> QED BY <2>3, <3>1, WithSets
    <2>5. DOMAIN w = DOMAIN wanted \cup {k} /\ w[k] = v /\ \A x \in DOMAIN wanted : x # k => w[x] = wanted[x]
      BY DEF Config!Over
    <2> HIDE DEF w, l
    <2>6. ASSUME NEW x \in DOMAIN w, Lasts(w[x])
          PROVE  Has(l, x, w[x])
      <3>1. CASE x = k
        BY <2>4, <2>5, <3>1
      <3>2. CASE x # k
        <4>1. x \in DOMAIN wanted /\ w[x] = wanted[x]
          BY <2>5, <3>2
        <4>2. Has(settings, x, wanted[x])
          BY <1>1, <2>6, <4>1 DEF Wants
        <4> QED BY <2>4, <3>2, <4>1, <4>2
      <3> QED BY <3>1, <3>2
    <2>7. Wants(l, w)
      BY <2>3, <2>4, <2>5, <2>6 DEF Wants
    <2> QED BY <1>1, <1>2, <2>2, <2>7
  <1>7. CASE UNCHANGED Config!vars
    BY <1>1, <1>2, <1>7 DEF Config!vars
  <1> QED BY <1>3, <1>4, <1>5, <1>6, <1>7 DEF Config!Next, Contents

\* From the invariant: types and values of the settings are those asked for.
LEMMA ConfigHolds ==
    ASSUME ConfigInv
    PROVE  Config!SettingsKept /\ Config!TypeOK
  <1>1. /\ settings \in Items /\ Distinct(settings) /\ DOMAIN wanted = KeysOf(settings)
        /\ \A k \in DOMAIN wanted : Lasts(wanted[k]) => Has(settings, k, wanted[k])
    BY DEF ConfigInv, Wants
  <1>2. Config!SettingsKept
    BY <1>1, ValuesAre DEF Config!SettingsKept, Distinct, Lasts
  <1>3. KeysOf(settings) \subseteq Setting
    <2>1. \A i \in DOMAIN settings : settings[i] \in Item
      BY <1>1 DEF Items
    <2> QED BY <2>1 DEF KeysOf, Item
  <1>4. DOMAIN saved \subseteq Setting /\ lines \in Seq([key : Setting, text : DOMAIN MCGuessed])
    <2> DEFINE L == [key : Setting, text : DOMAIN MCGuessed]
    <2>1. lines \in Seq(L) /\ DOMAIN saved = {lines[i].key : i \in DOMAIN lines}
      BY DEF ConfigInv, LinesWant
    <2>2. \A g \in L : g.key \in Setting
      OBVIOUS
    <2> HIDE DEF L
    <2>3. \A i \in DOMAIN lines : lines[i] \in L
      BY <2>1
    <2>4. DOMAIN saved \subseteq Setting
      BY <2>1, <2>2, <2>3
    <2> QED BY <2>1, <2>4 DEF L
  <1>5. Config!TypeOK
    BY <1>1, <1>3, <1>4 DEF ConfigInv, Config!TypeOK, Items, Item, Contents
  <1> QED BY <1>2, <1>5

-----------------------------------------------------------------------------
(* The parts as they are run: each is examined alone.                         *)

\* As long as the tree is not examined, nothing is in it.
TreeIdle == TreeTyped /\ TreeSound

RecordsPart ==
    /\ IF subject = "tree" THEN TreeInv ELSE TreeIdle
    /\ subject = "audit" => AuditInv
    /\ subject = "lines" => LinesInv
    /\ subject = "backup" => BackupInv
    /\ subject = "config" => ConfigInv

\* All parts hold at first.
LEMMA RecordsInit ==
    ASSUME FilesInit
    PROVE  RecordsPart
  <1>1. Init /\ Audit!Init /\ LogLines!Init /\ Backup!Init /\ Config!Init
    BY DEF FilesInit
  <1>2. TreeInv /\ TreeIdle
    BY <1>1, LsmAssumption, TreeInit DEF TreeIdle
  <1>3. AuditInv /\ LinesInv /\ BackupInv /\ ConfigInv
    BY <1>1, FilesAssumption, AuditInit, LinesInit, BackupInit, ConfigInit
  <1> QED BY <1>2, <1>3 DEF RecordsPart

\* A step of one part leaves the others alone.
LEMMA RecordsStep ==
    ASSUME RecordsPart, [FilesNext]_filesVars
    PROVE  RecordsPart'
  <1>1. UNCHANGED subject
    BY DEF FilesNext, filesVars
  <1>2. CASE subject = "tree"
    <2>1. [Next]_vars
      BY <1>2 DEF FilesNext, filesVars, vars, dataVars, treeVars, clockVars
    <2>2. TreeInv'
      BY <1>2, <2>1, LsmAssumption, TreeStep DEF RecordsPart
    <2> QED BY <1>1, <1>2, <2>2 DEF RecordsPart
  <1>3. CASE subject # "tree"
    <2>1. UNCHANGED treeVars
      BY <1>3 DEF FilesNext, filesVars, dataVars
    <2>2. TreeIdle'
      BY Zenon, <1>3, <2>1 DEF RecordsPart, TreeIdle, treeVars, TreeTyped, TreeSound, FileHas
    <2>3. subject = "audit" => AuditInv'
      <3>1. subject = "audit" => [Audit!Next]_Audit!vars
        BY DEF FilesNext, filesVars, recordVars, auditVars, clockVars, Audit!vars, Audit!auditVars
      <3> QED BY <3>1, FilesAssumption, AuditStep DEF RecordsPart
    <2>4. subject = "lines" => LinesInv'
      <3>1. subject = "lines" => [LogLines!Next]_LogLines!vars
        BY DEF FilesNext, filesVars, recordVars, linesVars, clockVars, LogLines!vars, LogLines!logFileVars
      <3> QED BY <3>1, FilesAssumption, LinesStep DEF RecordsPart
    <2>5. subject = "backup" => BackupInv'
      <3>1. subject = "backup" => [Backup!Next]_Backup!vars
        BY DEF FilesNext, filesVars, recordVars, backupVars, clockVars, Backup!vars, Backup!backupVars
      <3> QED BY <3>1, FilesAssumption, BackupStep DEF RecordsPart
    <2>6. subject = "config" => ConfigInv'
      <3>1. subject = "config" => [Config!Next]_Config!vars
        BY DEF FilesNext, filesVars, recordVars, configVars, Config!vars
      <3> QED BY <3>1, FilesAssumption, ConfigStep DEF RecordsPart
    <2> QED BY <1>1, <1>3, <2>2, <2>3, <2>4, <2>5, <2>6 DEF RecordsPart
  <1> QED BY <1>2, <1>3

\* The invariants of the five parts hold in every reachable state.
THEOREM RecordsPartHolds == FilesSpec => []RecordsPart
  <1>1. FilesInit => RecordsPart
    BY RecordsInit
  <1>2. RecordsPart /\ [FilesNext]_filesVars => RecordsPart'
    BY RecordsStep
  <1> QED BY <1>1, <1>2, PTL DEF FilesSpec, filesVars

\* Records of the audit log and lines of the log that were accepted are in the
\* files, in order, and settings are what they were set to, for any limits, times
\* and ends of a save on a full device, one inside a line as well
\* (audit.c:198-237, 330-364, logging.c:49-155, config.c:168-255, 294-434).
THEOREM RecordsStay == FilesSpec => []RecordsKept
  <1>1. RecordsPart => RecordsKept
    BY LinesHold, ConfigHolds DEF RecordsPart, RecordsKept, AuditInv
  <1> QED BY <1>1, RecordsPartHolds, PTL

\* The entries of the LSM tree stay, in order, and a value found was accepted for
\* its key, for any sizes of entries, of a memtable and of a read, unless the bytes
\* read of its file end inside an entry (lsm_tree.c:51-172, 224-323).
THEOREM EntriesStay == FilesSpec => []EntriesKept
  <1>1. RecordsPart => EntriesKept
    <2>1. TreeInv => TreeTyped /\ (proc = "ok" => TreeSound)
      BY DEF TreeInv, TypeOK, TreeTyped
    <2>2. TreeInv => EntriesKept
      BY <2>1, LsmAssumption, TreeHolds
    <2>3. TreeIdle => EntriesKept
      BY LsmAssumption, TreeHolds DEF TreeIdle
    <2> QED BY <2>2, <2>3 DEF RecordsPart
  <1> QED BY <1>1, RecordsPartHolds, PTL

\* A backup found at the start stays listed, whatever is performed, deleted or
\* fails, and verifies unless it is empty (backup.c:148-205, 381-460).
THEOREM BackupsStay == FilesSpec => []FilesStayListed
  <1>1. RecordsPart => FilesStayListed
    BY BackupHolds DEF RecordsPart, FilesStayListed
  <1> QED BY <1>1, RecordsPartHolds, PTL

\* The state of each part is of its type, for any sizes, numbers and times.
THEOREM FilesTypes == FilesSpec => []FilesTypeOK
  <1>1. RecordsPart /\ BinlogPart /\ CataloguePart => FilesTypeOK
    BY ConfigHolds, CatalogueHolds
    DEF RecordsPart, TreeInv, AuditInv, LinesInv, BackupInv, BinlogPart, BinlogInv,
        CataloguePart, FilesTypeOK
  <1> QED BY <1>1, RecordsPartHolds, BinlogPartHolds, CataloguePartHolds, PTL
=============================================================================
