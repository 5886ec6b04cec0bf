------------------------------- MODULE Binlog -------------------------------
(****************************************************************************)
(* The binary log of a replication manager (replication/replication.c):     *)
(* start and stop, writing an event, rotation and pruning of the files.     *)
(* The mutex of the manager is never taken; calls come one after another.   *)
(*                                                                          *)
(* A file is known by the second in its name and is a sequence of event     *)
(* ids; an event has size 1.  A file that is removed while it is open takes *)
(* what is still written to it along.  binlog_enabled and sync_binlog are   *)
(* set, the second against its default (replication.c:411), and the disk    *)
(* takes what is flushed.                                                   *)
(****************************************************************************)
EXTENDS Integers, Sequences, SequencesExt

CONSTANTS
    Roles,      \* the roles the configuration may give
    NoFile,     \* NULL, no current binlog
    MaxSize,    \* max_binlog_size, in events
    MaxFiles,   \* max_binlog_files
    MaxEvents,  \* bound: events of a run
    MaxTime     \* bound: seconds a run lasts

BinlogAssumption ==
    /\ Roles \subseteq {"master", "slave", "both"}
    /\ MaxSize \in Nat \ {0} /\ MaxFiles \in Nat /\ MaxEvents \in Nat /\ MaxTime \in Nat

File == [name : 0..MaxTime, open : BOOLEAN, named : BOOLEAN, size : Nat,
         first : Nat, last : Nat]

VARIABLES
    role,      \* rm->role
    running,   \* rm->running
    state,     \* rm->state
    cur,       \* bm->current_binlog
    binlogs,   \* bm->binlogs
    unlisted,  \* bm->binlogs is NULL, but binlog_count still counts the files it had
    nextId,    \* bm->next_event_id
    now,       \* time(NULL)
    proc,      \* what became of the manager
    disk,      \* disk[t]: the file of second t
    lost,      \* the open file was removed
    acked,     \* history: the ids of the events reported as written, in order
    shared     \* history: a second file name was given within one second

vars == <<role, running, state, cur, binlogs, unlisted, nextId, now, proc, disk, lost, acked, shared>>

TypeOK ==
    /\ role \in Roles
    /\ running \in BOOLEAN
    /\ state \in {"INIT", "CONNECTING", "RUNNING", "ERROR", "STOPPED"}
    /\ cur \in File \cup {NoFile}
    /\ binlogs \in Seq(File)
    /\ unlisted \in BOOLEAN
    /\ nextId \in 1..(MaxEvents + 1)
    /\ now \in 0..MaxTime
    /\ proc \in {"ok", "ended", "aborted", "undefined"}
    /\ disk \in [0..MaxTime -> Seq(1..MaxEvents)]
    /\ lost \in BOOLEAN
    /\ acked \in Seq(1..MaxEvents)
    /\ shared \in BOOLEAN

Init ==
    /\ role \in Roles
    /\ running = FALSE /\ state = "INIT"
    /\ cur = NoFile /\ binlogs = <<>> /\ unlisted = FALSE /\ nextId = 1
    /\ now = 0 /\ proc = "ok"
    /\ disk = [t \in 0..MaxTime |-> <<>>]
    /\ lost = FALSE /\ acked = <<>> /\ shared = FALSE

Opened(size) ==
    [name |-> now, open |-> TRUE, named |-> TRUE, size |-> size,
     first |-> nextId, last |-> 0]

Names == {binlogs[i].name : i \in DOMAIN binlogs} \cup (IF cur = NoFile THEN {} ELSE {cur.name})

\* The file of this second was opened before.
Named == now \in Names \/ disk[now] # <<>>

\* binlog_manager_open; a file that is open already is forgotten.
Open ==
    \/ /\ cur' = Opened(Len(disk[now]))
       /\ lost' = FALSE
       /\ shared' = (shared \/ Named)
       /\ state' = "RUNNING"
    \/ /\ cur' = NoFile
       /\ state' = "ERROR"
       /\ UNCHANGED <<lost, shared>>

\* The flag is set before anything that can fail.
Start ==
    /\ proc = "ok"
    /\ ~running
    /\ running' = TRUE
    /\ IF role = "slave"
         THEN state' \in {"RUNNING", "ERROR"} /\ UNCHANGED <<cur, lost, shared>>
         ELSE Open \/ (role = "both" /\ state' = "ERROR"     \* connection
                       /\ cur' = Opened(Len(disk[now])) /\ lost' = FALSE
                       /\ shared' = (shared \/ Named))
    /\ UNCHANGED <<role, binlogs, unlisted, nextId, now, proc, disk, acked>>

Stop ==
    /\ proc = "ok"
    /\ running
    /\ running' = FALSE
    /\ state' = "STOPPED"
    /\ UNCHANGED <<role, cur, binlogs, unlisted, nextId, now, proc, disk, lost, acked, shared>>

\* Slip: the counter is set to follow the last event that was written before.
TakeIdLate ==
    /\ proc = "ok"
    /\ running /\ state = "RUNNING"
    /\ nextId <= MaxEvents
    /\ nextId' = IF acked = <<>> THEN 1 ELSE Last(acked) + 1
    /\ UNCHANGED <<role, running, state, now, proc>>

\* Slip: the manager and the writer both advance the counter.
TakeIdTwice ==
    /\ proc = "ok"
    /\ running /\ state = "RUNNING"
    /\ nextId <= MaxEvents
    /\ nextId' = nextId + 2
    /\ UNCHANGED <<role, running, state, now, proc>>

\* The id is used up whatever becomes of the event.
TakeId ==
    /\ proc = "ok"
    /\ running /\ state = "RUNNING"
    /\ nextId <= MaxEvents
    /\ nextId' = nextId + 1
    /\ UNCHANGED <<role, running, state, now, proc>>

CanWrite == cur # NoFile /\ cur.open
Full == CanWrite /\ cur.size >= MaxSize

WriteFails ==
    /\ TakeId
    /\ ~Full
    /\ UNCHANGED <<cur, binlogs, unlisted, disk, lost, acked, shared>>

\* Slip: last_event_id is not brought up to date.
RecordUnindexed(f, content, gone) ==
    /\ cur' = [f EXCEPT !.size = @ + 1]
    /\ disk' = IF gone THEN content ELSE [content EXCEPT ![f.name] = Append(@, nextId)]
    /\ acked' = Append(acked, nextId)

\* The event goes to file f, of which on disk `content' is there.
Record(f, content, gone) ==
    /\ cur' = [f EXCEPT !.size = @ + 1, !.last = nextId]
    /\ disk' = IF gone THEN content ELSE [content EXCEPT ![f.name] = Append(@, nextId)]
    /\ acked' = Append(acked, nextId)

Write ==
    /\ TakeId
    /\ CanWrite /\ ~Full
    /\ Record(cur, disk, lost)
    /\ UNCHANGED <<binlogs, unlisted, lost, shared>>

\* The list of files after the current one was added, without the oldest if
\* there are too many.
Listed == Append(binlogs, [cur EXCEPT !.open = FALSE])
Prunes == Len(Listed) > MaxFiles
Pruned == IF Prunes THEN Tail(Listed) ELSE Listed

\* Slip: the file that was just closed is removed.
RemainsWithoutNewest ==
    IF Prunes THEN [disk EXCEPT ![Listed[Len(Listed)].name] = <<>>] ELSE disk

Remains == IF Prunes THEN [disk EXCEPT ![Listed[1].name] = <<>>] ELSE disk

\* The new file's first_event_id is taken after the event took its id.
RotateAndWrite ==
    /\ TakeId
    /\ Full /\ ~unlisted
    /\ binlogs' = Pruned
    /\ UNCHANGED unlisted
    /\ shared' = (shared \/ Named)
    /\ lost' = (Prunes /\ Listed[1].name = now)
    /\ LET f == [Opened(0) EXCEPT !.first = nextId + 1]
       IN  \/ Record(f, Remains, lost')
           \/ /\ cur' = f
              /\ disk' = Remains
              /\ UNCHANGED acked

\* The old file is closed, and stays so: no memory for the list, which is lost,
\* or the new file does not open and its name is freed.
RotateFails ==
    /\ TakeId
    /\ Full
    /\ \/ /\ binlogs' = <<>>
          /\ unlisted' = (unlisted \/ binlogs # <<>>)
          /\ cur' = [cur EXCEPT !.open = FALSE]
       \/ /\ ~unlisted
          /\ binlogs' = Listed
          /\ cur' = [cur EXCEPT !.open = FALSE, !.named = FALSE]
          /\ UNCHANGED unlisted
    /\ UNCHANGED <<disk, lost, acked, shared>>

\* The list gets memory again, without the files it had: the names in it are
\* garbage, which is removed and freed (replication.c:526, 544-550).
RotateUnlisted ==
    /\ proc = "ok"
    /\ running /\ state = "RUNNING"
    /\ nextId <= MaxEvents
    /\ Full /\ unlisted
    /\ proc' = "undefined"
    /\ UNCHANGED <<role, running, state, cur, binlogs, unlisted, nextId, now, disk, lost,
                   acked, shared>>

\* replication_manager_destroy, which stops a running manager first.  The name of
\* the current file is freed a second time if a rotation has freed it.
Destroy ==
    /\ proc = "ok"
    /\ proc' = IF cur # NoFile /\ ~cur.named THEN "aborted" ELSE "ended"
    /\ running' = FALSE
    /\ state' = IF running THEN "STOPPED" ELSE state
    /\ UNCHANGED <<role, cur, binlogs, unlisted, nextId, now, disk, lost, acked, shared>>

Tick ==
    /\ proc = "ok"
    /\ now < MaxTime
    /\ now' = now + 1
    /\ UNCHANGED <<role, running, state, cur, binlogs, unlisted, nextId, proc, disk, lost,
                   acked, shared>>

Next ==
    \/ Start \/ Stop \/ Tick \/ Destroy
    \/ Write \/ WriteFails \/ RotateAndWrite \/ RotateFails \/ RotateUnlisted

Spec == Init /\ [][Next]_vars

-----------------------------------------------------------------------------
(* Properties.                                                              *)

\* What is on disk, file after file.
OnDisk == FlattenSeq([t \in 1..(MaxTime + 1) |-> disk[t - 1]])

\* The files, read in the order of their names, give the events in the order
\* they were written, none twice, through rotations, restarts and failed writes.
EventsInOrder == \A i, j \in DOMAIN OnDisk : i < j => OnDisk[i] < OnDisk[j]

\* Pruning takes the oldest events only: while each file has its own name, an
\* event that was reported as written and is on disk no more is older than every
\* event of the listed files and of the current one (replication.c:544-550).
PruningKeepsNewest ==
    ~shared => \A n \in Names : \A i \in DOMAIN disk[n], j \in DOMAIN acked :
                  disk[n][i] < acked[j] => acked[j] \in Range(OnDisk)

\* Every listed file holds events from first_event_id - 1 to last_event_id
\* only: a reader that looks up an id has to allow for the event that caused
\* the rotation, whose id is taken before the file's first_event_id is set
\* (replication.c:299, 541).
IndexCoversFile ==
    ~shared => \A i \in DOMAIN binlogs : \A j \in DOMAIN disk[binlogs[i].name] :
                  /\ binlogs[i].first - 1 <= disk[binlogs[i].name][j]
                  /\ disk[binlogs[i].name][j] <= binlogs[i].last

=============================================================================
