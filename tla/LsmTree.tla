------------------------------ MODULE LsmTree ------------------------------
(****************************************************************************)
(* index/lsm_tree.c: an active memtable, a full one waiting to be flushed,  *)
(* and the SSTable files of level 0 (lsm_tree_compact does nothing, so the  *)
(* other levels stay empty).  A memtable is a sequence of entries, oldest   *)
(* first.  A file, known by the second in its name, is a memtable that was  *)
(* written and how many bytes of it the device took, for fwrite is not      *)
(* checked.  A value stands for the texts of one size, its key's included.  *)
(*                                                                          *)
(* A NULL memtable, or a list of files that a failed realloc has lost,      *)
(* makes what follows undefined and ends the run.                           *)
(****************************************************************************)
EXTENDS Integers, Sequences, SequencesExt

CONSTANTS
    Key, Value,
    Tombstone,   \* the empty value that lsm_tree_delete inserts
    Garbage,     \* what lies beyond the bytes that were read
    Size,        \* the bytes of an entry with each value, its two lengths included
    MemCap,      \* bytes of a memtable: 10 MB
    ReadLimit,   \* bytes of a file that a search reads: 1 MB
    MaxEntries,  \* bound: entries accepted in a run
    MaxListed,   \* bound: files listed in a run
    MaxTime      \* bound: seconds a run lasts

Text == Value \cup {Tombstone}

ASSUME LsmAssumption ==
    /\ Tombstone \notin Value /\ Garbage \notin Text
    /\ Size \in [Text -> Nat \ {0}]
    /\ MemCap \in Nat \ {0} /\ ReadLimit \in Nat
    /\ MaxEntries \in Nat /\ MaxListed \in Nat /\ MaxTime \in Nat

Entry == [key : Key, val : Text]

VARIABLES
    active,     \* tree->active_memtable
    immutable,  \* tree->immutable_memtable: <<it>>, or <<>> when NULL
    listed,     \* tree->sstables[0]: the names of the files
    file,       \* the files in base_dir
    now,        \* time(NULL)
    proc,       \* how the process is doing
    log,        \* history: the entries accepted
    flushed,    \* history: the memtables whose files were listed
    over        \* history: the files that were written over while listed

vars == <<active, immutable, listed, file, now, proc, log, flushed, over>>

TypeOK ==
    /\ active \in Seq(Entry)
    /\ immutable \in Seq(Seq(Entry)) /\ Len(immutable) <= 1
    /\ listed \in Seq(0..MaxTime)
    /\ file \in [0..MaxTime -> [entries : Seq(Entry), bytes : Nat]]
    /\ now \in 0..MaxTime
    /\ proc \in {"ok", "undefined"}
    /\ log \in Seq(Entry)
    /\ flushed \in Seq(Seq(Entry)) /\ Len(flushed) = Len(listed)
    /\ over \subseteq 0..MaxTime

Init ==
    /\ active = <<>> /\ immutable = <<>> /\ listed = <<>>
    /\ file = [t \in 0..MaxTime |-> [entries |-> <<>>, bytes |-> 0]]
    /\ now = 0 /\ proc = "ok" /\ log = <<>> /\ flushed = <<>> /\ over = {}

\* memtable->size
Bytes(entries) == FoldSeq(LAMBDA e, n : n + Size[e.val], 0, entries)

Fits(entries, v) == Bytes(entries) + Size[v] <= MemCap

\* Slip: the memtable is destroyed whether or not its file was written.
FlushOfDrops(full) ==
    /\ immutable' = <<>>
    /\ UNCHANGED <<listed, file, proc, flushed, over>>

\* lsm_tree_flush of a memtable: the file may not open, and the device may not
\* take the whole of it; once it is closed the metadata, and then the list of
\* files, may get no memory.
FlushOf(full) ==
    \/ /\ immutable' = <<full>>
       /\ UNCHANGED <<listed, file, proc, flushed, over>>
    \/ /\ \E n \in 0..Bytes(full) : file' = [file EXCEPT ![now] = [entries |-> full, bytes |-> n]]
       /\ over' = over \cup ({now} \cap ToSet(listed))
       /\ \/ /\ immutable' = <<>>
             /\ listed' = Append(listed, now)
             /\ flushed' = Append(flushed, full)
             /\ UNCHANGED proc
          \/ immutable' = <<full>> /\ UNCHANGED <<listed, proc, flushed>>
          \/ /\ listed # <<>>
             /\ immutable' = <<full>>
             /\ proc' = "undefined"
             /\ UNCHANGED <<listed, flushed>>

Flush ==
    /\ proc = "ok" /\ Len(listed) < MaxListed
    /\ immutable # <<>>
    /\ FlushOf(immutable[1])
    /\ UNCHANGED <<active, now, log>>

\* lsm_tree_insert: an entry that does not fit turns the active memtable out, full
\* or not, unless another one waits, and is then tried once more, whether or not
\* the flush succeeded: one larger than a memtable is refused all the same.
Insert(k, v) ==
    LET e == [key |-> k, val |-> v]
    IN  /\ proc = "ok"
        /\ Len(log) < MaxEntries
        /\ \/ /\ Fits(active, v)
              /\ active' = Append(active, e)
              /\ log' = Append(log, e)
              /\ UNCHANGED <<immutable, listed, file, proc, flushed, over>>
           \/ /\ ~Fits(active, v) /\ immutable = <<>> /\ Len(listed) < MaxListed
              /\ FlushOf(active)
              /\ \/ Fits(<<>>, v) /\ active' = <<e>> /\ log' = Append(log, e)
                 \/ ~Fits(<<>>, v) /\ active' = <<>> /\ UNCHANGED log
           \/ /\ ~Fits(active, v) /\ immutable = <<>>   \* no new memtable
              /\ immutable' = <<active>>
              /\ active' = <<>>
              /\ proc' = "undefined"
              /\ UNCHANGED <<listed, file, log, flushed, over>>
        /\ UNCHANGED now

Delete(k) == Insert(k, Tombstone)

Tick ==
    /\ proc = "ok"
    /\ now < MaxTime
    /\ now' = now + 1
    /\ UNCHANGED <<active, immutable, listed, file, proc, log, flushed, over>>

Next ==
    \/ \E k \in Key, v \in Value : Insert(k, v)
    \/ \E k \in Key : Delete(k)
    \/ Flush
    \/ Tick

Spec == Init /\ [][Next]_vars

-----------------------------------------------------------------------------
(* Reading.  A place is a sequence of entries and the bytes a search has of *)
(* them.                                                                    *)

InMemory(entries) == [entries |-> entries, bytes |-> Bytes(entries)]

\* sstable_get reads so much of a file.
OnFile(f) ==
    [entries |-> file[f].entries,
     bytes   |-> IF file[f].bytes < ReadLimit THEN file[f].bytes ELSE ReadLimit]

\* The places in the order of lsm_tree_get.
Places ==
    <<InMemory(active)>>
    \o [i \in DOMAIN immutable |-> InMemory(immutable[i])]
    \o [i \in DOMAIN listed |-> OnFile(listed[i])]

\* Where the i-th entry ends.
End(place, i) == Bytes(SubSeq(place.entries, 1, i))

\* The bytes end inside an entry.  The search takes it for a whole one: its lengths,
\* its key and its value are then what lies beyond the bytes, and it may answer
\* anything, or the process ends.
Torn(place) ==
    \E i \in DOMAIN place.entries : End(place, i - 1) < place.bytes /\ place.bytes < End(place, i)

\* Slip: the value is copied from the start of the data.
FirstOfPlace(place, k) == IF place.entries = <<>> THEN 0 ELSE 1

\* memtable_get and sstable_get: the first entry with the key, which is the
\* oldest; 0 if there is none.
First(place, k) == SelectInSeq(place.entries, LAMBDA e : e.key = k)

Finds(place, k) == First(place, k) # 0 /\ End(place, First(place, k)) <= place.bytes

\* What a search of a place may return.
Answers(place, k) ==
    IF Finds(place, k) THEN {place.entries[First(place, k)].val}
    ELSE IF Torn(place) THEN Text \cup {Garbage}
    ELSE {}

\* What lsm_tree_get returns when nothing fails; a search that gets no memory, or
\* whose file does not open, goes on to the next place.
Found(k) == \E i \in DOMAIN Places : Finds(Places[i], k)
Get(k) ==
    LET place == Places[SelectInSeq(Places, LAMBDA p : Finds(p, k))]
    IN  place.entries[First(place, k)].val

\* What was last accepted for a key.
Accepted(k) == \E i \in DOMAIN log : log[i].key = k
Latest(k) == log[SelectLastInSeq(log, LAMBDA e : e.key = k)].val

-----------------------------------------------------------------------------
(* Properties.                                                              *)

\* Every accepted entry is kept, once and in order, through rotations of memtables
\* full or not, failed flushes and their retries: it is in memory, or in a memtable
\* that was flushed.  Its file has that memtable, as far as the device took it; one
\* that was written over, in the second of its name, has a later memtable
\* (lsm_tree.c:224-248, 283-323).
LogPreserved ==
    proc = "ok" =>
        /\ log = FlattenSeq(flushed) \o FlattenSeq(immutable) \o active
        /\ \A i \in DOMAIN listed :
              LET has == file[listed[i]].entries
              IN  \/ has = flushed[i]
                  \/ /\ listed[i] \in over
                     /\ \/ \E j \in DOMAIN flushed : j > i /\ has = flushed[j]
                        \/ immutable = <<has>>

\* Whichever place answers, also when those before it got no memory, a value found
\* was accepted for its key, as long as no file's bytes, read whole or in part, end
\* inside an entry (lsm_tree.c:51-71, 132-172, 250-276).
GetReturnsAccepted ==
    \A k \in Key, i \in DOMAIN Places :
        \A v \in Answers(Places[i], k) :
            proc = "ok" => Torn(Places[i]) \/ [key |-> k, val |-> v] \in ToSet(log)

\* "1. 先查询活跃内存表" (lsm_tree.c:251): the newest place is searched first, so
\* that a key reads as it was last inserted, as long as the files are whole and
\* read whole.
GetReadsLatest ==
    (proc = "ok" /\ over = {} /\ \A i \in DOMAIN Places : Places[i] = InMemory(Places[i].entries)) =>
        \A k \in Key : Accepted(k) /\ Latest(k) # Tombstone => Found(k) /\ Get(k) = Latest(k)

=============================================================================
