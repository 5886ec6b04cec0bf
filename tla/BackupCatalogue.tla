--------------------------- MODULE BackupCatalogue ---------------------------
(****************************************************************************)
(* backup/backup.c: the list of backups and the files it was read from.  A  *)
(* backup is performed without writing a file; a file comes into the        *)
(* directory by other means.  A name is made of a type and the second.      *)
(*                                                                          *)
(* A realloc that fails makes the list NULL while the count stays: the next *)
(* use of the list is undefined, and the model ends there.                  *)
(****************************************************************************)
EXTENDS Integers, Sequences, SequencesExt, FiniteSets

CONSTANTS
    Type,        \* full, incremental
    Dir,         \* directories
    MaxBackups,  \* bound: length of the list
    MaxTime      \* bound: seconds a run lasts

BackupAssumption == Dir # {} /\ MaxBackups \in Nat /\ MaxTime \in Nat

VARIABLES
    exists,   \* there is a manager
    dir,      \* config->backup_dir
    list,     \* backups
    isNull,   \* the list was lost to realloc
    onDisk,   \* files: pairs of directory and name
    empty,    \* those of no bytes
    seen,     \* history: files listed by the scan and not removed since
    now       \* time(NULL)

backupVars == <<exists, dir, list, isNull, onDisk, empty, seen>>
vars == <<backupVars, now>>

Name == Type \X (0..MaxTime)

Path == Dir \X Name

TypeOK ==
    /\ exists \in BOOLEAN /\ isNull \in BOOLEAN
    /\ dir \in Dir
    /\ list \in Seq(Path)
    /\ onDisk \subseteq Path /\ empty \subseteq Path /\ seen \subseteq Path
    /\ now \in 0..MaxTime

Init ==
    /\ exists = FALSE /\ isNull = FALSE
    /\ dir = CHOOSE d \in Dir : TRUE
    /\ list = <<>> /\ onDisk = {} /\ empty = {} /\ seen = {}
    /\ now = 0

\* scan_backup_dir, of the files that have the name of a backup.
Scanned(files) == SetToSeq(files)

\* backup_manager_init: a file that gets no memory is passed over, and with it the
\* list is lost when that is the list's and there was one.
InitManager(d) ==
    /\ ~exists /\ ~isNull
    /\ exists' = TRUE
    /\ dir' = d
    /\ \E files \in SUBSET {p \in onDisk : p[1] = d} :
          /\ list' = Scanned(files)
          /\ seen' = files
          /\ isNull' \in IF files # {} THEN BOOLEAN ELSE {FALSE}
    /\ UNCHANGED <<onDisk, empty, now>>

DestroyManager ==
    /\ exists /\ ~isNull
    /\ exists' = FALSE
    /\ list' = <<>> /\ seen' = {}
    /\ UNCHANGED <<dir, isNull, onDisk, empty, now>>

\* backup_perform, which answers true when it got no memory, too; a list that there
\* is is then lost.
Perform(type) ==
    /\ exists /\ ~isNull
    /\ Len(list) < MaxBackups
    /\ \/ list' = Append(list, <<dir, <<type, now>> >>) /\ UNCHANGED isNull
       \/ list # <<>> /\ isNull' = TRUE /\ UNCHANGED list
    /\ UNCHANGED <<exists, dir, onDisk, empty, seen, now>>

\* The first of the name, 0 when there is none.
Find(name) == SelectInSeq(list, LAMBDA p : p[2] = name)

\* Slip: the entry goes although its file could not be removed.
DeleteAnyway(name) ==
    /\ exists /\ ~isNull
    /\ Find(name) # 0
    /\ list' = RemoveAt(list, Find(name))
    /\ onDisk' \in {onDisk, onDisk \ {list[Find(name)]}}
    /\ empty' = empty \cap onDisk'
    /\ seen' = seen \cap onDisk'
    /\ UNCHANGED <<exists, dir, isNull, now>>

\* backup_delete: the entry goes when its file was there and could be removed.
\* The realloc that shortens the list may fail as well.
Delete(name) ==
    /\ exists /\ ~isNull
    /\ Find(name) # 0
    /\ list[Find(name)] \in onDisk
    /\ onDisk' = onDisk \ {list[Find(name)]}
    /\ empty' = empty \ {list[Find(name)]}
    /\ seen' = seen \ {list[Find(name)]}
    /\ list' = RemoveAt(list, Find(name))
    /\ isNull' \in IF Len(list) > 1 THEN BOOLEAN ELSE {FALSE}
    /\ UNCHANGED <<exists, dir, now>>

\* backup_verify: the file has to be there and not be empty.
Verifies(name) == Find(name) # 0 /\ list[Find(name)] \in onDisk \ empty

\* backup_set_config: the list stays what it was.
SetConfig(d) ==
    /\ exists /\ ~isNull
    /\ dir' = d
    /\ UNCHANGED <<exists, list, isNull, onDisk, empty, seen, now>>

\* External: a file, maybe an empty one, is put into a directory, or taken away.
Place(p) ==
    /\ p \notin onDisk
    /\ p[2][2] <= now
    /\ Cardinality(onDisk) < MaxBackups
    /\ onDisk' = onDisk \cup {p}
    /\ empty' \in {empty, empty \cup {p}}
    /\ UNCHANGED <<exists, dir, list, isNull, seen, now>>

TakeAway(p) ==
    /\ p \in onDisk
    /\ onDisk' = onDisk \ {p}
    /\ empty' = empty \ {p}
    /\ seen' = seen \ {p}
    /\ UNCHANGED <<exists, dir, list, isNull, now>>

Tick == now < MaxTime /\ now' = now + 1 /\ UNCHANGED backupVars

Next ==
    \/ \E d \in Dir : InitManager(d) \/ SetConfig(d)
    \/ \E type \in Type : Perform(type)
    \/ \E name \in Name : Delete(name)
    \/ \E p \in Path : Place(p) \/ TakeAway(p)
    \/ DestroyManager \/ Tick

Spec == Init /\ [][Next]_vars

-----------------------------------------------------------------------------
(* Properties.                                                              *)

\* A file listed when the manager started, and not removed by others, can be
\* verified by its name if it is not empty, as long as the list is there: neither a
\* deletion that fails nor one of another backup of the same name or second takes
\* its entry, nor does another file answer for it (backup.c:148-205, 381-419,
\* 422-460).  A backup performed in the second of the file has its name, but comes
\* after it.
FilesStayListed ==
    exists /\ ~isNull => \A p \in seen : p \in ToSet(list) /\ (Verifies(p[2]) <=> p \notin empty)
=============================================================================
