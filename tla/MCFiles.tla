------------------------------- MODULE MCFiles -------------------------------
(****************************************************************************)
(* The parts that keep files of their own, for TLC: the LSM tree, the       *)
(* binary log, the catalogue, the audit log, the log, the backups and the   *)
(* settings.  None calls another, so that one run does for them: the        *)
(* initial states choose which is examined.  They share the clock.          *)
(****************************************************************************)
EXTENDS LsmTree

CONSTANTS
    Small, Large,                  \* values of the LSM tree
    Roles, NoFile, MaxSize, MaxFiles, MaxEvents,
    LogTime,                       \* MaxTime of the binary log
    TableName, ColumnName, IndexName, NoTable, Unreliable, MaxObjects, MaxRenames,
    X, XClone,                     \* the names of an index and of its clone
    AuditLimit, AuditEvents,       \* SizeLimit and MaxEvents of the audit log
    SizeLimit, MaxLines, LinesTime,  \* of the log, with its MaxTime; MaxFiles is of both
    Type, Dir, MaxBackups,         \* of the backups
    Setting, MaxSets               \* of the settings: their keys, and a bound

VARIABLES
    subject,                                                         \* what is examined
    role, running, state, cur, binlogs, unlisted, nextId, disk, lost, acked, shared,  \* of Binlog
    cat, files, renames,                                             \* of Metadata
    auditor, config, auditFile, contents, accepted,                  \* of AuditLog
    logger, minLevel, toFile, rotation, isOpen, current, archived,
    fileCount, logSize, given, earlier, forgone,                     \* of LogFile
    keeper, dir, list, isNull, onDisk, empty, seen,                  \* of BackupCatalogue
    settings, lines, onFile, sets, wanted, saved                     \* of ConfigStore

\* An entry of two units with Small, one with Tombstone; Large fits in no memtable.
MCSize == Tombstone :> 1 @@ Small :> 2 @@ Large :> MemCap + 1

MCCloneName == X :> XClone
MCSymmetry == Permutations(TableName)

Log == INSTANCE Binlog WITH MaxTime <- LogTime
Catalogue == INSTANCE Metadata WITH CloneName <- MCCloneName

Audit == INSTANCE AuditLog WITH
            SizeLimit <- AuditLimit, MaxEvents <- AuditEvents, exists <- auditor,
            file <- auditFile
LogLines == INSTANCE LogFile WITH exists <- logger, size <- logSize, MaxTime <- LinesTime
Backup == INSTANCE BackupCatalogue WITH exists <- keeper

\* The text that is a number with a point is printed of 0 and of what is nearly 0,
\* and so read as 0, which is also what a name with a point in it is read as.  No
\* text at all is read as the number 0, and NULL is printed as "(null)".
MCPrinted ==
    <<"int", "0">> :> "0" @@ <<"int", "1">> :> "1" @@ <<"bool", "true">> :> "true" @@
    <<"double", "0">> :> "0.000000" @@ <<"double", "1e-9">> :> "0.000000" @@
    <<"string", "tru">> :> "tru" @@ <<"string", "a.b">> :> "a.b" @@
    <<"string", "NULL">> :> "(null)" @@ <<"string", "(null)">> :> "(null)"
MCGuessed ==
    "0" :> <<"int", "0">> @@ "1" :> <<"int", "1">> @@ "true" :> <<"bool", "true">> @@
    "0.000000" :> <<"double", "0">> @@ "tru" :> <<"string", "tru">> @@
    "a.b" :> <<"double", "0">> @@ "(null)" :> <<"string", "(null)">> @@ "" :> <<"int", "0">>
MCCuts ==
    [t \in DOMAIN MCGuessed |->
       CASE t = "" -> {} [] t = "true" -> {"", "tru"} [] t = "0.000000" -> {"", "0"} [] OTHER -> {""}]
MCDefaults == <<[key |-> CHOOSE k \in Setting : TRUE, value |-> <<"string", "NULL">>]>>

Config == INSTANCE ConfigStore WITH
            Key <- Setting, Content <- DOMAIN MCPrinted, Text <- DOMAIN MCGuessed,
            Printed <- MCPrinted, Guessed <- MCGuessed, Cuts <- MCCuts,
            Unknown <- <<"unknown", "">>, Defaults <- MCDefaults

ASSUME FilesAssumption ==
       /\ Log!BinlogAssumption /\ Catalogue!MetadataAssumption
       /\ Audit!AuditAssumption /\ LogLines!LogFileAssumption /\ Backup!BackupAssumption
       /\ Config!ConfigAssumption

treeVars == <<active, immutable, listed, file, log, flushed, over>>
logVars == <<role, running, state, cur, binlogs, unlisted, nextId, disk, lost, acked, shared>>
catalogueVars == <<cat, files, renames>>
auditVars == <<auditor, config, auditFile, contents, accepted>>
linesVars ==
    <<logger, minLevel, toFile, rotation, isOpen, current, archived, fileCount, logSize,
      given, earlier, forgone>>
backupVars == <<keeper, dir, list, isNull, onDisk, empty, seen>>
configVars == <<settings, lines, onFile, sets, wanted, saved>>
clockVars == <<now, proc>>
recordVars == <<auditVars, linesVars, backupVars, configVars>>
dataVars == <<treeVars, logVars, catalogueVars>>

FilesInit ==
    /\ subject \in {"tree", "log", "catalogue", "audit", "lines", "backup", "config"}
    /\ Init /\ Log!Init /\ Catalogue!Init /\ Audit!Init /\ LogLines!Init /\ Backup!Init
    /\ Config!Init
    /\ subject # "log" => role = CHOOSE r \in Roles : TRUE

FilesNext ==
    \/ subject = "tree" /\ Next /\ UNCHANGED <<subject, logVars, catalogueVars, recordVars>>
    \/ /\ subject = "log"
       /\ Log!Next
       /\ UNCHANGED <<subject, treeVars, catalogueVars, recordVars>>
    \/ /\ subject = "catalogue"
       /\ Catalogue!Next
       /\ UNCHANGED <<subject, treeVars, logVars, clockVars, recordVars>>
    \/ /\ subject = "audit"
       /\ Audit!Next
       /\ UNCHANGED <<subject, dataVars, linesVars, backupVars, configVars, proc>>
    \/ /\ subject = "lines"
       /\ LogLines!Next
       /\ UNCHANGED <<subject, dataVars, auditVars, backupVars, configVars, proc>>
    \/ /\ subject = "backup"
       /\ Backup!Next
       /\ UNCHANGED <<subject, dataVars, auditVars, linesVars, configVars, proc>>
    \/ /\ subject = "config"
       /\ Config!Next
       /\ UNCHANGED <<subject, dataVars, clockVars, auditVars, linesVars, backupVars>>

FilesSpec == FilesInit /\ [][FilesNext]_<<subject, dataVars, recordVars, clockVars>>

-----------------------------------------------------------------------------
(* Properties.  Those of the LSM tree are stated in LsmTree.                *)

\* The state of each part is of its type.
FilesTypeOK ==
    /\ subject = "tree" => TypeOK
    /\ subject = "log" => Log!TypeOK
    /\ subject = "catalogue" => Catalogue!TypeOK
    /\ subject = "audit" => Audit!TypeOK
    /\ subject = "lines" => LogLines!TypeOK
    /\ subject = "backup" => Backup!TypeOK
    /\ subject = "config" => Config!TypeOK

\* LSM tree: what was accepted is in memory or was flushed, in its order, through
\* flushes that fail and are tried again, and a listed file has its memtable unless
\* it was written over; a value found was accepted for its key, unless it was looked
\* for beyond the bytes of a file (lsm_tree.c:74-172, 224-323).
EntriesKept == LogPreserved /\ GetReturnsAccepted

\* Binlog: the files give the events in the order they were written, none
\* twice, through rotations, restarts and failed writes, and what the list says
\* of a file covers the events in it (replication.c:288-312, 504-554).
EventsInOrder == subject = "log" => Log!EventsInOrder /\ Log!IndexCoversFile

\* Binlog: pruning takes the oldest events only (replication.c:544-550).
PruningKeepsNewest == subject = "log" => Log!PruningKeepsNewest

\* Metadata: a name and type mean one object, and the files are those of the
\* objects that were not dropped, also after drops, renames, clones and saves
\* (metadata.c:603, 623-629, 769-773, 944).
CatalogueSound == subject = "catalogue" => Catalogue!NamesUnique /\ Catalogue!FilesOfActive

\* AuditLog, LogFile and ConfigStore: what was accepted is in the files, in order,
\* through rotations, failed ones too, and restarts (audit.c:198-237, 330-364,
\* 564-606; logging.c:49-155), and a setting that lasts is what it was last set
\* or loaded to, but for the one a save was cut in (config.c:168-255, 294-434).
RecordsKept ==
    /\ subject = "audit" => Audit!RecordsInOrder
    /\ subject = "lines" => LogLines!LinesKept
    /\ subject = "config" => Config!SettingsKept

\* BackupCatalogue: a file listed at the start stays listed until it is removed, and
\* verifies unless it is empty (backup.c:148-205, 381-460).
FilesStayListed == subject = "backup" => Backup!FilesStayListed

\* Metadata: a table that is dropped takes its columns and indexes with it as
\* long as nothing was renamed (metadata.c:996-1027).
DropTakesPartsUnrenamed ==
    [][subject = "catalogue" => Catalogue!UnrenamedDropTakesParts]_<<subject, catalogueVars>>

\* "删除表元数据（包括其列和索引）" (metadata.c:995): a table is dropped with its
\* columns and indexes.
DropTakesParts ==
    [][subject = "catalogue" => Catalogue!DropTakesParts]_<<subject, catalogueVars>>
=============================================================================
