------------------------------ MODULE LogFile -------------------------------
(****************************************************************************)
(* logging/logging.c: the log, its file, and the rotation that renames the  *)
(* file and opens a new one.  A line is a number; a level is low or high.   *)
(* The lines the log writes of itself, at its start, its end and a          *)
(* rotation, are left out: they are not counted in current_log_size either. *)
(****************************************************************************)
EXTENDS Integers, Sequences, SequencesExt, FiniteSetsExt

CONSTANTS
    SizeLimit,  \* lines after which the file is rotated: max_log_size
    MaxLines,   \* bound: lines written in a run; and a log whose size grows
                \* without a rotation stops above SizeLimit
    MaxFiles,   \* bound: rotations since the log was started
    MaxTime     \* bound: seconds a run lasts

LogFileAssumption == SizeLimit \in Nat \ {0} /\ MaxLines \in Nat
                     /\ MaxFiles \in Nat /\ MaxTime \in Nat

VARIABLES
    exists,    \* there is a log
    minLevel,
    toFile,    \* the target is the file, or both
    rotation,  \* log_rotation
    isOpen,    \* log_file is not NULL
    current,   \* the lines in the file at log_path
    archived,  \* those of the renamed files, by name
    fileCount, \* log_file_count
    size,      \* current_log_size
    given,     \* history: how many lines were given to the file
    earlier,   \* history: names given before the log was started last
    forgone,   \* history: lines in a file that was truncated or renamed over
    now

logFileVars == <<exists, minLevel, toFile, rotation, isOpen, current, archived,
                 fileCount, size, given, earlier, forgone>>
vars == <<logFileVars, now>>

Level == {"low", "high"}

Name == (0..MaxTime) \X Nat

TypeOK ==
    /\ exists \in BOOLEAN /\ toFile \in BOOLEAN /\ rotation \in BOOLEAN /\ isOpen \in BOOLEAN
    /\ minLevel \in Level
    /\ current \in Seq(Nat)
    /\ DOMAIN archived \subseteq Name /\ \A n \in DOMAIN archived : archived[n] \in Seq(Nat)
    /\ fileCount \in Nat /\ size \in Nat /\ given \in Nat
    /\ earlier \subseteq Name /\ forgone \subseteq Nat
    /\ now \in 0..MaxTime

Init ==
    /\ exists = FALSE /\ isOpen = FALSE
    /\ minLevel = "low" /\ toFile = TRUE /\ rotation = TRUE
    /\ current = <<>> /\ archived = <<>>
    /\ fileCount = 0 /\ size = 0
    /\ given = 0 /\ earlier = {} /\ forgone = {}
    /\ now = 0

\* logging_init.  The size of what is there is read.
InitLog(file, rotates) ==
    /\ ~exists
    /\ exists' = TRUE /\ isOpen' = TRUE
    /\ minLevel' = "low" /\ toFile' = file /\ rotation' = rotates
    /\ fileCount' = 0
    /\ size' = Len(current)
    /\ earlier' = DOMAIN archived
    /\ UNCHANGED <<current, archived, given, forgone, now>>

DestroyLog ==
    /\ exists
    /\ exists' = FALSE /\ isOpen' = FALSE
    /\ UNCHANGED <<minLevel, toFile, rotation, current, archived, fileCount, size,
                   given, earlier, forgone, now>>

Rotates == rotation /\ isOpen /\ size >= SizeLimit

\* Slip: the name does not have the number of the file.
NameOfSecond(n) == <<now, 0>>

NameOf(n) == <<now, n>>

\* rotate_log_file: the file is renamed, over another of that name if there is
\* one, or it stays and is truncated when the new one is opened; opening may
\* fail after either.  Then a line is written, if it is for the file and one is
\* open; the size counts it in any case.
Rotation(renamed, opens, line) ==
    LET name == NameOf(fileCount)
    IN  /\ archived' = IF renamed
                         THEN [n \in DOMAIN archived \cup {name} |->
                                 IF n = name THEN current ELSE archived[n]]
                         ELSE archived
        /\ current' = IF opens THEN line ELSE IF renamed THEN <<>> ELSE current
        /\ isOpen' = opens
        /\ fileCount' = fileCount + IF opens THEN 1 ELSE 0
        /\ size' = 1 + IF opens THEN 0 ELSE size
        /\ forgone' = forgone \cup
              (IF renamed /\ name \in earlier THEN ToSet(archived[name]) ELSE {}) \cup
              (IF ~renamed /\ opens THEN ToSet(current) ELSE {})
        /\ earlier' = IF renamed THEN earlier \ {name} ELSE earlier

\* What logging_log does with a line of a sufficient level.  `file' tells whether
\* the target is the file.
Put(file) ==
    /\ given < MaxLines /\ size <= SizeLimit
    /\ \/ /\ ~Rotates
          /\ LET written == file /\ isOpen
             IN  /\ current' = IF written THEN Append(current, given + 1) ELSE current
                 /\ given' = given + IF written THEN 1 ELSE 0
          /\ size' = size + 1
          /\ UNCHANGED <<isOpen, archived, fileCount, earlier, forgone>>
       \/ /\ Rotates
          /\ fileCount < MaxFiles
          /\ \E renamed, opens \in BOOLEAN :
                /\ Rotation(renamed, opens, IF file THEN <<given + 1>> ELSE <<>>)
                /\ given' = given + IF file /\ opens THEN 1 ELSE 0

\* logging_debug, logging_info and the others.
Log(level) ==
    /\ exists
    /\ minLevel = "high" => level = "high"
    /\ Put(toFile)
    /\ UNCHANGED <<exists, minLevel, toFile, rotation, now>>

\* The change of level or target is logged as well, with the new one in force.
SetLevel(level) ==
    /\ exists
    /\ minLevel' = level
    /\ IF level = "low" THEN Put(toFile)
       ELSE UNCHANGED <<isOpen, current, archived, fileCount, size, given, earlier, forgone>>
    /\ UNCHANGED <<exists, toFile, rotation, now>>

SetTarget(file) ==
    /\ exists
    /\ toFile' = file
    /\ IF minLevel = "low" THEN Put(file)
       ELSE UNCHANGED <<isOpen, current, archived, fileCount, size, given, earlier, forgone>>
    /\ UNCHANGED <<exists, minLevel, rotation, now>>

Tick == now < MaxTime /\ now' = now + 1 /\ UNCHANGED logFileVars

Next ==
    \/ \E file, rotates \in BOOLEAN : InitLog(file, rotates)
    \/ DestroyLog
    \/ \E level \in Level : Log(level) \/ SetLevel(level)
    \/ \E file \in BOOLEAN : SetTarget(file)
    \/ Tick

Spec == Init /\ [][Next]_vars

-----------------------------------------------------------------------------
(* Properties.                                                              *)

\* Every line that was given to the file is in one file, once, and in order
\* there, except for those of a file that was truncated because it could not be
\* renamed, or that a rotation after a restart in the same second renamed
\* another file over (logging.c:49-155).
LinesKept ==
    LET All == {current} \cup {archived[n] : n \in DOMAIN archived}
        Stray == {l \in 1..given : ~\E f \in All : l \in ToSet(f)}
    IN  /\ Stray \subseteq forgone
        /\ \A f \in All : \A i, j \in DOMAIN f : i < j => f[i] < f[j]
        /\ \A m, n \in DOMAIN archived :
              m # n => ToSet(archived[m]) \cap ToSet(archived[n]) = {}
        /\ \A n \in DOMAIN archived : ToSet(archived[n]) \cap ToSet(current) = {}
=============================================================================
