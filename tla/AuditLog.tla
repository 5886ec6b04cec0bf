------------------------------ MODULE AuditLog ------------------------------
(****************************************************************************)
(* audit/audit.c: the file that events are appended to and its rotation.  A *)
(* file is named by the second in which it was opened and opened to append. *)
(* Text and JSON do not differ here; nothing is written in the binary       *)
(* format.  That the disk takes what is written is assumed: the code does   *)
(* not look.  The number of files, max_log_files, is never read.            *)
(****************************************************************************)
EXTENDS Integers, Sequences, SequencesExt

CONSTANTS
    NoFile,     \* NULL, no file is open
    SizeLimit,  \* events after which a file is over max_log_size
    MaxEvents,  \* bound: events logged in a run
    MaxTime     \* bound: seconds a run lasts

AuditAssumption == SizeLimit \in Nat /\ MaxEvents \in Nat /\ MaxTime \in Nat

VARIABLES
    exists,    \* there is a manager
    config,    \* enabled, rotate and whether the format is one that is written
    file,      \* log_file, by its name
    contents,  \* the events in the file of each second
    accepted,  \* history: the number of events that were reported as logged
    now        \* time(NULL)

auditVars == <<exists, config, file, contents, accepted>>
vars == <<auditVars, now>>

Config == [enabled : BOOLEAN, rotate : BOOLEAN, written : BOOLEAN]

TypeOK ==
    /\ exists \in BOOLEAN
    /\ config \in Config
    /\ file \in 0..MaxTime \cup {NoFile}
    /\ contents \in [0..MaxTime -> Seq(Nat)]
    /\ accepted \in Nat
    /\ now \in 0..MaxTime

Init ==
    /\ exists = FALSE /\ config = [enabled |-> TRUE, rotate |-> TRUE, written |-> TRUE]
    /\ file = NoFile /\ contents = [t \in 0..MaxTime |-> <<>>]
    /\ accepted = 0
    /\ now = 0

\* Slip: the file is opened anew.
OpenedAnew(c) == file' = now /\ contents' = [c EXCEPT ![now] = <<>>]

\* open_log_file, when the file can be opened.
Opened(c) == file' = now /\ contents' = c

\* When not: the directory or the name fails first, or the old file was closed.
NotOpened == file' \in {file, NoFile} /\ UNCHANGED contents

\* audit_manager_init.  When the file cannot be opened there is no manager.
InitManager(c) ==
    /\ ~exists
    /\ exists' = TRUE
    /\ config' = c
    /\ Opened(contents)
    /\ UNCHANGED <<accepted, now>>

DestroyManager ==
    /\ exists
    /\ exists' = FALSE
    /\ file' = NoFile
    /\ UNCHANGED <<config, contents, accepted, now>>

\* check_log_size
TooLong == file # NoFile /\ Len(contents[file]) > SizeLimit

Written == [contents EXCEPT ![IF TooLong /\ config.rotate THEN now ELSE file] =
               Append(@, accepted + 1)]

\* audit_log_event.  The event goes to the file that is open, or to the one a
\* rotation opens.
LogEvent ==
    /\ exists /\ config.enabled /\ config.written
    /\ file # NoFile
    /\ accepted < MaxEvents
    /\ accepted' = accepted + 1
    /\ IF config.rotate /\ TooLong THEN Opened(Written)
       ELSE contents' = Written /\ UNCHANGED file
    /\ UNCHANGED <<exists, config, now>>

\* It is not logged: the rotation failed, or it succeeded and the format is not
\* written or memory is short.  Without a rotation nothing changes.
LogEventFails ==
    /\ exists /\ config.enabled
    /\ config.rotate /\ TooLong
    /\ Opened(contents) \/ NotOpened
    /\ UNCHANGED <<exists, config, accepted, now>>

\* audit_rotate_log
Rotate ==
    /\ exists
    /\ Opened(contents) \/ NotOpened
    /\ UNCHANGED <<exists, config, accepted, now>>

\* audit_set_config, audit_enable and audit_disable
SetConfig(c) ==
    /\ exists
    /\ config' = c
    /\ Opened(contents) \/ NotOpened
    /\ UNCHANGED <<exists, accepted, now>>

Enable(on) ==
    /\ exists
    /\ config' = [config EXCEPT !.enabled = on]
    /\ UNCHANGED <<exists, file, contents, accepted, now>>

Tick == now < MaxTime /\ now' = now + 1 /\ UNCHANGED auditVars

Next ==
    \/ \E c \in Config : InitManager(c) \/ SetConfig(c)
    \/ LogEvent \/ LogEventFails \/ Rotate \/ DestroyManager
    \/ \E on \in BOOLEAN : Enable(on)
    \/ Tick

Spec == Init /\ [][Next]_vars

-----------------------------------------------------------------------------
(* Properties.                                                              *)

\* The files, in the order of their names, have the events that were reported as
\* logged, in the order in which they were, none twice and none missing, through
\* rotations, failed ones and ones of the same second, changes of the
\* configuration and restarts (audit.c:198-237, 330-364, 564-606).
RecordsInOrder ==
    FlattenSeq([t \in 1..(MaxTime + 1) |-> contents[t - 1]]) = [i \in 1..accepted |-> i]
=============================================================================
