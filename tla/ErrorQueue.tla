----------------------------- MODULE ErrorQueue -----------------------------
(****************************************************************************)
(* error/error.c: the list of the errors recorded last, the oldest first.   *)
(* An error that finds the list full takes the place of the oldest.  What   *)
(* an error says does not matter to the list.                               *)
(****************************************************************************)
EXTENDS Integers, Sequences

CONSTANTS
    Error,       \* errors
    MaxErrors,   \* max_errors
    MaxRecorded  \* bound: errors recorded since the list was cleared

ErrorAssumption == MaxErrors \in Nat \ {0} /\ MaxRecorded \in Nat

VARIABLES
    queue,    \* error_queue
    errorCount,    \* error_count
    errors  \* history: all errors recorded since the list was cleared

errorVars == <<queue, errorCount, errors>>

ErrorTypeOK ==
    /\ queue \in Seq(Error)
    /\ errorCount \in Nat
    /\ errors \in Seq(Error)

ErrorInit == queue = <<>> /\ errorCount = 0 /\ errors = <<>>

\* Slip: the list may be one longer than its limit.
FullAbove(n) == n > MaxErrors

Full(n) == n >= MaxErrors

\* error_record.  One whose record cannot be allocated is not seen here.
RecordError(e) ==
    /\ Len(errors) < MaxRecorded
    /\ errors' = Append(errors, e)
    /\ IF Full(errorCount) /\ queue # <<>>
         THEN queue' = Append(Tail(queue), e) /\ errorCount' = errorCount - 1 + 1
         ELSE queue' = Append(queue, e) /\ errorCount' = errorCount + 1

ClearQueue ==
    /\ queue' = <<>> /\ errorCount' = 0
    /\ errors' = <<>>

\* error_get_last: an error, in a set that is empty when there is none.
GetLast == IF errorCount = 0 THEN {} ELSE {queue[Len(queue)]}

ErrorNext == ClearQueue \/ \E e \in Error : RecordError(e)

ErrorSpec == ErrorInit /\ [][ErrorNext]_errorVars

-----------------------------------------------------------------------------
(* Properties.                                                              *)

\* The list has no more errors than it may, as many as it counts.
CountExact == errorCount = Len(queue) /\ errorCount <= MaxErrors

\* It holds the errors recorded last, all of them while there is room, in the
\* order in which they were recorded.
HoldsLast ==
    /\ Len(queue) <= Len(errors)
    /\ Len(queue) = Len(errors) \/ Len(queue) = MaxErrors
    /\ \A i \in 1..Len(queue) : queue[i] = errors[Len(errors) - Len(queue) + i]

\* The last error is the one recorded last (error.c:177-233).
LastIsLast == GetLast = IF errors = <<>> THEN {} ELSE {errors[Len(errors)]}

\* Together: the list is the end of what was recorded (error.c:177-260).
LastErrorsKept == CountExact /\ HoldsLast /\ LastIsLast
=============================================================================
