--------------------------- MODULE Authentication ---------------------------
(****************************************************************************)
(* security/authentication.c: the users, their passwords and the records of *)
(* failed logins, which lock an account.  A record belongs to a name, not   *)
(* to a user: it stays when the user is deleted.                            *)
(*                                                                          *)
(* Salt and hash are left out: a password matches when it is the one that   *)
(* was set.  The order of the list of users is not observable.              *)
(*                                                                          *)
(* The manager is given a lockout_duration, in seconds, and a record keeps  *)
(* the time of its last failure; neither is ever read, so that no lock ends *)
(* by itself.                                                               *)
(****************************************************************************)
EXTENDS Integers

CONSTANTS
    User,             \* user names
    Password,         \* passwords
    MaxAttempts,      \* max_login_attempts
    LockoutDuration,  \* lockout_duration
    MaxFailed,        \* bound: failed_attempts of one record
    MaxClock          \* bound: the seconds that pass

AuthenticationAssumption ==
    /\ MaxAttempts \in Nat \ {0}
    /\ LockoutDuration \in Nat \ {0}
    /\ MaxFailed \in Nat /\ MaxClock \in Nat
    /\ Password # {}

VARIABLES
    status,      \* of the user with the name, "absent" when there is none
    password,    \* what was last set for the name
    recorded,    \* the names with a record of attempts
    failed,      \* failed_attempts of the record
    lastFailed,  \* last_failed_attempt of the record
    clock,       \* time(NULL)
    wrong        \* history: failures recorded since a success or a reopening

authVars == <<status, password, recorded, failed, lastFailed, clock, wrong>>

Status == {"absent", "active", "locked", "disabled"}

AuthTypeOK ==
    /\ status \in [User -> Status]
    /\ password \in [User -> Password]
    /\ recorded \subseteq User
    /\ failed \in [User -> Nat]
    /\ lastFailed \in [User -> 0..clock]
    /\ clock \in Nat
    /\ wrong \in [User -> Nat]

AuthInit ==
    /\ status = [u \in User |-> "absent"]
    /\ password = [u \in User |-> CHOOSE p \in Password : TRUE]
    /\ recorded = {}
    /\ failed = [u \in User |-> 0]
    /\ lastFailed = [u \in User |-> 0]
    /\ clock = 0
    /\ wrong = [u \in User |-> 0]

Exists(u) == status[u] # "absent"

CreateUser(u, p) ==
    /\ ~Exists(u)
    /\ status' = [status EXCEPT ![u] = "active"]
    /\ password' = [password EXCEPT ![u] = p]
    /\ wrong' = [wrong EXCEPT ![u] = 0]
    /\ UNCHANGED <<recorded, failed, lastFailed, clock>>

\* A success clears the count.
RecordSuccess(u) ==
    /\ recorded' = recorded \cup {u}
    /\ failed' = [failed EXCEPT ![u] = 0]
    /\ wrong' = [wrong EXCEPT ![u] = 0]
    /\ UNCHANGED <<status, password, lastFailed, clock>>

\* Slip: the account is locked by the attempt after the last one allowed.
RecordFailureLate(u) ==
    /\ failed[u] < MaxFailed
    /\ recorded' = recorded \cup {u}
    /\ failed' = [failed EXCEPT ![u] = @ + 1]
    /\ wrong' = [wrong EXCEPT ![u] = @ + 1]
    /\ lastFailed' = [lastFailed EXCEPT ![u] = clock]
    /\ status' = IF failed[u] >= MaxAttempts /\ Exists(u)
                   THEN [status EXCEPT ![u] = "locked"] ELSE status
    /\ UNCHANGED <<password, clock>>

\* A failure is counted, and the one that reaches the limit locks the user, a
\* disabled one too.
RecordFailure(u) ==
    /\ failed[u] < MaxFailed
    /\ recorded' = recorded \cup {u}
    /\ failed' = [failed EXCEPT ![u] = @ + 1]
    /\ wrong' = [wrong EXCEPT ![u] = @ + 1]
    /\ lastFailed' = [lastFailed EXCEPT ![u] = clock]
    /\ status' = IF failed'[u] >= MaxAttempts /\ Exists(u)
                   THEN [status EXCEPT ![u] = "locked"] ELSE status
    /\ UNCHANGED <<password, clock>>

\* auth_record_login_attempt, which others may call for any name.  A record that
\* cannot be allocated leaves the attempt uncounted.
RecordAttempt(u, success) ==
    \/ success /\ RecordSuccess(u)
    \/ ~success /\ RecordFailure(u)
    \/ u \notin recorded /\ UNCHANGED authVars

\* Only an active user's password is looked at.
VerifyPassword(u, p) ==
    /\ status[u] = "active"
    /\ RecordAttempt(u, p = password[u])

\* auth_change_password: giving the old password counts as an attempt.  When it
\* is wrong, or the new one cannot be set for want of memory, the call is no more
\* than VerifyPassword.
ChangePassword(u, old, new) ==
    /\ status[u] = "active"
    /\ old = password[u]
    /\ password' = [password EXCEPT ![u] = new]
    /\ \/ /\ recorded' = recorded \cup {u}
          /\ failed' = [failed EXCEPT ![u] = 0]
          /\ wrong' = [wrong EXCEPT ![u] = 0]
       \/ u \notin recorded /\ UNCHANGED <<recorded, failed, wrong>>
    /\ UNCHANGED <<status, lastFailed, clock>>

\* auth_unlock_user and auth_enable_user do the same, whatever the status was.
\* The count of failures stays.
Reopen(u) ==
    /\ Exists(u)
    /\ status' = [status EXCEPT ![u] = "active"]
    /\ wrong' = [wrong EXCEPT ![u] = 0]
    /\ UNCHANGED <<password, recorded, failed, lastFailed, clock>>

\* auth_lock_user and auth_disable_user.
Close(u, as) ==
    /\ Exists(u)
    /\ status' = [status EXCEPT ![u] = as]
    /\ UNCHANGED <<password, recorded, failed, lastFailed, clock, wrong>>

DeleteUser(u) ==
    /\ Exists(u)
    /\ status' = [status EXCEPT ![u] = "absent"]
    /\ UNCHANGED <<password, recorded, failed, lastFailed, clock, wrong>>

AuthTick ==
    /\ clock < MaxClock
    /\ clock' = clock + 1
    /\ UNCHANGED <<status, password, recorded, failed, lastFailed, wrong>>

AuthNext ==
    \/ AuthTick
    \/ \E u \in User :
          \/ \E p \in Password : CreateUser(u, p) \/ VerifyPassword(u, p)
          \/ \E old, new \in Password : ChangePassword(u, old, new)
          \/ \E success \in BOOLEAN : RecordAttempt(u, success)
          \/ Reopen(u)
          \/ \E as \in {"locked", "disabled"} : Close(u, as)
          \/ DeleteUser(u)

AuthSpec == AuthInit /\ [][AuthNext]_authVars

-----------------------------------------------------------------------------
(* Properties.                                                              *)

\* As many wrong passwords in a row as are allowed close the account, and as long
\* as the lockout is to last, counted from the last of them, nothing but a reopening
\* or the creation of the user opens it: no deletion that leaves the record behind,
\* no change of password (authentication.c:288-325, 375-420).  It does not open
\* afterwards either, which the duration promises and this does not ask.
LockoutHolds ==
    \A u \in User :
       wrong[u] >= MaxAttempts /\ clock - lastFailed[u] < LockoutDuration
          => status[u] # "active"
=============================================================================
