---------------------------- MODULE Authorization ----------------------------
(****************************************************************************)
(* security/authorization.c, over the users of Authentication: roles, the   *)
(* roles users have, and the records of privileges granted to a user.       *)
(* Roles and users are named by these records, and neither a role that is   *)
(* dropped nor a user that is deleted takes them along: who is created      *)
(* again has what was granted to the one before.                            *)
(*                                                                          *)
(* A scope_name may be NULL at any level.  A grant or a revocation without  *)
(* a name takes the first record of the level, whatever its name; one with  *)
(* a name that comes to a record without one ends the process, in a strcmp  *)
(* with NULL, and the model with it.                                        *)
(*                                                                          *)
(* What authz_get_user_privileges makes of the records is left out: it      *)
(* changes nothing.                                                         *)
(****************************************************************************)
EXTENDS Authentication, Sequences, SequencesExt

CONSTANTS
    Role,       \* role names
    Priv,       \* privileges, the bits of the mask
    Level,      \* SCOPE_GLOBAL to SCOPE_COLUMN
    Scope,      \* records [level, name]
    NoName,     \* a scope_name of NULL
    MaxRecords  \* bound: privilege records

AuthorizationAssumption ==
    /\ AuthenticationAssumption
    /\ MaxRecords \in Nat
    /\ \A s \in Scope : s.level \in Level
    /\ \A s, t \in Scope : s.level = t.level /\ s.name = t.name => s = t

VARIABLES
    roles,      \* the roles there are, with their privileges
    userRoles,  \* the list of user_roles, without its order
    privileges, \* the list of privilege records, head first
    granted,    \* history: triples that were granted and not revoked since
    strayed     \* history: at which level a call of a user without a name took
                \* the record of a name

authzVars == <<roles, userRoles, privileges, granted, strayed>>
securityVars == <<authVars, authzVars>>

Record == [user : User, scope : Scope, privs : SUBSET Priv]

TypeOK ==
    /\ AuthTypeOK
    /\ DOMAIN roles \subseteq Role /\ \A r \in DOMAIN roles : roles[r] \subseteq Priv
    /\ userRoles \subseteq User \X Role
    /\ privileges \in Seq(Record)
    /\ granted \subseteq User \X Scope \X Priv
    /\ strayed \subseteq User \X Level

Init ==
    /\ AuthInit
    /\ roles = <<>> /\ userRoles = {} /\ privileges = <<>>
    /\ granted = {} /\ strayed = {}

CreateRole(r, ps) ==
    /\ r \notin DOMAIN roles
    /\ roles' = [x \in DOMAIN roles \cup {r} |-> IF x = r THEN ps ELSE roles[x]]
    /\ UNCHANGED <<userRoles, privileges, granted, strayed>>

DropRole(r) ==
    /\ r \in DOMAIN roles
    /\ roles' = [x \in DOMAIN roles \ {r} |-> roles[x]]
    /\ UNCHANGED <<userRoles, privileges, granted, strayed>>

\* authz_grant_role_privileges and authz_revoke_role_privileges
ChangeRole(r, ps) ==
    /\ r \in DOMAIN roles
    /\ \/ roles' = [roles EXCEPT ![r] = @ \cup ps]
       \/ roles' = [roles EXCEPT ![r] = @ \ ps]
    /\ UNCHANGED <<userRoles, privileges, granted, strayed>>

GrantRole(u, r) ==
    /\ Exists(u) /\ r \in DOMAIN roles
    /\ <<u, r>> \notin userRoles
    /\ userRoles' = userRoles \cup {<<u, r>>}
    /\ UNCHANGED <<roles, privileges, granted, strayed>>

\* Neither the user nor the role has to exist.
RevokeRole(u, r) ==
    /\ <<u, r>> \in userRoles
    /\ userRoles' = userRoles \ {<<u, r>>}
    /\ UNCHANGED <<roles, privileges, granted, strayed>>

\* Slip: the first record of the user is taken, whatever its scope.
FirstOfUser(u, s) == SelectInSeq(privileges, LAMBDA m : m.user = u)

\* The record at which the search for a scope ends, 0 when there is none.
First(u, s) ==
    SelectInSeq(privileges, LAMBDA m : /\ m.user = u /\ m.scope.level = s.level
                                       /\ s.name = NoName \/ m.scope.name \in {NoName, s.name})

\* The search ends at a record of the name that was asked for, or no name was.
Comparable(u, s) ==
    First(u, s) # 0 /\ s.name # NoName => privileges[First(u, s)].scope.name # NoName

Stray(u, s) ==
    IF First(u, s) # 0 /\ s.name = NoName /\ privileges[First(u, s)].scope.name # NoName
      THEN {<<u, s.level>>} ELSE {}

Grant(u, s, ps) ==
    /\ Exists(u)
    /\ Comparable(u, s)
    /\ First(u, s) = 0 => Len(privileges) < MaxRecords
    /\ privileges' =
          IF First(u, s) # 0
            THEN [privileges EXCEPT ![First(u, s)].privs = @ \cup ps]
            ELSE <<[user |-> u, scope |-> s, privs |-> ps]>> \o privileges
    /\ granted' = granted \cup {<<u, s, p>> : p \in ps}
    /\ strayed' = strayed \cup Stray(u, s)
    /\ UNCHANGED <<roles, userRoles>>

\* A record without privileges is unlinked.
Revoke(u, s, ps) ==
    /\ First(u, s) # 0
    /\ Comparable(u, s)
    /\ LET i == First(u, s)
       IN  privileges' = IF privileges[i].privs \subseteq ps THEN RemoveAt(privileges, i)
                         ELSE [privileges EXCEPT ![i].privs = @ \ ps]
    /\ granted' = granted \ {<<u, s, p>> : p \in ps}
    /\ strayed' = strayed \cup Stray(u, s)
    /\ UNCHANGED <<roles, userRoles>>

AuthzNext ==
    \/ \E r \in Role :
          \/ \E ps \in SUBSET Priv : CreateRole(r, ps) \/ ChangeRole(r, ps)
          \/ DropRole(r)
          \/ \E u \in User : GrantRole(u, r) \/ RevokeRole(u, r)
    \/ \E u \in User, s \in Scope, ps \in SUBSET Priv : Grant(u, s, ps) \/ Revoke(u, s, ps)

Next ==
    \/ AuthNext /\ UNCHANGED authzVars
    \/ AuthzNext /\ UNCHANGED authVars

Spec == Init /\ [][Next]_securityVars

-----------------------------------------------------------------------------
(* Properties.                                                              *)

\* Unless a call without a name strayed to the record of a name of that level,
\* there is one record at most for a user's name and a scope, with exactly the
\* privileges granted to that name for that scope and not revoked since: no
\* merging or unlinking of records adds or loses one, and a revocation leaves no
\* second record behind (authorization.c:262-347).
GrantsKept ==
    \A u \in User, s \in Scope :
       LET at == {i \in DOMAIN privileges : privileges[i].user = u /\ privileges[i].scope = s}
       IN  <<u, s.level>> \notin strayed =>
              /\ \A i, j \in at : i = j
              /\ {p \in Priv : <<u, s, p>> \in granted} = UNION {privileges[i].privs : i \in at}
=============================================================================
