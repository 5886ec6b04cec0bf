----------------------------- MODULE ServerProofs -----------------------------
(****************************************************************************)
(* Proofs about the services of the server process, for every value of      *)
(* their constants: the pool's blocks lie apart and its statistics add up;  *)
(* the server's list, its counter and the kernel's sockets agree; the list  *)
(* of errors holds the last ones; the cache accounts for what it holds,     *)
(* serves what was stored last and evicts what was used least; statistics   *)
(* sum up what was measured; procedures and triggers own their parts;       *)
(* accounts stay locked and grants are kept as given.                       *)
(****************************************************************************)
EXTENDS MCServer, WellFoundedInduction, SequenceLemmas, SequenceTheorems, TLAPS

(* Accounts, roles and privileges.                                          *)
\* Reopening an account forgets the wrong passwords, not the record: the record
\* counts at least those since.  As no lock ends by itself, an account they closed
\* is not open however long ago that was.
LockInv ==
    /\ AuthTypeOK
    /\ \A u \in User : wrong[u] <= failed[u]
    /\ \A u \in User : wrong[u] >= MaxAttempts => status[u] # "active"

LEMMA InitLockInv ==
    ASSUME AuthorizationAssumption, AuthInit
    PROVE  LockInv
  <1> DEFINE p == CHOOSE p \in Password : TRUE
  <1>1. p \in Password
    BY DEF AuthorizationAssumption, AuthenticationAssumption
  <1>2. password = [u \in User |-> p]
    BY DEF AuthInit
  <1> HIDE DEF p
  <1>3. password \in [User -> Password]
    BY <1>1, <1>2
  <1>4. AuthTypeOK
    BY <1>3 DEF AuthTypeOK, AuthInit, Status
  <1>5. QED
    BY <1>4 DEF LockInv, AuthInit, AuthorizationAssumption,
                AuthenticationAssumption

\* A success, or none recorded, leaves the account as it was.
LEMMA AttemptKeepsLock ==
    ASSUME AuthorizationAssumption, LockInv, NEW u \in User, NEW success \in BOOLEAN,
           RecordAttempt(u, success)
    PROVE  LockInv'
  <1> USE DEF LockInv, AuthTypeOK, AuthorizationAssumption,
              AuthenticationAssumption
  <1>1. CASE RecordSuccess(u)
    BY <1>1 DEF RecordSuccess
  <1>2. CASE RecordFailure(u)
    <2>1. /\ recorded' = recorded \cup {u}
          /\ failed' = [failed EXCEPT ![u] = @ + 1]
          /\ wrong' = [wrong EXCEPT ![u] = @ + 1]
          /\ lastFailed' = [lastFailed EXCEPT ![u] = clock]
          /\ password' = password /\ clock' = clock
      BY <1>2 DEF RecordFailure
    <2>2. status' = IF failed'[u] >= MaxAttempts /\ Exists(u)
                      THEN [status EXCEPT ![u] = "locked"] ELSE status
      BY <1>2 DEF RecordFailure
    <2>3. status' \in [User -> Status]
      <3>1. [status EXCEPT ![u] = "locked"] \in [User -> Status]
        BY DEF Status
      <3>2. status' = [status EXCEPT ![u] = "locked"] \/ status' = status
        BY <2>2
      <3>3. QED
        BY <3>1, <3>2
    <2>4. AuthTypeOK'
      <3>1. recorded' \subseteq User /\ password' \in [User -> Password]
        BY <2>1
      <3>2. failed' \in [User -> Nat] /\ wrong' \in [User -> Nat]
        BY <2>1
      <3>3. lastFailed' \in [User -> 0..clock'] /\ clock' \in Nat
        BY <2>1
      <3>4. QED
        BY <2>3, <3>1, <3>2, <3>3
    <2>5. \A v \in User : wrong'[v] <= failed'[v]
      BY <2>1
    <2>6. ASSUME NEW v \in User, wrong'[v] >= MaxAttempts
          PROVE  status'[v] # "active"
      <3>1. CASE v = u /\ Exists(u)
        <4>1. failed'[u] >= MaxAttempts
          BY <2>1, <2>5, <2>6, <3>1
        <4>2. QED
          BY <2>2, <3>1, <4>1
      <3>2. CASE v = u /\ ~Exists(u)
        BY <2>2, <3>2 DEF Exists
      <3>3. CASE v # u
        BY <2>1, <2>2, <2>6, <3>3
      <3>4. QED
        BY <3>1, <3>2, <3>3
    <2>7. QED
      BY <2>4, <2>5, <2>6
  <1>3. CASE UNCHANGED authVars
    BY <1>3 DEF authVars
  <1>4. QED
    BY <1>1, <1>2, <1>3 DEF RecordAttempt

LEMMA AuthKeepsLock ==
    ASSUME AuthorizationAssumption, LockInv, AuthNext
    PROVE  LockInv'
  <1> USE DEF LockInv, AuthTypeOK, AuthorizationAssumption,
              AuthenticationAssumption
  <1>0. CASE AuthTick
    <2>1. /\ UNCHANGED <<status, password, recorded, failed, lastFailed, wrong>>
          /\ clock' \in Nat /\ 0..clock \subseteq 0..clock'
      BY <1>0 DEF AuthTick
    <2>2. QED
      BY <2>1
  <1> SUFFICES ASSUME ~AuthTick PROVE LockInv'
    BY <1>0
  <1>1. PICK u \in User :
           \/ \E p \in Password : CreateUser(u, p) \/ VerifyPassword(u, p)
           \/ \E old, new \in Password : ChangePassword(u, old, new)
           \/ \E success \in BOOLEAN : RecordAttempt(u, success)
           \/ Reopen(u)
           \/ \E as \in {"locked", "disabled"} : Close(u, as)
           \/ DeleteUser(u)
    BY DEF AuthNext
  <1>2. ASSUME NEW p \in Password, CreateUser(u, p) PROVE LockInv'
    BY <1>2 DEF CreateUser, Status
  <1>3. ASSUME NEW p \in Password, VerifyPassword(u, p) PROVE LockInv'
    <2>1. RecordAttempt(u, p = password[u]) /\ (p = password[u]) \in BOOLEAN
      BY <1>3 DEF VerifyPassword
    <2>2. QED
      BY <2>1, AttemptKeepsLock
  <1>4. ASSUME NEW old \in Password, NEW new \in Password, ChangePassword(u, old, new)
        PROVE  LockInv'
    BY <1>4 DEF ChangePassword
  <1>5. ASSUME NEW success \in BOOLEAN, RecordAttempt(u, success) PROVE LockInv'
    BY <1>5, AttemptKeepsLock
  <1>6. CASE Reopen(u)
    BY <1>6 DEF Reopen, Status
  <1>7. ASSUME NEW as \in {"locked", "disabled"}, Close(u, as) PROVE LockInv'
    BY <1>7 DEF Close, Status
  <1>8. CASE DeleteUser(u)
    BY <1>8 DEF DeleteUser, Status
  <1>9. QED
    BY <1>1, <1>2, <1>3, <1>4, <1>5, <1>6, <1>7, <1>8

\* What is done with roles and grants leaves the accounts alone.
LEMMA NextKeepsLock ==
    ASSUME AuthorizationAssumption, LockInv, [Next]_securityVars
    PROVE  LockInv'
  <1>1. UNCHANGED authVars => LockInv'
    BY DEF LockInv, AuthTypeOK, authVars
  <1>2. QED
    BY <1>1, AuthKeepsLock DEF Next, securityVars

\* After as many wrong passwords as are allowed an account is not active for as
\* long as the lockout is to last, unless it is reopened or created again, whatever
\* is done with roles and grants (authentication.c:288-325, 375-420).
THEOREM Lockout == ASSUME AuthorizationAssumption PROVE Spec => []LockoutHolds
  <1>1. Init => LockInv
    BY InitLockInv DEF Init
  <1>2. LockInv /\ [Next]_securityVars => LockInv'
    BY NextKeepsLock
  <1>3. LockInv => LockoutHolds
    BY DEF LockInv, LockoutHolds
  <1>4. QED
    BY <1>1, <1>2, <1>3, PTL DEF Spec

-----------------------------------------------------------------------------
\* Whether one of the records gives the privilege to the user for that scope.
Gives(rs, u, s, p) ==
    \E i \in 1..Len(rs) : rs[i].user = u /\ rs[i].scope = s /\ p \in rs[i].privs

\* A second record of a user for a scope would survive the revocation of the first.
OneRecordEach(rs) ==
    \A i, j \in 1..Len(rs) : rs[i].user = rs[j].user /\ rs[i].scope = rs[j].scope => i = j

\* A scope of a user that no call without a name can have touched by mistake.
Kept(u, s) == <<u, s.level>> \notin strayed

\* The records give exactly what was granted and not revoked since.  That a user
\* has one record for a scope holds of all scopes: a call that strays extends or
\* unlinks a record, and adds none.
GrantInv ==
    /\ privileges \in Seq(Record)
    /\ granted \subseteq User \X Scope \X Priv
    /\ strayed \subseteq User \X Level
    /\ OneRecordEach(privileges)
    /\ \A u \in User, s \in Scope, p \in Priv :
          Kept(u, s) => (<<u, s, p>> \in granted <=> Gives(privileges, u, s, p))

LEMMA LeastIndex ==
    ASSUME NEW T \in SUBSET Nat, T # {}
    PROVE  Min(T) \in T
  <1> DEFINE R == {ss \in Nat \X Nat : ss[1] < ss[2]}
  <1>1. IsWellFoundedOn(R, Nat)
    BY NatLessThanWellFounded DEF OpToRel
  <1> HIDE DEF R
  <1>2. PICK x \in T : \A y \in T : <<y, x>> \notin R
    BY <1>1, WFMin
  <1>3. \A y \in T : ~(y < x)
    BY <1>2 DEF R
  <1>4. \A y \in T : x <= y
    BY <1>3
  <1>5. QED
    BY <1>4 DEF Min

\* The search ends at a record that matches, and does not miss one of the scope.
LEMMA FirstFinds ==
    ASSUME GrantInv, NEW u \in User, NEW s \in Scope
    PROVE  \/ /\ First(u, s) \in 1..Len(privileges)
              /\ privileges[First(u, s)].user = u
              /\ privileges[First(u, s)].scope.level = s.level
              /\ s.name = NoName \/ privileges[First(u, s)].scope.name \in {NoName, s.name}
           \/ /\ First(u, s) = 0
              /\ \A i \in 1..Len(privileges) :
                    ~(privileges[i].user = u /\ privileges[i].scope = s)
  <1> DEFINE I == {i \in 1..Len(privileges) :
                      /\ privileges[i].user = u /\ privileges[i].scope.level = s.level
                      /\ s.name = NoName \/ privileges[i].scope.name \in {NoName, s.name}}
  <1>1. First(u, s) = IF I # {} THEN Min(I) ELSE 0
    BY DEF First, SelectInSeq
  <1>2. I \in SUBSET Nat
    BY DEF GrantInv
  <1>3. CASE I # {}
    <2>1. Min(I) \in I
      BY <1>2, <1>3, LeastIndex
    <2>2. QED
      BY <1>1, <1>3, <2>1
  <1>4. CASE I = {}
    BY <1>1, <1>4
  <1>5. QED
    BY <1>3, <1>4

\* The record a call takes is that of the scope, or the call strays.
LEMMA FoundIsTheirs ==
    ASSUME AuthorizationAssumption, GrantInv, NEW u \in User, NEW s \in Scope,
           First(u, s) # 0, Comparable(u, s), strayed' = strayed \cup Stray(u, s)
    PROVE  /\ First(u, s) \in 1..Len(privileges)
           /\ privileges[First(u, s)] \in Record
           /\ privileges[First(u, s)].user = u
           /\ privileges[First(u, s)].scope.level = s.level
           /\ privileges[First(u, s)].scope = s \/ <<u, s.level>> \in strayed'
           /\ strayed' \subseteq User \X Level
  <1> DEFINE i == First(u, s)
             t == privileges[i].scope
  <1>1. /\ i \in 1..Len(privileges) /\ privileges[i].user = u /\ t.level = s.level
        /\ s.name = NoName \/ t.name \in {NoName, s.name}
    BY FirstFinds
  <1>2. s.name # NoName => t.name # NoName
    BY DEF Comparable
  <1>3. Stray(u, s) = IF s.name = NoName /\ t.name # NoName THEN {<<u, s.level>>} ELSE {}
    BY DEF Stray
  <1> HIDE DEF i
  <1>4. privileges[i] \in Record /\ t \in Scope
    <2>1. privileges \in Seq(Record)
      BY Zenon DEF GrantInv
    <2>2. privileges[i] \in Record
      BY <1>1, <2>1
    <2>3. \A g \in Record : g.scope \in Scope
      BY DEF Record
    <2> QED BY Zenon, <2>2, <2>3
  <1>5. t.name = s.name => t = s
    BY <1>1, <1>4 DEF AuthorizationAssumption
  <1>6. t = s \/ <<u, s.level>> \in strayed'
    BY <1>1, <1>2, <1>3, <1>5
  <1>7. strayed' \subseteq User \X Level
    BY <1>3 DEF GrantInv, AuthorizationAssumption
  <1>8. QED
    BY <1>1, <1>4, <1>6, <1>7 DEF i

\* Unlinking a record leaves the others, in their order.
LEMMA RemoveAtElements ==
    ASSUME NEW rs \in Seq(Record), NEW i \in 1..Len(rs)
    PROVE  /\ RemoveAt(rs, i) \in Seq(Record)
           /\ Len(RemoveAt(rs, i)) = Len(rs) - 1
           /\ \A j \in 1..(Len(rs) - 1) :
                 RemoveAt(rs, i)[j] = rs[IF j < i THEN j ELSE j + 1]
  <1> DEFINE a == SubSeq(rs, 1, i - 1)
             b == SubSeq(rs, i + 1, Len(rs))
  <1>1. /\ a \in Seq(Record) /\ Len(a) = i - 1
        /\ \A j \in 1..(i - 1) : a[j] = rs[j]
    OBVIOUS
  <1>2. /\ b \in Seq(Record) /\ Len(b) = Len(rs) - i
        /\ \A j \in 1..(Len(rs) - i) : b[j] = rs[i + j]
    OBVIOUS
  <1>3. RemoveAt(rs, i) = a \o b
    BY DEF RemoveAt
  <1> HIDE DEF a, b
  <1>4. /\ a \o b \in Seq(Record) /\ Len(a \o b) = Len(rs) - 1
        /\ \A j \in 1..(Len(rs) - 1) :
              (a \o b)[j] = IF j < i THEN a[j] ELSE b[j - (i - 1)]
    <2>1. Len(a \o b) = Len(a) + Len(b) /\ a \o b \in Seq(Record)
      <3>1. a \in Seq(Record) /\ b \in Seq(Record)
        BY <1>1, <1>2
      <3>2. QED
        BY <3>1
    <2>2. Len(a \o b) = Len(rs) - 1
      BY <1>1, <1>2, <2>1
    <2>3. ASSUME NEW j \in 1..(Len(a) + Len(b))
          PROVE  (a \o b)[j] = IF j <= Len(a) THEN a[j] ELSE b[j - Len(a)]
      BY <1>1, <1>2
    <2>4. ASSUME NEW j \in 1..(Len(rs) - 1)
          PROVE  (a \o b)[j] = IF j < i THEN a[j] ELSE b[j - (i - 1)]
      <3>1. j \in 1..(Len(a) + Len(b)) /\ (j <= Len(a) <=> j < i)
        BY <1>1, <1>2
      <3>2. QED
        BY <1>1, <2>3, <3>1
    <2>5. QED
      BY <2>1, <2>2, <2>4
  <1>5. ASSUME NEW j \in 1..(Len(rs) - 1)
        PROVE  (a \o b)[j] = rs[IF j < i THEN j ELSE j + 1]
    <2>1. CASE j < i
      BY <1>1, <1>4, <2>1
    <2>2. CASE ~(j < i)
      <3>1. j - (i - 1) \in 1..(Len(rs) - i) /\ i + (j - (i - 1)) = j + 1
        BY <2>2
      <3>2. QED
        BY <1>2, <1>4, <2>2, <3>1
    <2>3. QED
      BY <2>1, <2>2
  <1>6. QED
    BY <1>3, <1>4, <1>5

\* Changing the privileges of a record leaves its user and scope and the others.
Replaced(new, rs, i, qs) ==
    /\ new \in Seq(Record) /\ Len(new) = Len(rs)
    /\ \A j \in 1..Len(rs) :
          /\ new[j].user = rs[j].user /\ new[j].scope = rs[j].scope
          /\ new[j].privs = IF j = i THEN qs ELSE rs[j].privs

LEMMA ReplacePrivs ==
    ASSUME NEW rs \in Seq(Record), NEW i \in 1..Len(rs), NEW qs \in SUBSET Priv
    PROVE  Replaced([rs EXCEPT ![i].privs = qs], rs, i, qs)
  <1> DEFINE m == [rs[i] EXCEPT !.privs = qs]
             new == [rs EXCEPT ![i].privs = qs]
  <1>1. \A j \in 1..Len(rs) : rs[j] \in Record
    OBVIOUS
  <1>2. m \in Record /\ m.user = rs[i].user /\ m.scope = rs[i].scope /\ m.privs = qs
    BY <1>1 DEF Record
  <1>3. new = [rs EXCEPT ![i] = m]
    OBVIOUS
  <1> HIDE DEF m, new
  <1>4. /\ new \in Seq(Record) /\ Len(new) = Len(rs)
        /\ \A j \in 1..Len(rs) : new[j] = IF j = i THEN m ELSE rs[j]
    BY <1>2, <1>3
  <1>5. /\ new \in Seq(Record) /\ Len(new) = Len(rs)
        /\ \A j \in 1..Len(rs) :
              /\ new[j].user = rs[j].user /\ new[j].scope = rs[j].scope
              /\ new[j].privs = IF j = i THEN qs ELSE rs[j].privs
    BY <1>2, <1>4
  <1>6. QED
    BY <1>5 DEF new, Replaced

\* A grant extends the record there is, or puts a new one in front.
LEMMA GrantKeeps ==
    ASSUME AuthorizationAssumption, GrantInv,
           NEW u \in User, NEW s \in Scope, NEW ps \in SUBSET Priv, Grant(u, s, ps)
    PROVE  GrantInv'
  <1> DEFINE i == First(u, s)
  <1>0. strayed' = strayed \cup Stray(u, s) /\ Comparable(u, s)
    BY DEF Grant
  <1>1. granted' = granted \cup {<<u, s, p>> : p \in ps}
    BY DEF Grant
  <1>2. granted' \subseteq User \X Scope \X Priv
    BY <1>1 DEF GrantInv
  <1>3. ASSUME NEW v \in User, NEW t \in Scope, NEW p \in Priv
        PROVE  <<v, t, p>> \in granted' <=>
                  <<v, t, p>> \in granted \/ (v = u /\ t = s /\ p \in ps)
    BY <1>1
  <1>4. CASE i # 0
    <2>1. /\ i \in 1..Len(privileges) /\ privileges[i].user = u
          /\ privileges[i].scope.level = s.level
          /\ privileges[i].scope = s \/ <<u, s.level>> \in strayed'
          /\ strayed' \subseteq User \X Level
      BY <1>0, <1>4, FoundIsTheirs
    <2>2. privileges' = [privileges EXCEPT ![i].privs = @ \cup ps]
      BY <1>4 DEF Grant
    <2> HIDE DEF i
    <2>3. \A j \in 1..Len(privileges) : privileges[j] \in Record
      BY DEF GrantInv
    <2>4. /\ privileges' \in Seq(Record) /\ Len(privileges') = Len(privileges)
          /\ \A j \in 1..Len(privileges) :
                /\ privileges'[j].user = privileges[j].user
                /\ privileges'[j].scope = privileges[j].scope
                /\ privileges'[j].privs = IF j = i THEN privileges[i].privs \cup ps
                                          ELSE privileges[j].privs
      <3> DEFINE qs == privileges[i].privs \cup ps
      <3>1. qs \in SUBSET Priv /\ privileges \in Seq(Record)
        BY <2>1, <2>3 DEF GrantInv, Record
      <3>2. privileges' = [privileges EXCEPT ![i].privs = qs]
        BY <2>2
      <3> HIDE DEF qs
      <3>3. /\ privileges' \in Seq(Record) /\ Len(privileges') = Len(privileges)
            /\ \A j \in 1..Len(privileges) :
                  /\ privileges'[j].user = privileges[j].user
                  /\ privileges'[j].scope = privileges[j].scope
                  /\ privileges'[j].privs = IF j = i THEN qs ELSE privileges[j].privs
        <4> DEFINE new == [privileges EXCEPT ![i].privs = qs]
        <4>1. Replaced(new, privileges, i, qs)
          BY <2>1, <3>1, ReplacePrivs
        <4>2. privileges' = new
          BY <3>2
        <4> HIDE DEF new
        <4>3. QED
          BY <4>1, <4>2 DEF Replaced
      <3>4. QED
        BY <3>3 DEF qs
    <2>5. OneRecordEach(privileges')
      BY <2>4 DEF GrantInv, OneRecordEach
    <2>6. ASSUME NEW v \in User, NEW t \in Scope, NEW p \in Priv, <<v, t.level>> \notin strayed'
          PROVE  Gives(privileges', v, t, p) <=>
                    Gives(privileges, v, t, p) \/ (v = u /\ t = s /\ p \in ps)
      <3>1. CASE privileges[i].scope = s
        BY <2>1, <2>4, <3>1 DEF Gives
      <3>2. CASE privileges[i].scope # s
        <4>1. ~(v = u /\ t.level = s.level)
          BY <2>1, <2>6, <3>2
        <4>2. ~(privileges[i].user = v /\ privileges[i].scope = t)
          BY <2>1, <4>1
        <4>3. ~(v = u /\ t = s)
          BY <4>1
        <4>4. QED
          BY <2>4, <4>2, <4>3 DEF Gives
      <3>3. QED
        BY <3>1, <3>2
    <2>7. QED
      <3>1. \A v \in User, t \in Scope, p \in Priv :
               Kept(v, t)' => (<<v, t, p>> \in granted' <=> Gives(privileges', v, t, p))
        <4>1. SUFFICES ASSUME NEW v \in User, NEW t \in Scope, NEW p \in Priv,
                              <<v, t.level>> \notin strayed'
                       PROVE  <<v, t, p>> \in granted' <=> Gives(privileges', v, t, p)
          BY DEF Kept
        <4>2. <<v, t, p>> \in granted <=> Gives(privileges, v, t, p)
          BY <1>0, <4>1 DEF GrantInv, Kept
        <4>3. QED
          BY <1>3, <2>6, <4>1, <4>2
      <3>2. QED
        BY <1>2, <2>1, <2>4, <2>5, <3>1 DEF GrantInv
  <1>5. CASE i = 0
    <2> DEFINE new == [user |-> u, scope |-> s, privs |-> ps]
    <2>1. \A j \in 1..Len(privileges) : ~(privileges[j].user = u /\ privileges[j].scope = s)
      BY <1>5, FirstFinds
    <2>2. privileges' = <<new>> \o privileges
      BY <1>5 DEF Grant
    <2>3. new \in Record /\ new.user = u /\ new.scope = s /\ new.privs = ps
      BY DEF Record
    <2>0. strayed' = strayed
      BY <1>0, <1>5 DEF Stray
    <2> HIDE DEF new, i
    <2>4. /\ privileges' \in Seq(Record) /\ Len(privileges') = Len(privileges) + 1
          /\ privileges'[1] = new
          /\ \A j \in 1..Len(privileges) : privileges'[j + 1] = privileges[j]
      BY <2>2, <2>3 DEF GrantInv
    <2>5. \A j \in 1..Len(privileges') : j = 1 \/ (j - 1 \in 1..Len(privileges)
                                                 /\ privileges'[j] = privileges[j - 1])
      <3>1. Len(privileges) \in Nat
        BY DEF GrantInv
      <3>2. SUFFICES ASSUME NEW j \in 1..Len(privileges'), j # 1
                     PROVE  j - 1 \in 1..Len(privileges) /\ privileges'[j] = privileges[j - 1]
        OBVIOUS
      <3>3. j - 1 \in 1..Len(privileges) /\ (j - 1) + 1 = j
        BY <2>4, <3>1, <3>2
      <3>4. QED
        BY <2>4, <3>3
    <2>6. OneRecordEach(privileges')
      <3>1. SUFFICES ASSUME NEW j \in 1..Len(privileges'), NEW k \in 1..Len(privileges'),
                            privileges'[j].user = privileges'[k].user,
                            privileges'[j].scope = privileges'[k].scope
                     PROVE  j = k
        BY DEF OneRecordEach
      <3>2. CASE j = 1 /\ k = 1
        BY <3>2
      <3>3. CASE j = 1 /\ k # 1
        BY <2>1, <2>3, <2>4, <2>5, <3>1, <3>3
      <3>4. CASE j # 1 /\ k = 1
        BY <2>1, <2>3, <2>4, <2>5, <3>1, <3>4
      <3>5. CASE j # 1 /\ k # 1
        <4>1. /\ j - 1 \in 1..Len(privileges) /\ k - 1 \in 1..Len(privileges)
              /\ privileges'[j] = privileges[j - 1] /\ privileges'[k] = privileges[k - 1]
          BY <2>5, <3>5
        <4>2. /\ privileges[j - 1].user = privileges[k - 1].user
              /\ privileges[j - 1].scope = privileges[k - 1].scope
          BY <3>1, <4>1
        <4>3. j - 1 = k - 1
          BY <4>1, <4>2 DEF GrantInv, OneRecordEach
        <4>4. j \in Int /\ k \in Int
          OBVIOUS
        <4>5. QED
          BY <4>3, <4>4
      <3>6. QED
        BY <3>2, <3>3, <3>4, <3>5
    <2>7. ASSUME NEW v \in User, NEW t \in Scope, NEW p \in Priv
          PROVE  Gives(privileges', v, t, p) <=>
                    Gives(privileges, v, t, p) \/ (v = u /\ t = s /\ p \in ps)
      <3>1. Len(privileges) \in Nat
        BY DEF GrantInv
      <3>2. ASSUME Gives(privileges, v, t, p) PROVE Gives(privileges', v, t, p)
        <4>1. PICK j \in 1..Len(privileges) :
                 privileges[j].user = v /\ privileges[j].scope = t /\ p \in privileges[j].privs
          BY <3>2 DEF Gives
        <4>2. j + 1 \in 1..Len(privileges') /\ privileges'[j + 1] = privileges[j]
          BY <2>4, <3>1
        <4>3. QED
          BY <4>1, <4>2 DEF Gives
      <3>3. ASSUME v = u, t = s, p \in ps PROVE Gives(privileges', v, t, p)
        <4>1. 1 \in 1..Len(privileges')
          BY <2>4, <3>1
        <4>2. QED
          BY <2>3, <2>4, <3>3, <4>1 DEF Gives
      <3>4. ASSUME Gives(privileges', v, t, p)
            PROVE  Gives(privileges, v, t, p) \/ (v = u /\ t = s /\ p \in ps)
        BY <2>3, <2>4, <2>5, <3>4 DEF Gives
      <3>5. QED
        BY <3>2, <3>3, <3>4
    <2>8. \A v \in User, t \in Scope, p \in Priv :
             Kept(v, t)' => (<<v, t, p>> \in granted' <=> Gives(privileges', v, t, p))
      BY <1>3, <2>0, <2>7 DEF GrantInv, Kept
    <2>9. QED
      BY <1>2, <2>0, <2>4, <2>6, <2>8 DEF GrantInv
  <1>6. QED
    BY <1>4, <1>5

\* A revocation reduces the only record of the user for the scope, or unlinks it.
LEMMA RevokeKeeps ==
    ASSUME AuthorizationAssumption, GrantInv,
           NEW u \in User, NEW s \in Scope, NEW ps \in SUBSET Priv, Revoke(u, s, ps)
    PROVE  GrantInv'
  <1> DEFINE i == First(u, s)
             n == Len(privileges)
             c == privileges[i].scope
  <1>0. strayed' = strayed \cup Stray(u, s) /\ Comparable(u, s) /\ First(u, s) # 0
    BY DEF Revoke
  <1>1. /\ i \in 1..n /\ privileges[i].user = u /\ c.level = s.level
        /\ c = s \/ <<u, s.level>> \in strayed'
        /\ strayed' \subseteq User \X Level
    BY <1>0, FoundIsTheirs
  <1>2. granted' = granted \ {<<u, s, p>> : p \in ps}
    BY DEF Revoke
  <1>3. granted' \subseteq User \X Scope \X Priv
    BY <1>2 DEF GrantInv
  <1>4. ASSUME NEW v \in User, NEW t \in Scope, NEW p \in Priv
        PROVE  <<v, t, p>> \in granted' <=>
                  <<v, t, p>> \in granted /\ ~(v = u /\ t = s /\ p \in ps)
    BY <1>2
  <1>5. \A j \in 1..n : privileges[j] \in Record
    BY DEF GrantInv
  <1>6. \A j \in 1..n : privileges[j].user = u /\ privileges[j].scope = c => j = i
    BY <1>1 DEF GrantInv, OneRecordEach
  <1>7. privileges' = IF privileges[i].privs \subseteq ps THEN RemoveAt(privileges, i)
                      ELSE [privileges EXCEPT ![i].privs = @ \ ps]
    BY DEF Revoke
  <1>8. n \in Nat /\ privileges \in Seq(Record)
    BY DEF GrantInv
  <1> HIDE DEF i
  <1>w. ASSUME NEW v \in User, NEW t \in Scope, <<v, t.level>> \notin strayed'
        PROVE  (v = u /\ t = s) <=> (v = u /\ t = c)
    BY <1>1, <1>w
  <1>k. ASSUME \A v \in User, t \in Scope, p \in Priv :
                  Gives(privileges', v, t, p) <=>
                     Gives(privileges, v, t, p) /\ ~(v = u /\ t = c /\ p \in ps)
        PROVE  \A v \in User, t \in Scope, p \in Priv :
                  Kept(v, t)' => (<<v, t, p>> \in granted' <=> Gives(privileges', v, t, p))
    <2>1. SUFFICES ASSUME NEW v \in User, NEW t \in Scope, NEW p \in Priv,
                          <<v, t.level>> \notin strayed'
                   PROVE  <<v, t, p>> \in granted' <=> Gives(privileges', v, t, p)
      BY DEF Kept
    <2>2. <<v, t, p>> \in granted <=> Gives(privileges, v, t, p)
      BY <1>0, <2>1 DEF GrantInv, Kept
    <2>3. (v = u /\ t = s) <=> (v = u /\ t = c)
      BY <1>w, <2>1
    <2> HIDE DEF c
    <2>4. QED
      BY <1>4, <1>k, <2>2, <2>3
  <1>9. CASE privileges[i].privs \subseteq ps
    <2> DEFINE old(j) == IF j < i THEN j ELSE j + 1
    <2>1. privileges' = RemoveAt(privileges, i)
      BY <1>7, <1>9
    <2>2. /\ privileges' \in Seq(Record) /\ Len(privileges') = n - 1
          /\ \A j \in 1..(n - 1) : privileges'[j] = privileges[old(j)]
      BY <1>1, <1>8, <2>1, RemoveAtElements
    <2> HIDE DEF n
    <2>3. \A j \in 1..(n - 1) : old(j) \in 1..n /\ old(j) # i
      BY <1>1, <1>8
    <2>4. \A j, k \in 1..(n - 1) : old(j) = old(k) => j = k
      BY <1>1, <1>8
    <2>5. \A m \in 1..n : m # i => \E j \in 1..(n - 1) : old(j) = m
      <3>1. SUFFICES ASSUME NEW m \in 1..n, m # i
                     PROVE  \E j \in 1..(n - 1) : old(j) = m
        OBVIOUS
      <3>2. CASE m < i
        BY <1>1, <1>8, <3>2
      <3>3. CASE m > i
        <4>1. m - 1 \in 1..(n - 1) /\ old(m - 1) = m
          BY <1>1, <1>8, <3>3
        <4>2. QED
          BY <4>1
      <3>4. QED
        BY <1>1, <1>8, <3>1, <3>2, <3>3
    <2> HIDE DEF old
    <2>6. OneRecordEach(privileges')
      <3>1. \A j, k \in 1..n : /\ privileges[j].user = privileges[k].user
                              /\ privileges[j].scope = privileges[k].scope
                              => j = k
        BY DEF GrantInv, OneRecordEach, n
      <3>2. SUFFICES ASSUME NEW j \in 1..(n - 1), NEW k \in 1..(n - 1),
                            privileges'[j].user = privileges'[k].user,
                            privileges'[j].scope = privileges'[k].scope
                     PROVE  j = k
        BY <2>2 DEF OneRecordEach
      <3>3. old(j) = old(k)
        BY <2>2, <2>3, <3>1, <3>2
      <3>4. QED
        BY <2>4, <3>3
    <2>7. ASSUME NEW v \in User, NEW t \in Scope, NEW p \in Priv
          PROVE  Gives(privileges', v, t, p) <=>
                    Gives(privileges, v, t, p) /\ ~(v = u /\ t = c /\ p \in ps)
      <3>1. ASSUME Gives(privileges', v, t, p)
            PROVE  Gives(privileges, v, t, p) /\ ~(v = u /\ t = c)
        <4>1. PICK j \in 1..(n - 1) :
                 privileges'[j].user = v /\ privileges'[j].scope = t /\ p \in privileges'[j].privs
          BY <2>2, <3>1 DEF Gives
        <4>2. /\ old(j) \in 1..n /\ old(j) # i
              /\ privileges[old(j)].user = v /\ privileges[old(j)].scope = t
              /\ p \in privileges[old(j)].privs
          BY <2>2, <2>3, <4>1
        <4>3. QED
          BY <1>6, <4>2 DEF Gives, n
      <3>2. ASSUME Gives(privileges, v, t, p), ~(v = u /\ t = c /\ p \in ps)
            PROVE  Gives(privileges', v, t, p)
        <4>1. PICK m \in 1..n :
                 privileges[m].user = v /\ privileges[m].scope = t /\ p \in privileges[m].privs
          BY <3>2 DEF Gives, n
        <4>2. m # i
          BY <1>1, <1>9, <3>2, <4>1
        <4>3. PICK j \in 1..(n - 1) : old(j) = m
          BY <2>5, <4>2
        <4>4. QED
          BY <2>2, <4>1, <4>3 DEF Gives
      <3>3. QED
        BY <3>1, <3>2
    <2>8. \A v \in User, t \in Scope, p \in Priv :
             Kept(v, t)' => (<<v, t, p>> \in granted' <=> Gives(privileges', v, t, p))
      BY <1>k, <2>7
    <2>9. QED
      BY <1>1, <1>3, <2>2, <2>6, <2>8 DEF GrantInv
  <1>10. CASE ~(privileges[i].privs \subseteq ps)
    <2>1. privileges' = [privileges EXCEPT ![i].privs = @ \ ps]
      BY <1>7, <1>10
    <2>2. /\ privileges' \in Seq(Record) /\ Len(privileges') = n
          /\ \A j \in 1..n :
                /\ privileges'[j].user = privileges[j].user
                /\ privileges'[j].scope = privileges[j].scope
                /\ privileges'[j].privs = IF j = i THEN privileges[i].privs \ ps
                                          ELSE privileges[j].privs
      <3> DEFINE qs == privileges[i].privs \ ps
      <3>1. qs \in SUBSET Priv
        BY <1>1, <1>5 DEF Record
      <3>2. privileges' = [privileges EXCEPT ![i].privs = qs]
        BY <2>1
      <3> HIDE DEF qs
      <3>3. /\ privileges' \in Seq(Record) /\ Len(privileges') = n
            /\ \A j \in 1..n :
                  /\ privileges'[j].user = privileges[j].user
                  /\ privileges'[j].scope = privileges[j].scope
                  /\ privileges'[j].privs = IF j = i THEN qs ELSE privileges[j].privs
        <4> DEFINE new == [privileges EXCEPT ![i].privs = qs]
        <4>1. Replaced(new, privileges, i, qs)
          BY <1>1, <1>8, <3>1, ReplacePrivs
        <4>2. privileges' = new
          BY <3>2
        <4> HIDE DEF new
        <4>3. QED
          BY <4>1, <4>2 DEF Replaced
      <3>4. QED
        BY <3>3 DEF qs
    <2>3. OneRecordEach(privileges')
      BY <2>2 DEF GrantInv, OneRecordEach
    <2>4. ASSUME NEW v \in User, NEW t \in Scope, NEW p \in Priv
          PROVE  Gives(privileges', v, t, p) <=>
                    Gives(privileges, v, t, p) /\ ~(v = u /\ t = c /\ p \in ps)
      <3>1. Gives(privileges', v, t, p) <=>
               \E j \in 1..n : /\ privileges[j].user = v /\ privileges[j].scope = t
                               /\ p \in privileges'[j].privs
        BY <2>2 DEF Gives
      <3>2. QED
        BY <1>1, <1>6, <2>2, <3>1 DEF Gives
    <2>5. \A v \in User, t \in Scope, p \in Priv :
             Kept(v, t)' => (<<v, t, p>> \in granted' <=> Gives(privileges', v, t, p))
      BY <1>k, <2>4
    <2>6. QED
      BY <1>1, <1>3, <2>2, <2>3, <2>5 DEF GrantInv
  <1>11. QED
    BY <1>9, <1>10

\* One record for each scope, that gives what was granted.
LEMMA GrantsKeptSo ==
    ASSUME GrantInv
    PROVE  GrantsKept
  <1> SUFFICES ASSUME NEW u \in User, NEW s \in Scope, <<u, s.level>> \notin strayed
               PROVE  LET at == {i \in DOMAIN privileges : privileges[i].user = u
                                                          /\ privileges[i].scope = s}
                      IN  /\ \A i, j \in at : i = j
                          /\ {p \in Priv : <<u, s, p>> \in granted}
                                = UNION {privileges[i].privs : i \in at}
    BY DEF GrantsKept
  <1> DEFINE at == {i \in DOMAIN privileges : privileges[i].user = u /\ privileges[i].scope = s}
  <1>1. DOMAIN privileges = 1..Len(privileges)
    BY DEF GrantInv
  <1>2. \A i, j \in at : i = j
    BY <1>1 DEF GrantInv, OneRecordEach
  <1>3. \A i \in at : privileges[i].privs \subseteq Priv
    <2>1. privileges \in Seq(Record)
      BY Zenon DEF GrantInv
    <2>2. \A i \in 1..Len(privileges) : privileges[i] \in Record
      BY <2>1
    <2>3. \A g \in Record : g.privs \subseteq Priv
      BY DEF Record
    <2> QED BY Zenon, <1>1, <2>2, <2>3
  <1>4. ASSUME NEW p \in Priv
        PROVE  <<u, s, p>> \in granted <=> \E i \in at : p \in privileges[i].privs
    <2>1. <<u, s, p>> \in granted <=> Gives(privileges, u, s, p)
      BY DEF GrantInv, Kept
    <2>2. QED
      BY <1>1, <2>1 DEF Gives
  <1>5. {p \in Priv : <<u, s, p>> \in granted} = UNION {privileges[i].privs : i \in at}
    BY <1>3, <1>4
  <1>6. QED
    BY <1>2, <1>5

\* The roles and who has them are what they should be.
RolesTyped ==
    /\ DOMAIN roles \subseteq Role /\ \A r \in DOMAIN roles : roles[r] \subseteq Priv
    /\ userRoles \subseteq User \X Role

\* No record, no grant and no role at first.
LEMMA InitGrants ==
    ASSUME Init
    PROVE  GrantInv /\ RolesTyped
  BY DEF Init, GrantInv, OneRecordEach, Gives, RolesTyped

\* Only grants and revocations touch the records.
LEMMA NextKeepsGrants ==
    ASSUME AuthorizationAssumption, GrantInv, [Next]_securityVars
    PROVE  GrantInv'
  <1>1. ASSUME UNCHANGED <<privileges, granted, strayed>> PROVE GrantInv'
    BY <1>1 DEF GrantInv, OneRecordEach, Gives, Kept
  <1>2. CASE UNCHANGED authzVars \/ UNCHANGED securityVars
    BY <1>1, <1>2 DEF authzVars, securityVars
  <1>3. CASE AuthzNext
    <2>1. CASE \E r \in Role :
                  \/ \E ps \in SUBSET Priv : CreateRole(r, ps) \/ ChangeRole(r, ps)
                  \/ DropRole(r)
                  \/ \E u \in User : GrantRole(u, r) \/ RevokeRole(u, r)
      BY <1>1, <2>1 DEF CreateRole, ChangeRole, DropRole, GrantRole, RevokeRole
    <2>2. ASSUME NEW u \in User, NEW s \in Scope, NEW ps \in SUBSET Priv,
                 Grant(u, s, ps) \/ Revoke(u, s, ps)
          PROVE  GrantInv'
      BY <2>2, GrantKeeps, RevokeKeeps
    <2>3. QED
      BY <1>3, <2>1, <2>2 DEF AuthzNext
  <1>4. QED
    BY <1>2, <1>3 DEF Next

\* Roles are created and dropped, and given to users, from what there is.
LEMMA NextKeepsRoles ==
    ASSUME RolesTyped, [Next]_securityVars
    PROVE  RolesTyped'
  <1>1. ASSUME UNCHANGED <<roles, userRoles>> PROVE RolesTyped'
    BY <1>1 DEF RolesTyped
  <1>2. CASE UNCHANGED authzVars \/ UNCHANGED securityVars
    BY <1>1, <1>2 DEF authzVars, securityVars
  <1>3. CASE AuthzNext
    <2>1. ASSUME NEW r \in Role, NEW ps \in SUBSET Priv, CreateRole(r, ps) \/ ChangeRole(r, ps)
          PROVE  RolesTyped'
      BY <2>1 DEF CreateRole, ChangeRole, RolesTyped
    <2>2. ASSUME NEW r \in Role, DropRole(r) PROVE RolesTyped'
      BY <2>2 DEF DropRole, RolesTyped
    <2>3. ASSUME NEW r \in Role, NEW u \in User, GrantRole(u, r) \/ RevokeRole(u, r)
          PROVE  RolesTyped'
      BY <2>3 DEF GrantRole, RevokeRole, RolesTyped
    <2>4. ASSUME NEW u \in User, NEW s \in Scope, NEW ps \in SUBSET Priv,
                 Grant(u, s, ps) \/ Revoke(u, s, ps)
          PROVE  RolesTyped'
      BY <1>1, <2>4 DEF Grant, Revoke
    <2>5. QED
      BY <1>3, <2>1, <2>2, <2>3, <2>4 DEF AuthzNext
  <1>4. QED
    BY <1>2, <1>3 DEF Next

\* Unless a call without a name strayed to the record of a name, a user's name has
\* at most one record for each scope, with what was granted to it and not revoked
\* since (authorization.c:262-347).
THEOREM Grants == ASSUME AuthorizationAssumption PROVE Spec => []GrantsKept
  <1>1. Init => GrantInv
    BY InitGrants
  <1>2. GrantInv /\ [Next]_securityVars => GrantInv'
    BY NextKeepsGrants
  <1>3. GrantInv => GrantsKept
    BY GrantsKeptSo
  <1>4. QED
    BY <1>1, <1>2, <1>3, PTL DEF Spec

(* The memory pool.                                                         *)
\* The blocks handed out end before the offset, so that the next begins after them.
PoolInv == PoolTypeOK /\ PoolSound

\* A request gets at least what was asked.
LEMMA TakenEnough ==
    ASSUME PoolAssumption, NEW asked \in Requests
    PROVE  Taken(asked) \in Nat \ {0} /\ asked <= Taken(asked) /\ asked \in Nat \ {0}
  <1> DEFINE fits == {b \in BlockSizes : asked <= b}
  <1>1. asked \in Nat \ {0} /\ BlockSizes \subseteq Nat \ {0}
    BY DEF PoolAssumption
  <1>2. CASE fits = {}
    BY <1>1, <1>2 DEF Taken
  <1>3. CASE fits # {}
    <2>1. \E b \in fits : \A c \in fits : b <= c
      BY <1>1, <1>3, LeastNumber
    <2>2. (CHOOSE b \in fits : \A c \in fits : b <= c) \in fits
      BY <2>1
    <2>3. Taken(asked) \in fits
      BY <1>3, <2>2 DEF Taken
    <2>4. QED
      BY <1>1, <2>3
  <1>4. QED
    BY <1>2, <1>3

\* What the new size of the region is makes room for the block.
LEMMA EnlargedEnough ==
    ASSUME PoolInv, NEW len \in Nat \ {0}
    PROVE  /\ Enlarged(len) \in Nat /\ Enlarged(len) >= offset + len
           /\ Enlarged(len) >= size
  BY DEF PoolInv, PoolSound, PoolTypeOK, BlocksAreDisjoint, Enlarged

\* A block handed out at the offset overlaps none.
LEMMA HandKeepsApart ==
    ASSUME PoolAssumption, PoolInv, NEW asked \in Requests, Hand(asked, Taken(asked)),
           size' \in Nat, size' >= offset + Taken(asked)
    PROVE  BlocksAreDisjoint' /\ blocks' \subseteq Block /\ offset' \in Nat
  <1> DEFINE new == [from |-> offset, len |-> Taken(asked), asked |-> asked]
  <1>1. /\ Taken(asked) \in Nat \ {0} /\ asked <= Taken(asked) /\ asked \in Nat \ {0}
        /\ offset \in Nat /\ blocks \subseteq Block
    BY TakenEnough DEF PoolInv, PoolTypeOK
  <1>2. blocks' = blocks \cup {new} /\ offset' = offset + Taken(asked)
    BY DEF Hand
  <1>3. new \in Block
    BY <1>1 DEF Block
  <1>4. \A b \in blocks : b.asked <= b.len /\ b.from + b.len <= offset
        /\ b.from \in Nat /\ b.len \in Nat
    BY <1>1 DEF PoolInv, PoolSound, BlocksAreDisjoint, Block
  <1>5. \A b \in blocks' : b.asked <= b.len /\ b.from + b.len <= offset'
    BY <1>1, <1>2, <1>4
  <1>6. ASSUME NEW b \in blocks', NEW c \in blocks'
        PROVE  b = c \/ b.from + b.len <= c.from \/ c.from + c.len <= b.from
    <2>1. CASE b \in blocks /\ c \in blocks
      BY <2>1 DEF PoolInv, PoolSound, BlocksAreDisjoint
    <2>2. CASE b \in blocks /\ c = new
      BY <1>4, <2>2
    <2>3. CASE b = new /\ c \in blocks
      BY <1>4, <2>3
    <2>4. CASE b = new /\ c = new
      BY <2>4
    <2>5. QED
      BY <1>2, <2>1, <2>2, <2>3, <2>4
  <1>7. QED
    BY <1>1, <1>2, <1>3, <1>5, <1>6 DEF BlocksAreDisjoint

\* Every allocation, also one that fails midway, keeps the invariant.
LEMMA NextKeepsPool ==
    ASSUME PoolAssumption, PoolInv, [PoolNext]_poolVars
    PROVE  PoolInv'
  <1>1. /\ size \in Nat /\ offset \in Nat /\ used \in Nat /\ free \in Int
        /\ used + free = size /\ used = offset /\ free >= 0 /\ offset <= size
    BY DEF PoolInv, PoolTypeOK, PoolSound, StatisticsAddUp, BlocksAreDisjoint
  <1>2. ASSUME NEW asked \in Requests, AllocInRegion(asked)
        PROVE  PoolInv'
    <2>1. /\ Taken(asked) \in Nat \ {0} /\ Hand(asked, Taken(asked))
          /\ free' = free - Taken(asked) /\ size' = size
          /\ used' = used + Taken(asked) /\ offset' = offset + Taken(asked)
          /\ offset + Taken(asked) <= size
      BY <1>2, TakenEnough DEF AllocInRegion, Hand
    <2>2. BlocksAreDisjoint' /\ blocks' \subseteq Block
      BY <1>1, <2>1, HandKeepsApart
    <2>3. QED
      BY <1>1, <2>1, <2>2 DEF PoolInv, PoolTypeOK, PoolSound, StatisticsAddUp
  <1>3. ASSUME NEW asked \in Requests, AllocEnlarging(asked)
        PROVE  PoolInv'
    <2>1. /\ Taken(asked) \in Nat \ {0} /\ Hand(asked, Taken(asked))
          /\ size' = Enlarged(Taken(asked)) /\ free' = Enlarged(Taken(asked)) - used - Taken(asked)
          /\ used' = used + Taken(asked) /\ offset' = offset + Taken(asked)
      BY <1>3, TakenEnough DEF AllocEnlarging, Hand
    <2>2. Enlarged(Taken(asked)) \in Nat /\ Enlarged(Taken(asked)) >= offset + Taken(asked)
      BY <2>1, EnlargedEnough
    <2>3. BlocksAreDisjoint' /\ blocks' \subseteq Block
      BY <2>1, <2>2, HandKeepsApart
    <2>4. QED
      BY <1>1, <2>1, <2>2, <2>3 DEF PoolInv, PoolTypeOK, PoolSound, StatisticsAddUp
  <1>4. ASSUME NEW asked \in Requests, AllocHalfway(asked)
        PROVE  PoolInv'
    <2>1. /\ Taken(asked) \in Nat \ {0}
          /\ size' = Enlarged(Taken(asked)) /\ free' = Enlarged(Taken(asked)) - used
          /\ UNCHANGED <<offset, used, blocks>>
      BY <1>4, TakenEnough DEF AllocHalfway
    <2>2. Enlarged(Taken(asked)) \in Nat /\ Enlarged(Taken(asked)) >= size
      BY <2>1, EnlargedEnough
    <2>3. BlocksAreDisjoint'
      BY <1>1, <2>1, <2>2 DEF PoolInv, PoolSound, BlocksAreDisjoint
    <2>4. QED
      BY <1>1, <2>1, <2>2, <2>3 DEF PoolInv, PoolTypeOK, PoolSound, StatisticsAddUp
  <1>5. CASE UNCHANGED poolVars
    BY <1>5 DEF poolVars, PoolInv, PoolTypeOK, PoolSound, StatisticsAddUp, BlocksAreDisjoint
  <1>6. QED
    BY <1>2, <1>3, <1>4, <1>5 DEF PoolNext

\* Memory that is handed out lies in the region and overlaps nothing handed out
\* before, and the statistics add up to the region (memory_pool.c:70-170).
THEOREM PoolIsSound ==
    ASSUME PoolAssumption
    PROVE  PoolSpec => []PoolSound
  <1>1. PoolInit => PoolInv
    BY DEF PoolAssumption, PoolInit, PoolInv, PoolTypeOK, PoolSound,
           StatisticsAddUp, BlocksAreDisjoint
  <1>2. PoolInv /\ [PoolNext]_poolVars => PoolInv'
    BY NextKeepsPool
  <1>3. PoolInv => PoolSound
    BY DEF PoolInv
  <1>4. QED
    BY <1>1, <1>2, <1>3, PTL DEF PoolSpec

-----------------------------------------------------------------------------
(* The network server.                                                      *)
\* A client's present session is later than all it has had: a new one is no other's.
SessionsPast ==
    /\ \A p \in pending : p[2] < session[p[1]]
    /\ \A c \in conns : c.peer[2] < session[c.peer[1]]

\* No connection outlives its server.
NoneWithout == ~exists => conns = {}

\* The inductive invariant of the network server.
NetworkInv == NetworkTypeOK /\ SocketsAccounted /\ SessionsPast /\ NoneWithout

\* No connection, no socket, and no session at first.
LEMMA InitNetworkInv ==
    ASSUME NetworkAssumption
    PROVE  NetworkInit => NetworkInv
  <1> SUFFICES ASSUME NetworkInit PROVE NetworkInv
    OBVIOUS
  <1>1. Cardinality({}) = 0 /\ IsFiniteSet({})
    BY FS_EmptySet
  <1>2. NetworkTypeOK
    <2>1. IsFiniteSet(conns)
      BY <1>1 DEF NetworkInit
    <2>2. session \in [Client -> Nat] /\ connected \subseteq Client
      BY DEF NetworkInit
    <2>3. open \subseteq Fd /\ pending \subseteq Session /\ conns \subseteq Connection
      BY DEF NetworkInit
    <2>4. bound \in Fd \cup {None} /\ listen \in Fd \cup {None} /\ count \in Int
      BY DEF NetworkInit
    <2>5. exists \in BOOLEAN /\ running \in BOOLEAN
      BY DEF NetworkInit
    <2>6. QED
      BY <2>1, <2>2, <2>3, <2>4, <2>5 DEF NetworkTypeOK
  <1>3. CountedExactly
    BY <1>1 DEF NetworkInit, CountedExactly, NetworkAssumption
  <1>4. Sockets = {}
    BY DEF NetworkInit, Sockets
  <1>5. DescriptorsKnown
    <2>1. open = Sockets \cup ({bound} \ {None})
      BY <1>4 DEF NetworkInit
    <2>2. conns = {} /\ bound \notin Sockets /\ listen \in {bound, None}
      BY <1>4 DEF NetworkInit
    <2>3. QED
      BY <2>1, <2>2 DEF DescriptorsKnown
  <1>6. SessionsApart /\ SessionsPast /\ NoneWithout
    BY DEF NetworkInit, SessionsApart, SessionsPast, NoneWithout
  <1>7. QED
    BY <1>2, <1>3, <1>5, <1>6 DEF NetworkInv, SocketsAccounted

\* Without a change of the connections the count stays exact.
LEMMA CountStays ==
    ASSUME NetworkInv, UNCHANGED <<conns, count>>
    PROVE  CountedExactly'
  BY DEF NetworkInv, SocketsAccounted, CountedExactly

\* Creating, starting and stopping a server move the listening socket only.
LEMMA ListenStep ==
    ASSUME NetworkAssumption, NetworkInv,
           ServerInit \/ StartSucceeds \/ StartFails \/ Stop
    PROVE  NetworkInv'
  <1> USE DEF NetworkInv, SocketsAccounted, Sockets, serverVars, kernelVars, clientVars
  <1>1. CASE ServerInit
    <2>1. conns = {} /\ conns' = {} /\ count' = 0 /\ listen' = None /\ exists' = TRUE
          /\ running' = FALSE /\ UNCHANGED <<kernelVars, clientVars>>
      BY <1>1 DEF ServerInit, NoneWithout
    <2>2. Cardinality({}) = 0 /\ IsFiniteSet({})
      BY FS_EmptySet
    <2>3. NetworkTypeOK'
      <3>1. IsFiniteSet(conns') /\ conns' \subseteq Connection
        BY <2>1, <2>2
      <3>2. bound' \in Fd \cup {None} /\ listen' \in Fd \cup {None} /\ count' \in Int
        BY <2>1 DEF NetworkTypeOK
      <3>3. exists' \in BOOLEAN /\ running' \in BOOLEAN
        BY <2>1
      <3>4. /\ open' \subseteq Fd /\ pending' \subseteq Session
            /\ session' \in [Client -> Nat] /\ connected' \subseteq Client
        BY <2>1 DEF NetworkTypeOK
      <3>5. QED
        BY <3>1, <3>2, <3>3, <3>4 DEF NetworkTypeOK
    <2>4. CountedExactly'
      BY <2>1, <2>2 DEF CountedExactly, NetworkAssumption
    <2>5. Sockets = {} /\ Sockets' = {}
      BY <2>1
    <2>6. DescriptorsKnown'
      <3> HIDE DEF Sockets
      <3>1. open' = Sockets' \cup ({bound'} \ {None})
        BY <2>1, <2>5 DEF DescriptorsKnown
      <3>2. bound' \notin Sockets' /\ listen' \in {bound', None}
        BY <2>1, <2>5
      <3>3. \A c, d \in conns' : c.sock = d.sock => c = d
        BY <2>1
      <3>4. QED
        BY <3>1, <3>2, <3>3 DEF DescriptorsKnown
    <2>7. SessionsApart' /\ SessionsPast' /\ NoneWithout'
      BY <2>1 DEF SessionsApart, SessionsPast, NoneWithout
    <2>8. QED
      BY <2>3, <2>4, <2>6, <2>7
  <1>2. CASE StartSucceeds
    <2>1. PICK fd \in Fd \ open : listen' = fd /\ open' = open \cup {fd} /\ bound' = fd
      BY <1>2 DEF StartSucceeds
    <2>2. bound = None /\ exists /\ running' = TRUE
          /\ UNCHANGED <<exists, conns, count, pending, clientVars>>
      BY <1>2 DEF StartSucceeds
    <2>3. fd # None /\ open = {c.sock : c \in conns}
      BY <2>2 DEF NetworkAssumption, DescriptorsKnown
    <2>4. NetworkTypeOK'
      BY <2>1, <2>2 DEF NetworkTypeOK
    <2>5. CountedExactly'
      BY <2>2, CountStays
    <2>6. DescriptorsKnown'
      BY <2>1, <2>2, <2>3 DEF DescriptorsKnown
    <2>7. SessionsApart' /\ SessionsPast' /\ NoneWithout'
      BY <2>1, <2>2, <2>3 DEF SessionsApart, SessionsPast, NoneWithout
    <2>8. QED
      BY <2>4, <2>5, <2>6, <2>7
  <1>3. CASE StartFails
    <2>1. listen' = None /\ UNCHANGED <<exists, running, conns, count, kernelVars, clientVars>>
      BY <1>3 DEF StartFails
    <2>2. NetworkTypeOK'
      BY <2>1 DEF NetworkTypeOK
    <2>3. CountedExactly'
      BY <2>1, CountStays
    <2>4. DescriptorsKnown' /\ SessionsApart' /\ SessionsPast' /\ NoneWithout'
      BY <2>1 DEF DescriptorsKnown, SessionsApart, SessionsPast, NoneWithout
    <2>5. QED
      BY <2>2, <2>3, <2>4
  <1>4. CASE Stop
    <2>1. listen' = None /\ running' = FALSE /\ exists
          /\ UNCHANGED <<exists, conns, count, clientVars>>
      BY <1>4 DEF Stop
    <2>2. CASE listen = None
      <3>1. UNCHANGED kernelVars
        BY <1>4, <2>2 DEF Stop
      <3>2. NetworkTypeOK'
        BY <2>1, <3>1 DEF NetworkTypeOK
      <3>3. CountedExactly'
        BY <2>1, CountStays
      <3>4. DescriptorsKnown' /\ SessionsApart' /\ SessionsPast' /\ NoneWithout'
        BY <2>1, <3>1 DEF DescriptorsKnown, SessionsApart, SessionsPast, NoneWithout
      <3>5. QED
        BY <3>2, <3>3, <3>4
    <2>3. CASE listen # None
      <3>1. bound = listen
        BY <2>3 DEF DescriptorsKnown
      <3>2. open' = open \ {bound} /\ bound' = None /\ pending' = {}
        BY <1>4, <2>3, <3>1 DEF Stop
      <3>3. NetworkTypeOK'
        BY <2>1, <3>2 DEF NetworkTypeOK
      <3>4. CountedExactly'
        BY <2>1, CountStays
      <3>5. Sockets' = Sockets
        BY <2>1
      <3>6. DescriptorsKnown'
        <4>1. None \notin Sockets'
          BY <3>5 DEF NetworkTypeOK, Connection, NetworkAssumption
        <4> HIDE DEF Sockets
        <4>2. QED
          BY <2>1, <3>1, <3>2, <3>5, <4>1 DEF DescriptorsKnown
      <3>7. SessionsApart' /\ SessionsPast' /\ NoneWithout'
        BY <2>1, <3>2 DEF SessionsApart, SessionsPast, NoneWithout
      <3>8. QED
        BY <3>3, <3>4, <3>6, <3>7
    <2>4. QED
      BY <2>2, <2>3
  <1>5. QED
    BY <1>1, <1>2, <1>3, <1>4

\* A connection that is accepted gets a descriptor of its own and leaves the queue.
LEMMA AcceptStep ==
    ASSUME NetworkAssumption, NetworkInv, Accept \/ AcceptFails
    PROVE  NetworkInv'
  <1> USE DEF NetworkInv, SocketsAccounted, Sockets, serverVars, kernelVars, clientVars
  <1>1. CASE Accept
    <2>1. PICK peer \in pending, fd \in Fd \ open :
             /\ pending' = pending \ {peer}
             /\ open' = open \cup {fd}
             /\ conns' = conns \cup {[sock |-> fd, peer |-> peer]}
      BY <1>1 DEF Accept
    <2> DEFINE new == [sock |-> fd, peer |-> peer]
    <2>2. count' = count + 1 /\ count < MaxConnections /\ exists
          /\ UNCHANGED <<exists, listen, running, bound, clientVars>>
      BY <1>1 DEF Accept
    <2>3. new \in Connection /\ new.sock = fd /\ new.peer = peer
      BY DEF NetworkTypeOK, Connection
    <2> HIDE DEF new
    <2>4. conns' = conns \cup {new}
      BY <2>1 DEF new
    <2>5. new \notin conns
      BY <2>3 DEF DescriptorsKnown
    <2>6. /\ IsFiniteSet(conns') /\ Cardinality(conns') = Cardinality(conns) + 1
      BY <2>4, <2>5, FS_AddElement DEF NetworkTypeOK
    <2>7. NetworkTypeOK'
      BY <2>1, <2>2, <2>3, <2>4, <2>6 DEF NetworkTypeOK
    <2>8. CountedExactly'
      BY <2>2, <2>6 DEF CountedExactly, NetworkTypeOK, NetworkAssumption
    <2>9. DescriptorsKnown'
      <3>1. Sockets' = Sockets \cup {fd}
        BY <2>3, <2>4
      <3>2. \A d \in conns : d.sock \in Sockets
        OBVIOUS
      <3> HIDE DEF Sockets
      <3>3. fd \notin Sockets /\ fd # bound
        BY DEF DescriptorsKnown, NetworkAssumption
      <3>4. \A c, d \in conns' : c.sock = d.sock => c = d
        BY <2>3, <2>4, <3>2, <3>3 DEF DescriptorsKnown
      <3>5. open' = Sockets' \cup ({bound'} \ {None})
        BY <2>1, <2>2, <3>1 DEF DescriptorsKnown
      <3>6. QED
        BY <2>2, <3>1, <3>3, <3>4, <3>5 DEF DescriptorsKnown
    <2>10. SessionsApart' /\ SessionsPast' /\ NoneWithout'
      BY <2>1, <2>2, <2>3, <2>4 DEF SessionsApart, SessionsPast, NoneWithout
    <2>11. QED
      BY <2>7, <2>8, <2>9, <2>10
  <1>2. CASE AcceptFails
    <2>1. PICK peer \in pending : pending' = pending \ {peer}
      BY <1>2 DEF AcceptFails
    <2>2. UNCHANGED <<serverVars, open, bound, clientVars>>
      BY <1>2 DEF AcceptFails
    <2>3. NetworkTypeOK'
      BY <2>1, <2>2 DEF NetworkTypeOK
    <2>4. CountedExactly'
      BY <2>2, CountStays
    <2>5. DescriptorsKnown' /\ SessionsApart' /\ SessionsPast' /\ NoneWithout'
      BY <2>1, <2>2 DEF DescriptorsKnown, SessionsApart, SessionsPast, NoneWithout
    <2>6. QED
      BY <2>3, <2>4, <2>5
  <1>3. QED
    BY <1>1, <1>2

\* Closing gives back the descriptor of that connection and of no other.
LEMMA CloseStep ==
    ASSUME NetworkAssumption, NetworkInv, NEW c \in conns, CloseConnection(c)
    PROVE  NetworkInv'
  <1> USE DEF NetworkInv, SocketsAccounted, Sockets, serverVars, kernelVars, clientVars
  <1>1. /\ conns' = conns \ {c} /\ open' = open \ {c.sock} /\ count' = count - 1 /\ exists
        /\ UNCHANGED <<exists, listen, running, bound, pending, clientVars>>
    BY DEF CloseConnection
  <1>2. IsFiniteSet(conns') /\ Cardinality(conns') = Cardinality(conns) - 1
    BY <1>1, FS_RemoveElement DEF NetworkTypeOK
  <1>3. NetworkTypeOK'
    BY <1>1, <1>2 DEF NetworkTypeOK
  <1>4. CountedExactly'
    BY <1>1, <1>2 DEF CountedExactly, NetworkTypeOK, NetworkAssumption
  <1>5. DescriptorsKnown'
    BY <1>1 DEF DescriptorsKnown
  <1>6. SessionsApart' /\ SessionsPast' /\ NoneWithout'
    BY <1>1 DEF SessionsApart, SessionsPast, NoneWithout
  <1>7. QED
    BY <1>3, <1>4, <1>5, <1>6

\* Destroying the server leaves at most the socket a failed start forgot.
LEMMA DestroyStep ==
    ASSUME NetworkAssumption, NetworkInv, Destroy
    PROVE  NetworkInv'
  <1> USE DEF NetworkInv, SocketsAccounted, serverVars, kernelVars, clientVars
  <1> DEFINE stops == running /\ listen # None
  <1>1. /\ exists' = FALSE /\ running' = FALSE /\ listen' = None /\ conns' = {} /\ count' = 0
        /\ open' = open \ (Sockets \cup IF stops THEN {listen} ELSE {})
        /\ bound' = IF stops /\ bound = listen THEN None ELSE bound
        /\ pending' = IF stops /\ bound = listen THEN {} ELSE pending
        /\ UNCHANGED clientVars
    BY DEF Destroy
  <1>2. Cardinality({}) = 0 /\ IsFiniteSet({})
    BY FS_EmptySet
  <1>3. stops => bound = listen
    BY DEF DescriptorsKnown
  <1>4. \/ stops /\ open' = {} /\ bound' = None /\ pending' = {}
        \/ ~stops /\ open' = {bound} \ {None} /\ bound' = bound /\ pending' = pending
    <2>1. CASE stops
      BY <1>1, <1>3, <2>1 DEF DescriptorsKnown
    <2>2. CASE ~stops
      BY <1>1, <2>2 DEF DescriptorsKnown
    <2>3. QED
      BY <2>1, <2>2
  <1> HIDE DEF stops
  <1>5. NetworkTypeOK'
    <2>1. open' \subseteq Fd /\ bound' \in Fd \cup {None} /\ pending' \subseteq Session
      BY <1>4 DEF NetworkTypeOK
    <2>2. conns' \subseteq Connection /\ IsFiniteSet(conns') /\ count' \in Int
      BY <1>1, <1>2
    <2>3. session' \in [Client -> Nat] /\ connected' \subseteq Client
      BY <1>1 DEF NetworkTypeOK
    <2>4. QED
      BY <1>1, <2>1, <2>2, <2>3 DEF NetworkTypeOK
  <1>6. CountedExactly'
    BY <1>1, <1>2 DEF CountedExactly, NetworkAssumption
  <1>7. Sockets' = {}
    BY <1>1 DEF Sockets
  <1>8. DescriptorsKnown'
    BY <1>1, <1>4, <1>7 DEF DescriptorsKnown
  <1>9. SessionsApart' /\ SessionsPast' /\ NoneWithout'
    BY <1>1, <1>4 DEF SessionsApart, SessionsPast, NoneWithout
  <1>10. QED
    BY <1>5, <1>6, <1>8, <1>9

\* A client's new session is one that no connection had.
LEMMA ClientStep ==
    ASSUME NetworkAssumption, NetworkInv, NEW c \in Client, ClientConnect(c) \/ ClientDisconnect(c)
    PROVE  NetworkInv'
  <1> USE DEF NetworkInv, SocketsAccounted, Sockets, serverVars, kernelVars, clientVars
  <1>1. CASE ClientConnect(c)
    <2>1. /\ bound # None
          /\ session' = [session EXCEPT ![c] = @ + 1]
          /\ pending' = pending \cup {<<c, session[c]>>}
          /\ connected' = connected \cup {c}
          /\ UNCHANGED <<serverVars, open, bound>>
      BY <1>1 DEF ClientConnect
    <2>2. /\ session \in [Client -> Nat] /\ pending \subseteq Session
          /\ \A d \in conns : d.peer \in Session
      BY DEF NetworkTypeOK, Connection
    <2>3. NetworkTypeOK'
      BY <2>1, <2>2 DEF NetworkTypeOK, Session
    <2>4. CountedExactly'
      BY <2>1, CountStays
    <2>5. DescriptorsKnown' /\ NoneWithout'
      BY <2>1 DEF DescriptorsKnown, NoneWithout
    <2>6. SessionsApart'
      BY <2>1, <2>2 DEF SessionsApart, SessionsPast
    <2>7. \A q \in Session : q[2] < session[q[1]] => q[2] < session'[q[1]]
      BY <2>1, <2>2 DEF Session
    <2>8. SessionsPast'
      BY <2>1, <2>2, <2>7 DEF SessionsPast, Session
    <2>9. QED
      BY <2>3, <2>4, <2>5, <2>6, <2>8
  <1>2. CASE ClientDisconnect(c)
    <2>1. connected' = connected \ {c} /\ UNCHANGED <<serverVars, kernelVars, session>>
      BY <1>2 DEF ClientDisconnect
    <2>2. NetworkTypeOK' /\ DescriptorsKnown' /\ SessionsApart' /\ SessionsPast' /\ NoneWithout'
      BY <2>1 DEF NetworkTypeOK, DescriptorsKnown, SessionsApart, SessionsPast, NoneWithout
    <2>3. CountedExactly'
      BY <2>1, CountStays
    <2>4. QED
      BY <2>2, <2>3
  <1>3. QED
    BY <1>1, <1>2

\* Every step, of the server or of a client, keeps the invariant.
LEMMA NextKeepsNetwork ==
    ASSUME NetworkAssumption, NetworkInv, [NetworkNext]_networkVars
    PROVE  NetworkInv'
  <1>1. UNCHANGED networkVars => NetworkInv'
    BY DEF networkVars, serverVars, kernelVars, clientVars, NetworkInv, NetworkTypeOK,
           SocketsAccounted, CountedExactly, DescriptorsKnown, SessionsApart, SessionsPast,
           NoneWithout, Sockets
  <1>2. NetworkNext => NetworkInv'
    BY ListenStep, AcceptStep, CloseStep, DestroyStep, ClientStep DEF NetworkNext, Server
  <1>3. QED
    BY <1>1, <1>2

\* The server's list and counter and the kernel's sockets agree in every
\* reachable state, after any sequence of starts, failures, stops and closes.
THEOREM SocketsAgree == ASSUME NetworkAssumption PROVE NetworkSpec => []SocketsAccounted
  <1>1. NetworkInit => NetworkInv
    BY InitNetworkInv
  <1>2. NetworkInv /\ [NetworkNext]_networkVars => NetworkInv'
    BY NextKeepsNetwork
  <1>3. NetworkInv => SocketsAccounted
    BY DEF NetworkInv
  <1>4. QED
    BY <1>1, <1>2, <1>3, PTL DEF NetworkSpec

-----------------------------------------------------------------------------
(* The error queue.                                                         *)

\* The inductive invariant of the list of errors.
ErrorInv == ErrorTypeOK /\ CountExact /\ HoldsLast

\* The list is empty at first.
LEMMA InitErrorInv ==
    ASSUME ErrorAssumption
    PROVE  ErrorInit => ErrorInv
  BY DEF ErrorInit, ErrorInv, ErrorTypeOK, CountExact, HoldsLast, ErrorAssumption

\* The list with the new error at its end, and without its first when it was full.
LEMMA RecordKeepsErrors ==
    ASSUME ErrorAssumption, ErrorInv, NEW e \in Error, RecordError(e)
    PROVE  ErrorInv'
  <1> USE DEF RecordError, ErrorInv
  <1>1. /\ queue \in Seq(Error) /\ errors \in Seq(Error)
        /\ errorCount = Len(queue) /\ errorCount <= MaxErrors
        /\ MaxErrors \in Nat /\ MaxErrors # 0
        /\ Len(queue) \in Nat /\ Len(errors) \in Nat
    BY DEF ErrorTypeOK, CountExact, ErrorAssumption
  <1>2. /\ errors' \in Seq(Error) /\ Len(errors') = Len(errors) + 1
        /\ \A i \in 1..Len(errors) : errors'[i] = errors[i]
        /\ errors'[Len(errors) + 1] = e
    BY <1>1
  <1>3. CASE Full(errorCount) /\ queue # <<>>
    <2>1. errorCount = MaxErrors /\ Len(queue) # 0
      BY SMTT(30), <1>1, <1>3 DEF Full
    <2>2. /\ queue' = Append(Tail(queue), e) /\ errorCount' = errorCount - 1 + 1
          /\ queue' \in Seq(Error) /\ Len(queue') = Len(queue)
          /\ \A i \in 1..(Len(queue) - 1) : queue'[i] = queue[i + 1]
          /\ queue'[Len(queue)] = e
      <3>1. queue' = Append(Tail(queue), e) /\ errorCount' = errorCount - 1 + 1
        BY <1>3
      <3>2. /\ Tail(queue) \in Seq(Error) /\ Len(Tail(queue)) = Len(queue) - 1
            /\ \A i \in 1..(Len(queue) - 1) : Tail(queue)[i] = queue[i + 1]
        BY <1>1, <1>3, HeadTailProperties
      <3>3. /\ Append(Tail(queue), e) \in Seq(Error)
            /\ Len(Append(Tail(queue), e)) = Len(queue)
            /\ \A i \in 1..(Len(queue) - 1) : Append(Tail(queue), e)[i] = Tail(queue)[i]
            /\ Append(Tail(queue), e)[Len(queue)] = e
        BY <1>1, <2>1, <3>2
      <3>4. QED
        BY <3>1, <3>2, <3>3
    <2>3. ErrorTypeOK' /\ CountExact'
      BY <1>1, <1>2, <2>1, <2>2 DEF ErrorTypeOK, CountExact
    <2>4. Len(queue) <= Len(errors)
          /\ \A i \in 1..Len(queue) : queue[i] = errors[Len(errors) - Len(queue) + i]
      BY DEF HoldsLast
    <2>5. ASSUME NEW i \in 1..Len(queue)
          PROVE  queue'[i] = errors'[Len(errors') - Len(queue') + i]
      <3>1. CASE i = Len(queue)
        BY <1>1, <1>2, <2>2, <3>1
      <3>2. CASE i < Len(queue)
        <4>1. i + 1 \in 1..Len(queue) /\ i \in 1..(Len(queue) - 1)
          BY <1>1, <3>2
        <4>2. Len(errors) - Len(queue) + (i + 1) \in 1..Len(errors)
          BY SMTT(30), <1>1, <2>4, <4>1
        <4>3. queue'[i] = errors[Len(errors) - Len(queue) + (i + 1)]
          BY <2>2, <2>4, <4>1
        <4>4. Len(errors') - Len(queue') + i = Len(errors) - Len(queue) + (i + 1)
          BY <1>1, <1>2, <2>2
        <4>5. QED
          BY <1>2, <4>2, <4>3, <4>4
      <3>3. i = Len(queue) \/ i < Len(queue)
        BY <1>1
      <3>4. QED
        BY <3>1, <3>2, <3>3
    <2>6. Len(queue') <= Len(errors') /\ Len(queue') = MaxErrors
      BY <1>1, <1>2, <2>1, <2>2, <2>4
    <2>7. HoldsLast'
      BY <2>2, <2>5, <2>6 DEF HoldsLast
    <2>8. QED
      BY <2>3, <2>7
  <1>4. CASE ~(Full(errorCount) /\ queue # <<>>)
    <2>1. errorCount < MaxErrors
      BY <1>1, <1>4 DEF Full
    <2>2. /\ queue' = Append(queue, e) /\ errorCount' = errorCount + 1
          /\ queue' \in Seq(Error) /\ Len(queue') = Len(queue) + 1
          /\ \A i \in 1..Len(queue) : queue'[i] = queue[i]
          /\ queue'[Len(queue) + 1] = e
      <3>1. queue' = Append(queue, e) /\ errorCount' = errorCount + 1
        BY <1>4
      <3>2. QED
        BY <1>1, <3>1, AppendProperties
    <2>3. ErrorTypeOK' /\ CountExact'
      BY <1>1, <1>2, <2>1, <2>2 DEF ErrorTypeOK, CountExact
    <2>4. /\ Len(queue) = Len(errors)
          /\ \A i \in 1..Len(queue) : queue[i] = errors[i]
      BY <1>1, <2>1 DEF HoldsLast
    <2>5. ASSUME NEW i \in 1..Len(queue')
          PROVE  queue'[i] = errors'[Len(errors') - Len(queue') + i]
      BY <1>1, <1>2, <2>2, <2>4
    <2>6. HoldsLast'
      BY <1>1, <1>2, <2>2, <2>4, <2>5 DEF HoldsLast
    <2>7. QED
      BY <2>3, <2>6
  <1>5. QED
    BY <1>3, <1>4

\* Recording and clearing keep the invariant.
LEMMA NextKeepsErrors ==
    ASSUME ErrorAssumption
    PROVE  ErrorInv /\ [ErrorNext]_errorVars => ErrorInv'
  <1> SUFFICES ASSUME ErrorInv, [ErrorNext]_errorVars PROVE ErrorInv'
    OBVIOUS
  <1>1. CASE ClearQueue
    BY <1>1
    DEF ClearQueue, ErrorInv, ErrorTypeOK, CountExact, HoldsLast, ErrorAssumption
  <1>2. ASSUME NEW e \in Error, RecordError(e) PROVE ErrorInv'
    BY <1>2, RecordKeepsErrors
  <1>3. CASE UNCHANGED errorVars
    BY <1>3 DEF errorVars, ErrorInv, ErrorTypeOK, CountExact, HoldsLast
  <1>4. QED
    BY <1>1, <1>2, <1>3 DEF ErrorNext

\* The last error of the list is the one recorded last.
LEMMA ErrorInvImpliesKept ==
    ASSUME ErrorAssumption
    PROVE  ErrorInv => LastErrorsKept
  <1> SUFFICES ASSUME ErrorInv PROVE LastIsLast
    BY DEF ErrorInv, LastErrorsKept
  <1> USE DEF ErrorInv
  <1>1. /\ queue \in Seq(Error) /\ errors \in Seq(Error) /\ errorCount = Len(queue)
        /\ MaxErrors \in Nat /\ MaxErrors # 0
        /\ Len(queue) \in Nat /\ Len(errors) \in Nat
    BY DEF ErrorTypeOK, CountExact, ErrorAssumption
  <1>2. CASE errors = <<>>
    BY <1>1, <1>2 DEF LastIsLast, GetLast, HoldsLast
  <1>3. CASE errors # <<>>
    <2>1. Len(errors) # 0 /\ Len(queue) # 0
      BY <1>1, <1>3 DEF HoldsLast
    <2>2. queue[Len(queue)] = errors[Len(errors) - Len(queue) + Len(queue)]
      BY <1>1, <2>1 DEF HoldsLast
    <2>3. Len(errors) - Len(queue) + Len(queue) = Len(errors)
      BY <1>1
    <2>4. QED
      BY <1>1, <1>3, <2>1, <2>2, <2>3 DEF LastIsLast, GetLast
  <1>4. QED
    BY <1>2, <1>3

\* The list holds the last errors, in their order, and never more than its limit
\* (error.c:177-260).
THEOREM LastErrors ==
    ASSUME ErrorAssumption
    PROVE  ErrorSpec => []LastErrorsKept
  <1>1. ErrorInit => ErrorInv
    BY InitErrorInv
  <1>2. ErrorInv /\ [ErrorNext]_errorVars => ErrorInv'
    BY NextKeepsErrors
  <1>3. ErrorInv => LastErrorsKept
    BY ErrorInvImpliesKept
  <1>4. QED
    BY <1>1, <1>2, <1>3, PTL DEF ErrorSpec

-----------------------------------------------------------------------------
(* The cache.                                                                *)

\* What the list holds.
CacheItem == Cache!Item

\* The sizes of the items of a list.
Weights(l) == [i \in 1..Len(l) |-> SizeOf[l[i].val]]

\* What an item is made of.
LEMMA ItemFields ==
    ASSUME Cache!CacheAssumption, NEW m \in CacheItem
    PROVE  /\ m.key \in Key /\ m.val \in Value /\ m.hits \in 1..MaxCount
           /\ m.time \in 0..MaxTime /\ SizeOf[m.val] \in Nat \ {0}
           /\ MaxCount \in Nat /\ MaxTime \in Nat
           /\ m.hits \in Nat /\ m.time \in Nat
  BY DEF CacheItem, Cache!Item, Cache!CacheAssumption

\* The sizes are numbers.
LEMMA WeightsType ==
    ASSUME Cache!CacheAssumption, NEW l \in Seq(CacheItem)
    PROVE  /\ Weights(l) \in [1..Len(l) -> Nat] /\ Len(l) \in Nat
           /\ \A i \in 1..Len(l) : Weights(l)[i] = SizeOf[l[i].val]
  <1>1. \A i \in 1..Len(l) : l[i] \in CacheItem
    OBVIOUS
  <1>2. \A i \in 1..Len(l) : SizeOf[l[i].val] \in Nat
    BY <1>1, ItemFields
  <1> QED BY <1>2 DEF Weights

\* An eviction finds a victim in a list that is not empty, and nothing was used
\* less often.
LEMMA VictimFound ==
    ASSUME Cache!CacheAssumption, NEW l \in Seq(CacheItem), Len(l) > 0
    PROVE  /\ Cache!Victim(l) \in DOMAIN l
           /\ \A j \in DOMAIN l : l[Cache!Victim(l)].hits <= l[j].hits
  <1>0. Len(l) \in Nat /\ DOMAIN l = 1..Len(l) /\ 1 \in DOMAIN l
    OBVIOUS
  <1>1. \A i \in DOMAIN l : l[i] \in CacheItem
    OBVIOUS
  <1>2. \A i \in DOMAIN l : l[i].hits \in Nat /\ l[i].time \in Nat
    BY <1>1, ItemFields
  <1> DEFINE H == {l[i].hits : i \in DOMAIN l}
  <1>3. PICK a \in DOMAIN l : \A j \in DOMAIN l : l[a].hits <= l[j].hits
    <2>1. H \in SUBSET Nat /\ H # {}
      BY <1>0, <1>2
    <2>2. PICK h \in H : \A y \in H : h <= y
      <3> HIDE DEF H
      <3> QED BY <2>1, LeastNumber
    <2> QED BY <2>2
  <1> DEFINE B == {i \in DOMAIN l : l[i].hits = l[a].hits}
             U == {l[i].time : i \in B}
  <1>4. PICK b \in B : \A j \in B : l[b].time <= l[j].time
    <2>1. U \in SUBSET Nat /\ U # {}
      BY <1>2
    <2>2. PICK h \in U : \A y \in U : h <= y
      <3> HIDE DEF U
      <3> QED BY <2>1, LeastNumber
    <2> QED BY <2>2
  <1> DEFINE C == {i \in B : l[i].time = l[b].time}
  <1>5. PICK c \in C : \A j \in C : j <= c
    <2>1. C \in SUBSET (1..Len(l)) /\ C # {}
      BY <1>0
    <2> HIDE DEF C
    <2> QED BY <1>0, <2>1, MaxIsGreatest
  <1>6. c \in DOMAIN l /\ l[c].hits = l[a].hits /\ l[c].time = l[b].time
    BY <1>5
  <1>7. \A j \in DOMAIN l : l[c].hits <= l[j].hits
                            /\ (l[c].hits = l[j].hits => l[c].time <= l[j].time)
    BY <1>2, <1>3, <1>4, <1>6
  <1>8. \A j \in DOMAIN l : ~Cache!Colder(l[j], l[c])
    BY <1>2, <1>6, <1>7 DEF Cache!Colder
  <1>9. ASSUME NEW j \in DOMAIN l, j > c PROVE Cache!Colder(l[c], l[j])
    <2>1. j \notin C
      BY <1>0, <1>5, <1>6, <1>9
    <2>2. l[j].hits # l[c].hits \/ l[j].time # l[c].time
      BY <1>6, <2>1
    <2> QED BY <1>2, <1>6, <1>7, <2>2 DEF Cache!Colder
  <1>10. /\ Cache!Victim(l) \in DOMAIN l
         /\ \A j \in DOMAIN l : ~Cache!Colder(l[j], l[Cache!Victim(l)])
    BY <1>6, <1>8, <1>9 DEF Cache!Victim
  <1>11. ASSUME NEW j \in DOMAIN l PROVE l[Cache!Victim(l)].hits <= l[j].hits
    <2>1. ~(l[j].hits < l[Cache!Victim(l)].hits)
      BY <1>10 DEF Cache!Colder
    <2> QED BY <1>2, <1>10, <2>1
  <1> QED BY <1>10, <1>11

\* No key is listed twice.
Apart(l) == \A i, j \in DOMAIN l : l[i].key = l[j].key => i = j

\* m is l without the item at k.
LeavesOut(m, l, k) ==
    /\ m \in Seq(CacheItem) /\ Len(m) = Len(l) - 1
    /\ \A i \in 1..(Len(l) - 1) : m[i] = IF i < k THEN l[i] ELSE l[i + 1]

\* RemoveAt leaves out the item it is told.
LEMMA RemoveLeavesOut ==
    ASSUME NEW l \in Seq(CacheItem), NEW k \in DOMAIN l
    PROVE  LeavesOut(Cache!RemoveAt(l, k), l, k)
  <1>1. Cache!RemoveAt(l, k) = RemoveAt(l, k)
    BY DEF Cache!RemoveAt, RemoveAt
  <1>2. k \in Nat /\ Len(l) \in Nat
    OBVIOUS
  <1>3. /\ RemoveAt(l, k) \in Seq(CacheItem) /\ Len(RemoveAt(l, k)) = Len(l) - 1
        /\ \A i \in 1..(Len(l) - 1) : /\ i < k => RemoveAt(l, k)[i] = l[i]
                                      /\ i >= k => RemoveAt(l, k)[i] = l[i + 1]
    BY RemoveAtSkips
  <1>4. \A i \in 1..(Len(l) - 1) : ~(i < k) => i >= k
    BY <1>2
  <1> QED BY <1>1, <1>3, <1>4 DEF LeavesOut

\* Leaving out an item keeps the others.
LEMMA LeavingOut ==
    ASSUME Cache!CacheAssumption, NEW l \in Seq(CacheItem), NEW k \in DOMAIN l,
           NEW m, LeavesOut(m, l, k)
    PROVE  /\ Sum(Weights(l), Len(l)) = Sum(Weights(m), Len(m)) + SizeOf[l[k].val]
           /\ ToSet(m) \subseteq ToSet(l)
           /\ \A i \in DOMAIN l : i # k => l[i] \in ToSet(m)
           /\ Apart(l) => Apart(m) /\ \A i \in DOMAIN m : m[i].key # l[k].key
  <1>0. /\ Len(l) \in Nat \ {0} /\ k \in 1..Len(l) /\ DOMAIN l = 1..Len(l)
        /\ m \in Seq(CacheItem) /\ DOMAIN m = 1..(Len(l) - 1) /\ Len(m) = Len(l) - 1
    BY DEF LeavesOut
  <1>1. \A i \in DOMAIN m : IF i < k THEN i \in DOMAIN l /\ i # k /\ m[i] = l[i]
                            ELSE i + 1 \in DOMAIN l /\ i + 1 # k /\ m[i] = l[i + 1]
    BY <1>0 DEF LeavesOut
  <1>2. Sum(Weights(l), Len(l)) = Sum(Weights(m), Len(m)) + SizeOf[l[k].val]
    <2>1. /\ Weights(l) \in [1..Len(l) -> Nat]
          /\ \A i \in 1..Len(l) : Weights(l)[i] = SizeOf[l[i].val]
      BY WeightsType
    <2>2. /\ Weights(m) \in [1..Len(m) -> Nat]
          /\ \A i \in 1..Len(m) : Weights(m)[i] = SizeOf[m[i].val]
      BY <1>0, WeightsType
    <2>3. IsWithout(Weights(m), Weights(l), Len(l), k)
      <3>1. Len(m) = Len(l) - 1 /\ Weights(m) \in [1..(Len(l) - 1) -> Nat]
        BY <1>0, <2>2
      <3>2. ASSUME NEW i \in 1..(Len(l) - 1)
            PROVE  Weights(m)[i] = IF i < k THEN Weights(l)[i] ELSE Weights(l)[i + 1]
        <4>1. i \in DOMAIN m /\ Weights(m)[i] = SizeOf[m[i].val]
          BY <1>0, <2>2
        <4> QED BY <1>0, <1>1, <2>1, <4>1
      <3> QED BY <3>1, <3>2 DEF IsWithout
    <2>4. Sum(Weights(l), Len(l)) = Sum(Weights(m), Len(l) - 1) + Weights(l)[k]
      BY <1>0, <2>1, <2>3, SumWithout
    <2> QED BY <1>0, <2>1, <2>4
  <1>3. ToSet(m) \subseteq ToSet(l)
    BY <1>1 DEF ToSet
  <1>4. ASSUME NEW i \in DOMAIN l, i # k PROVE l[i] \in ToSet(m)
    <2>1. CASE i < k
      <3>1. i \in DOMAIN m
        BY <1>0, <2>1
      <3> QED BY <1>1, <2>1, <3>1 DEF ToSet
    <2>2. CASE i > k
      <3>1. i - 1 \in DOMAIN m /\ ~(i - 1 < k) /\ (i - 1) + 1 = i
        BY <1>0, <2>2
      <3>2. m[i - 1] = l[(i - 1) + 1]
        BY <1>1, <3>1
      <3> QED BY <3>1, <3>2 DEF ToSet
    <2> QED BY <1>0, <1>4, <2>1, <2>2
  <1>5. ASSUME Apart(l) PROVE Apart(m) /\ \A i \in DOMAIN m : m[i].key # l[k].key
    <2> DEFINE at(i) == IF i < k THEN i ELSE i + 1
    <2>1. \A i \in DOMAIN m : at(i) \in DOMAIN l /\ at(i) # k /\ m[i] = l[at(i)]
      BY <1>1
    <2>2. \A i, j \in DOMAIN m : at(i) = at(j) => i = j
      BY <1>0
    <2> HIDE DEF at
    <2> QED BY <1>5, <2>1, <2>2 DEF Apart
  <1> QED BY <1>2, <1>3, <1>4, <1>5

\* A new head.
LEMMA NewHead ==
    ASSUME Cache!CacheAssumption, NEW l \in Seq(CacheItem), NEW y \in CacheItem
    PROVE  /\ <<y>> \o l \in Seq(CacheItem) /\ Len(<<y>> \o l) = Len(l) + 1
           /\ Sum(Weights(<<y>> \o l), Len(l) + 1) = Sum(Weights(l), Len(l)) + SizeOf[y.val]
           /\ ToSet(<<y>> \o l) = ToSet(l) \cup {y}
           /\ (Apart(l) /\ \A i \in DOMAIN l : l[i].key # y.key) => Apart(<<y>> \o l)
  <1> DEFINE h == <<y>> \o l
  <1>1. h \in Seq(CacheItem) /\ Len(h) = Len(l) + 1 /\ Len(l) \in Nat
    OBVIOUS
  <1>2. h[1] = y /\ \A i \in 1..Len(l) : h[i + 1] = l[i]
    OBVIOUS
  <1> HIDE DEF h
  <1>3. 1 \in DOMAIN h /\ DOMAIN h = 1..(Len(l) + 1) /\ DOMAIN l = 1..Len(l)
    BY <1>1
  <1>4. LeavesOut(l, h, 1)
    <2>1. \A i \in 1..(Len(h) - 1) : ~(i < 1) /\ i \in 1..Len(l)
      BY <1>1
    <2> QED BY <1>1, <1>2, <2>1 DEF LeavesOut
  <1>5. Sum(Weights(h), Len(h)) = Sum(Weights(l), Len(l)) + SizeOf[h[1].val]
    BY <1>1, <1>3, <1>4, LeavingOut
  <1>6. \A i \in DOMAIN h : i = 1 \/ (i - 1 \in DOMAIN l /\ h[i] = l[i - 1])
    <2>1. ASSUME NEW i \in DOMAIN h, i # 1 PROVE i - 1 \in DOMAIN l /\ h[i] = l[i - 1]
      <3>1. i - 1 \in 1..Len(l) /\ (i - 1) + 1 = i
        BY <1>1, <1>3, <2>1
      <3> QED BY <1>2, <1>3, <3>1
    <2> QED BY <2>1
  <1>7. ToSet(h) = ToSet(l) \cup {y}
    <2>1. \A i \in DOMAIN l : i + 1 \in DOMAIN h /\ h[i + 1] = l[i]
      BY <1>1, <1>2, <1>3
    <2> QED BY <1>2, <1>3, <1>6, <2>1 DEF ToSet
  <1>8. ASSUME Apart(l), \A i \in DOMAIN l : l[i].key # y.key PROVE Apart(h)
    <2>1. ASSUME NEW i \in DOMAIN h, NEW j \in DOMAIN h, h[i].key = h[j].key PROVE i = j
      <3>1. i \in Int /\ j \in Int
        BY <1>1, <1>3
      <3>2. CASE i = 1 /\ j # 1
        BY <1>2, <1>6, <1>8, <2>1, <3>2
      <3>3. CASE i # 1 /\ j = 1
        BY <1>2, <1>6, <1>8, <2>1, <3>3
      <3>4. CASE i # 1 /\ j # 1
        <4>1. i - 1 = j - 1
          BY <1>6, <1>8, <2>1, <3>4 DEF Apart
        <4> QED BY <3>1, <4>1
      <3> QED BY <3>2, <3>3, <3>4
    <2> QED BY <2>1 DEF Apart
  <1> QED BY <1>1, <1>2, <1>5, <1>7, <1>8 DEF h

\* The fold of the property is the sum.
LEMMA FoldIsSum ==
    ASSUME Cache!CacheAssumption, NEW l \in Seq(CacheItem)
    PROVE  Cache!FoldSeq(LAMBDA m, s : s + Cache!Size(m), 0, l) = Sum(Weights(l), Len(l))
  <1> DEFINE n == Len(l)
             w == Weights(l)
             pick == [s \in SUBSET (1..n) |-> CHOOSE x \in s : TRUE]
             F == CHOOSE f : f = [s \in SUBSET (1..n) |->
                                    IF s = {} THEN 0
                                    ELSE f[s \ {CHOOSE x \in s : TRUE}]
                                         + SizeOf[l[CHOOSE x \in s : TRUE].val]]
  <1>1. n \in Nat /\ DOMAIN l = 1..n /\ w \in [1..n -> Nat]
        /\ \A i \in 1..n : w[i] = SizeOf[l[i].val]
    BY WeightsType
  <1>2. \A s \in SUBSET (1..n) : s # {} => pick[s] \in s /\ pick[s] = CHOOSE x \in s : TRUE
    OBVIOUS
  <1> DEFINE A(f) == [s \in SUBSET (1..n) |->
                        IF s = {} THEN 0 ELSE f[s \ {pick[s]}] + w[pick[s]]]
             B(f) == [s \in SUBSET (1..n) |->
                        IF s = {} THEN 0
                        ELSE f[s \ {CHOOSE x \in s : TRUE}]
                             + SizeOf[l[CHOOSE x \in s : TRUE].val]]
  <1>3. \A f : A(f) = B(f)
    <2> SUFFICES ASSUME NEW f PROVE A(f) = B(f)
      OBVIOUS
    <2>1. ASSUME NEW s \in SUBSET (1..n), s # {}
          PROVE  f[s \ {pick[s]}] + w[pick[s]]
                 = f[s \ {CHOOSE x \in s : TRUE}] + SizeOf[l[CHOOSE x \in s : TRUE].val]
      <3>1. pick[s] \in 1..n /\ pick[s] = CHOOSE x \in s : TRUE
        BY <1>2, <2>1
      <3>2. w[pick[s]] = SizeOf[l[pick[s]].val]
        BY <1>1, <3>1
      <3> HIDE DEF pick, w
      <3> QED BY <3>1, <3>2
    <2> HIDE DEF pick, w
    <2> QED BY <2>1
  <1>4. /\ \E f : IsSetSum(f, w, n, pick)
        /\ \A f : IsSetSum(f, w, n, pick) => f[1..n] = Sum(w, n)
    <2> HIDE DEF n, w, pick
    <2> QED BY <1>1, <1>2, SetSum
  <1>5. IsSetSum(F, w, n, pick)
    <2>1. \A f : IsSetSum(f, w, n, pick) <=> f = A(f)
      BY DEF IsSetSum
    <2>2. F = CHOOSE f : f = B(f)
      OBVIOUS
    <2> HIDE DEF A, B, F
    <2>3. PICK f : f = B(f)
      BY <1>3, <1>4, <2>1
    <2>4. F = B(F)
      BY <2>2, <2>3
    <2> QED BY <1>3, <2>1, <2>4
  <1>6. Cache!FoldSeq(LAMBDA m, s : s + Cache!Size(m), 0, l) = F[1..n]
    BY <1>1 DEF Cache!FoldSeq, Cache!FoldFunction, Cache!FoldFunctionOnSet,
                Cache!MapThenFoldSet, Cache!Size
  <1> QED BY <1>4, <1>5, <1>6

-----------------------------------------------------------------------------
(* Evictions.                                                                 *)

\* The used size and the count are those of the list.
Accounts(c) ==
    /\ c.items \in Seq(CacheItem) /\ Apart(c.items)
    /\ c.used = Sum(Weights(c.items), Len(c.items)) /\ c.used \in Nat
    /\ c.count = Len(c.items)

\* What n evictions leave: the accounts, and whatever was not used less often than
\* what is gone.
EvictedWell(c, n) ==
    /\ Accounts(c) /\ Len(c.items) = Len(items) - n /\ c.used <= cacheUsed
    /\ ToSet(c.items) \subseteq ToSet(items)
    /\ \A m \in ToSet(items) \ ToSet(c.items), o \in ToSet(c.items) : m.hits <= o.hits

\* One eviction.
EvictOne(c) ==
    [items |-> Cache!RemoveAt(c.items, Cache!Victim(c.items)),
     used |-> c.used - SizeOf[c.items[Cache!Victim(c.items)].val],
     count |-> c.count - 1]

\* The cache as it stands.
Now == [items |-> items, used |-> cacheUsed, count |-> itemCount]

\* An eviction goes on well.
LEMMA EvictOneWell ==
    ASSUME Cache!CacheAssumption, items \in Seq(CacheItem), Accounts(Now),
           NEW n \in Nat, n < Len(items), NEW c, EvictedWell(c, n)
    PROVE  EvictedWell(EvictOne(c), n + 1) /\ Len(c.items) > 0
  <1> DEFINE v == Cache!Victim(c.items)
             l == c.items
             m == Cache!RemoveAt(c.items, Cache!Victim(c.items))
             d == EvictOne(c)
  <1>1. /\ l \in Seq(CacheItem) /\ Apart(l) /\ c.used = Sum(Weights(l), Len(l)) /\ c.used \in Nat
        /\ c.count = Len(l) /\ Len(l) = Len(items) - n /\ c.used <= cacheUsed
        /\ ToSet(l) \subseteq ToSet(items)
        /\ \A x \in ToSet(items) \ ToSet(l), o \in ToSet(l) : x.hits <= o.hits
    BY DEF EvictedWell, Accounts
  <1>2. Len(items) \in Nat /\ Len(l) > 0 /\ Len(l) \in Nat /\ cacheUsed \in Nat
    BY <1>1 DEF Accounts, Now
  <1>3. v \in DOMAIN l /\ \A j \in DOMAIN l : l[v].hits <= l[j].hits
    BY <1>1, <1>2, VictimFound
  <1>4. LeavesOut(m, l, v)
    BY <1>1, <1>3, RemoveLeavesOut
  <1> HIDE DEF m, l, v
  <1>5. /\ Sum(Weights(l), Len(l)) = Sum(Weights(m), Len(m)) + SizeOf[l[v].val]
        /\ ToSet(m) \subseteq ToSet(l)
        /\ \A i \in DOMAIN l : i # v => l[i] \in ToSet(m)
        /\ Apart(m)
    BY <1>1, <1>3, <1>4, LeavingOut
  <1>6. m \in Seq(CacheItem) /\ Len(m) = Len(l) - 1
    BY <1>4 DEF LeavesOut
  <1>7. Sum(Weights(m), Len(m)) \in Nat
    <2>1. Len(m) \in Nat /\ Weights(m) \in [1..Len(m) -> Nat]
      BY <1>6, WeightsType
    <2> HIDE DEF m
    <2> QED BY <2>1, SumExists, SumIs
  <1>8. SizeOf[l[v].val] \in Nat
    <2>1. l[v] \in CacheItem
      BY <1>1, <1>3
    <2> QED BY <2>1, ItemFields
  <1>9. /\ d.items = m /\ d.used = c.used - SizeOf[l[v].val] /\ d.count = c.count - 1
    BY DEF EvictOne, m, l, v
  <1> HIDE DEF d
  <1>14. d.used = Sum(Weights(m), Len(m)) /\ d.used \in Nat /\ d.used <= cacheUsed
    <2> DEFINE sz == SizeOf[l[v].val]
               total == Sum(Weights(m), Len(m))
    <2>1. d.used = c.used - sz /\ c.used = total + sz /\ sz \in Nat /\ total \in Nat
      BY <1>1, <1>5, <1>7, <1>8, <1>9
    <2> HIDE DEF sz, total
    <2>2. d.used = total /\ total <= c.used
      BY <2>1
    <2>3. d.used <= cacheUsed
      BY <1>1, <1>2, <2>1, <2>2
    <2> QED BY <2>1, <2>2, <2>3 DEF total
  <1>15. d.count = Len(m)
    BY <1>1, <1>2, <1>6, <1>9
  <1>10. Accounts(d)
    BY <1>5, <1>6, <1>9, <1>14, <1>15 DEF Accounts
  <1>11. Len(d.items) = Len(items) - (n + 1) /\ d.used <= cacheUsed
    <2>1. Len(m) = (Len(items) - n) - 1 /\ n \in Int /\ Len(items) \in Int
      BY <1>1, <1>2, <1>6
    <2>2. (Len(items) - n) - 1 = Len(items) - (n + 1)
      BY <2>1
    <2> QED BY <1>9, <1>14, <2>1, <2>2
  <1>12. ASSUME NEW x \in ToSet(items) \ ToSet(m), NEW o \in ToSet(m) PROVE x.hits <= o.hits
    <2>1. o \in ToSet(l)
      BY <1>5
    <2>2. CASE x \notin ToSet(l)
      BY <1>1, <1>12, <2>1, <2>2
    <2>3. CASE x \in ToSet(l)
      <3>1. PICK i \in DOMAIN l : x = l[i]
        BY <2>3 DEF ToSet
      <3>2. i = v
        BY <1>5, <1>12, <3>1
      <3>3. PICK j \in DOMAIN l : o = l[j]
        BY <2>1 DEF ToSet
      <3> QED BY <1>3, <3>1, <3>2, <3>3
    <2> QED BY <2>2, <2>3
  <1>13. EvictedWell(d, n + 1)
    BY <1>1, <1>5, <1>9, <1>10, <1>11, <1>12 DEF EvictedWell
  <1> QED BY <1>2, <1>13 DEF d, l

\* Any number of evictions goes well.
LEMMA EvictionsWell ==
    ASSUME Cache!CacheAssumption, items \in Seq(CacheItem), Accounts(Now),
           NEW n \in 0..Len(items)
    PROVE  EvictedWell(Cache!Evicted(n), n)
  <1> DEFINE D == [items : Seq(CacheItem), used : Int, count : Int]
             step == [i \in 1..n |->
                        [d \in D |-> IF Len(d.items) > 0 THEN EvictOne(d) ELSE d]]
             G(e) == [i \in 0..n |-> IF i = 0 THEN Now ELSE EvictOne(e[i - 1])]
  <1>0. n \in Nat /\ Len(items) \in Nat /\ n <= Len(items)
    OBVIOUS
  <1>1. Now \in D
    BY DEF Now, Accounts
  <1>2. ASSUME NEW d \in D, Len(d.items) > 0 PROVE EvictOne(d) \in D
    <2>1. Cache!Victim(d.items) \in DOMAIN d.items
      BY <1>2, VictimFound
    <2>2. Cache!RemoveAt(d.items, Cache!Victim(d.items)) \in Seq(CacheItem)
      BY <2>1, RemoveLeavesOut DEF LeavesOut
    <2>3. d.items[Cache!Victim(d.items)] \in CacheItem
      BY <2>1
    <2>4. SizeOf[d.items[Cache!Victim(d.items)].val] \in Nat
      BY <2>3, ItemFields
    <2> QED BY <2>2, <2>4 DEF EvictOne
  <1>3. PICK f : IsFold(f, Now, step, n, D)
    <2>1. IsStep(step, n, D)
      BY <1>2 DEF IsStep
    <2> HIDE DEF step, D
    <2> QED BY <1>0, <1>1, <2>1, Recursion
  <1>4. f \in [0..n -> D] /\ f[0] = Now
    BY <1>3 DEF IsFold
  <1>5. ASSUME NEW i \in 1..n, Len(f[i - 1].items) > 0 PROVE f[i] = EvictOne(f[i - 1])
    <2>1. i - 1 \in 0..n /\ f[i - 1] \in D
      BY <1>4
    <2>2. f[i] = step[i][f[i - 1]]
      BY <1>3 DEF IsFold
    <2> QED BY <1>5, <2>1, <2>2
  <1> HIDE DEF D, step
  <1> DEFINE T == {m \in 0..n : EvictedWell(f[m], m)}
  <1>6. 0 \in T
    <2>1. Now.items = items /\ Now.used = cacheUsed /\ cacheUsed \in Nat
      BY DEF Now, Accounts
    <2> QED BY <1>0, <1>4, <2>1 DEF EvictedWell
  <1>7. ASSUME NEW m \in 0..n, EvictedWell(f[m], m), m # n
        PROVE  EvictedWell(f[m + 1], m + 1) /\ f[m + 1] = EvictOne(f[m])
    <2>1. m \in Nat /\ m < Len(items) /\ m + 1 \in 1..n /\ (m + 1) - 1 = m
      BY <1>0, <1>7
    <2>2. EvictedWell(EvictOne(f[m]), m + 1) /\ Len(f[m].items) > 0
      BY <1>7, <2>1, EvictOneWell
    <2>3. Len(f[(m + 1) - 1].items) > 0
      BY <2>1, <2>2
    <2>4. f[m + 1] = EvictOne(f[(m + 1) - 1])
      BY <1>5, <2>1, <2>3
    <2> QED BY <2>1, <2>2, <2>4
  <1>8. \A m \in 0..n : m \in T
    <2>1. \A m \in 0..n : m \in T /\ m # n => m + 1 \in T
      <3>1. ASSUME NEW m \in 0..n, m # n PROVE m + 1 \in 0..n
        BY <1>0, <3>1
      <3> QED BY <1>7, <3>1
    <2> HIDE DEF T
    <2> QED BY <1>0, <1>6, <2>1, UpTo
  <1>9. f = G(f)
    <2>1. ASSUME NEW i \in 0..n PROVE f[i] = G(f)[i]
      <3>1. CASE i = 0
        BY <1>4, <3>1
      <3>2. CASE i # 0
        <4>1. i - 1 \in 0..n /\ (i - 1) # n /\ (i - 1) + 1 = i
          BY <3>2
        <4>2. EvictedWell(f[i - 1], i - 1)
          BY <1>8, <4>1
        <4>3. f[(i - 1) + 1] = EvictOne(f[i - 1])
          BY <1>7, <4>1, <4>2
        <4> QED BY <3>2, <4>1, <4>3
      <3> QED BY <3>1, <3>2
    <2>2. f = [i \in 0..n |-> f[i]]
      BY <1>4
    <2> QED BY <2>1, <2>2
  <1> DEFINE g == CHOOSE e : e = G(e)
  <1>10. g = G(g)
    <2> HIDE DEF G
    <2> QED BY <1>9
  <1>11. Cache!Evicted(n) = g[n]
    BY DEF Cache!Evicted, EvictOne, Now, Cache!Size
  <1> HIDE DEF g
  <1>12. g[n] = f[n]
    <2> DEFINE S == {m \in 0..n : g[m] = f[m]}
    <2>1. 0 \in S
      BY <1>9, <1>10
    <2>2. ASSUME NEW m \in 0..n, m \in S, m # n PROVE m + 1 \in S
      <3>1. m + 1 \in 0..n /\ m + 1 # 0 /\ (m + 1) - 1 = m
        BY <2>2
      <3>2. g[m + 1] = EvictOne(g[m]) /\ f[m + 1] = EvictOne(f[m])
        BY <1>9, <1>10, <3>1
      <3> QED BY <2>2, <3>1, <3>2
    <2>3. \A m \in 0..n : m \in S
      <3> HIDE DEF S
      <3> QED BY <1>0, <2>1, <2>2, UpTo
    <2> QED BY <1>0, <2>3
  <1>13. EvictedWell(f[n], n)
    BY <1>0, <1>8
  <1> QED BY <1>11, <1>12, <1>13

-----------------------------------------------------------------------------
(* The invariant.                                                             *)

\* What is listed is what was stored last.
Fresh(l, last) == \A m \in ToSet(l) : last[m.key] = {m.val}

\* The accounts are right and within the limits, and each item is the last stored.
CacheInv ==
    /\ Accounts(Now) /\ cacheUsed <= Capacity /\ itemCount <= MaxItems
    /\ now \in 0..MaxTime /\ latest \in [Key -> SUBSET Value]
    /\ Fresh(items, latest)

\* A search ends at the item with the key.
LEMMA PositionFinds ==
    ASSUME NEW l \in Seq(CacheItem), NEW k \in Key
    PROVE  \/ Cache!Position(l, k) \in DOMAIN l /\ l[Cache!Position(l, k)].key = k
              /\ Cache!Position(l, k) # 0
           \/ Cache!Position(l, k) = 0 /\ \A i \in DOMAIN l : l[i].key # k
  <1> DEFINE I == {i \in 1..Len(l) : l[i].key = k}
  <1>1. Cache!Position(l, k) = IF I # {} THEN Min(I) ELSE 0
    BY DEF Cache!Position, Cache!SelectInSeq, Cache!Min, Min
  <1>2. I \in SUBSET Nat /\ DOMAIN l = 1..Len(l)
    OBVIOUS
  <1>3. CASE I # {}
    <2>1. Min(I) \in I
      <3> HIDE DEF I
      <3> QED BY <1>2, <1>3, MinIsLeast
    <2> QED BY <1>1, <1>2, <1>3, <2>1
  <1>4. CASE I = {}
    BY <1>1, <1>2, <1>4
  <1> QED BY <1>3, <1>4

\* The state set makes room in is one that evictions lead to.
LEMMA RoomWell ==
    ASSUME Cache!CacheAssumption, CacheInv, NEW s
    PROVE  \E n \in 0..Len(items) :
              Cache!Evictions(s) = n /\ EvictedWell(Cache!Evicted(Cache!Evictions(s)), n)
  <1> DEFINE E == {n \in 0..Len(items) : Cache!Fits(Cache!Evicted(n), s)}
  <1>1. items \in Seq(CacheItem) /\ Len(items) \in Nat
    BY DEF CacheInv, Accounts, Now
  <1>2. Cache!Evictions(s) = IF E = {} THEN Len(items) ELSE Min(E)
    BY DEF Cache!Evictions, Cache!Min, Min
  <1>3. E \in SUBSET Nat /\ E \subseteq 0..Len(items)
    BY <1>1
  <1> HIDE DEF E
  <1>4. Cache!Evictions(s) \in 0..Len(items)
    <2>1. CASE E = {}
      BY <1>1, <1>2, <2>1
    <2>2. CASE E # {}
      <3>1. Min(E) \in E
        BY <1>3, <2>2, MinIsLeast
      <3> QED BY <1>2, <1>3, <2>2, <3>1
    <2> QED BY <2>1, <2>2
  <1>5. EvictedWell(Cache!Evicted(Cache!Evictions(s)), Cache!Evictions(s))
    BY <1>1, <1>4, EvictionsWell DEF CacheInv
  <1> QED BY <1>4, <1>5

\* l becomes what it is with the item at i used once more, as y.
Reused(h, l, i, y) ==
    \E m : LeavesOut(m, l, i) /\ h = <<y>> \o m

\* Using an item keeps the accounts of the others.
LEMMA ReusedWell ==
    ASSUME Cache!CacheAssumption, NEW l \in Seq(CacheItem), Apart(l), NEW i \in DOMAIN l,
           NEW y \in CacheItem, y.key = l[i].key, NEW h, Reused(h, l, i, y)
    PROVE  /\ h \in Seq(CacheItem) /\ Apart(h) /\ Len(h) = Len(l)
           /\ Sum(Weights(h), Len(h)) + SizeOf[l[i].val]
              = Sum(Weights(l), Len(l)) + SizeOf[y.val]
           /\ Sum(Weights(h), Len(h)) \in Nat /\ Sum(Weights(l), Len(l)) \in Nat
           /\ SizeOf[l[i].val] \in Nat
           /\ \A x \in ToSet(h) : x = y \/ (x \in ToSet(l) /\ x.key # y.key)
           /\ y \in ToSet(h)
           /\ \A x \in ToSet(l) : x.key = y.key \/ x \in ToSet(h)
  <1>1. PICK m : LeavesOut(m, l, i) /\ h = <<y>> \o m
    BY DEF Reused
  <1>2. m \in Seq(CacheItem) /\ Len(m) = Len(l) - 1 /\ Len(l) \in Nat /\ Len(m) \in Nat
    BY <1>1 DEF LeavesOut
  <1>3. /\ Sum(Weights(l), Len(l)) = Sum(Weights(m), Len(m)) + SizeOf[l[i].val]
        /\ ToSet(m) \subseteq ToSet(l)
        /\ \A j \in DOMAIN l : j # i => l[j] \in ToSet(m)
        /\ Apart(m) /\ \A j \in DOMAIN m : m[j].key # l[i].key
    BY <1>1, LeavingOut
  <1>4. /\ h \in Seq(CacheItem) /\ Len(h) = Len(m) + 1
        /\ Sum(Weights(h), Len(m) + 1) = Sum(Weights(m), Len(m)) + SizeOf[y.val]
        /\ ToSet(h) = ToSet(m) \cup {y}
        /\ Apart(h)
    BY <1>1, <1>2, <1>3, NewHead
  <1>5. Len(h) = Len(l)
    BY <1>2, <1>4
  <1>6. SizeOf[y.val] \in Nat /\ SizeOf[l[i].val] \in Nat
    <2>1. l[i] \in CacheItem
      OBVIOUS
    <2> QED BY <2>1, ItemFields
  <1>7. ASSUME NEW q \in Seq(CacheItem) PROVE Sum(Weights(q), Len(q)) \in Nat
    <2>1. Len(q) \in Nat /\ Weights(q) \in [1..Len(q) -> Nat]
      BY WeightsType
    <2> QED BY <2>1, SumExists, SumIs
  <1>8. Sum(Weights(h), Len(h)) + SizeOf[l[i].val] = Sum(Weights(l), Len(l)) + SizeOf[y.val]
    <2> DEFINE a == Sum(Weights(h), Len(h))
               b == Sum(Weights(l), Len(l))
               c == Sum(Weights(m), Len(m))
               d == SizeOf[y.val]
               e == SizeOf[l[i].val]
    <2>1. c \in Nat /\ d \in Nat /\ e \in Nat /\ a = c + d /\ b = c + e
      BY <1>2, <1>3, <1>4, <1>6, <1>7
    <2> HIDE DEF a, b, c, d, e
    <2>2. a + e = b + d
      BY <2>1
    <2> QED BY <2>2 DEF a, b, d, e
  <1>9. ASSUME NEW x \in ToSet(h), x # y PROVE x \in ToSet(l) /\ x.key # y.key
    <2>1. x \in ToSet(m)
      BY <1>4, <1>9
    <2>2. PICK j \in DOMAIN m : x = m[j]
      BY <2>1 DEF ToSet
    <2> QED BY <1>3, <2>1, <2>2
  <1>10. ASSUME NEW x \in ToSet(l), x.key # y.key PROVE x \in ToSet(h)
    <2>1. PICK j \in DOMAIN l : x = l[j]
      BY <1>10 DEF ToSet
    <2>2. j # i
      BY <1>10, <2>1
    <2> QED BY <1>3, <1>4, <2>1, <2>2
  <1> QED BY <1>4, <1>5, <1>6, <1>7, <1>8, <1>9, <1>10

\* An access makes a new item of the one at i, at the head.
LEMMA TouchedReuses ==
    ASSUME Cache!CacheAssumption, NEW l \in Seq(CacheItem), NEW i \in DOMAIN l,
           l[i].hits < MaxCount, NEW t \in 0..MaxTime
    PROVE  \E y \in CacheItem : /\ y.key = l[i].key /\ y.val = l[i].val
                            /\ Reused(Cache!Touched(l, i, t), l, i, y)
  <1> DEFINE y == [l[i] EXCEPT !.hits = @ + 1, !.time = t]
  <1>1. l[i] \in CacheItem /\ l[i].hits \in Nat /\ MaxCount \in Nat /\ l[i].hits >= 1
    <2>1. l[i] \in CacheItem
      OBVIOUS
    <2>2. l[i].hits \in 1..MaxCount /\ MaxCount \in Nat
      BY <2>1, ItemFields
    <2> QED BY <2>1, <2>2
  <1>2. l[i].hits + 1 \in 1..MaxCount
    BY <1>1
  <1>3. y \in CacheItem /\ y.key = l[i].key /\ y.val = l[i].val
    BY <1>1, <1>2 DEF CacheItem, Cache!Item
  <1>4. LeavesOut(Cache!RemoveAt(l, i), l, i)
    BY RemoveLeavesOut
  <1>5. Cache!Touched(l, i, t) = <<y>> \o Cache!RemoveAt(l, i)
    BY DEF Cache!Touched
  <1> HIDE DEF y
  <1> QED BY <1>3, <1>4, <1>5 DEF Reused

\* An update does it with another value.
LEMMA UpdateReuses ==
    ASSUME Cache!CacheAssumption, NEW l \in Seq(CacheItem), NEW i \in DOMAIN l,
           l[i].hits < MaxCount, NEW t \in 0..MaxTime, NEW v \in Value
    PROVE  \E y \in CacheItem :
              /\ y.key = l[i].key /\ y.val = v
              /\ Reused(Cache!Touched([l EXCEPT ![i].val = v], i, t), l, i, y)
  <1> DEFINE u == [l EXCEPT ![i].val = v]
  <1>1. l[i] \in CacheItem /\ \A j \in DOMAIN l : l[j] \in CacheItem
    OBVIOUS
  <1>2. [l[i] EXCEPT !.val = v] \in CacheItem
    BY <1>1 DEF CacheItem, Cache!Item
  <1>3. u \in Seq(CacheItem) /\ Len(u) = Len(l) /\ DOMAIN u = DOMAIN l
    BY <1>2
  <1>4. u[i] = [l[i] EXCEPT !.val = v] /\ \A j \in DOMAIN l : j # i => u[j] = l[j]
    OBVIOUS
  <1> HIDE DEF u
  <1>5. u[i].key = l[i].key /\ u[i].val = v /\ u[i].hits = l[i].hits
    BY <1>1, <1>4 DEF CacheItem, Cache!Item
  <1>6. PICK y \in CacheItem : /\ y.key = u[i].key /\ y.val = u[i].val
                           /\ Reused(Cache!Touched(u, i, t), u, i, y)
    BY <1>3, <1>5, TouchedReuses
  <1>7. ASSUME NEW m, LeavesOut(m, u, i) PROVE LeavesOut(m, l, i)
    <2>1. Len(l) \in Nat /\ i \in 1..Len(l) /\ DOMAIN l = 1..Len(l)
      OBVIOUS
    <2>2. ASSUME NEW j \in 1..(Len(l) - 1) PROVE m[j] = IF j < i THEN l[j] ELSE l[j + 1]
      <3>1. m[j] = IF j < i THEN u[j] ELSE u[j + 1]
        BY <1>3, <1>7 DEF LeavesOut
      <3>2. j \in DOMAIN l /\ j + 1 \in DOMAIN l /\ (j < i => j # i) /\ (~(j < i) => j + 1 # i)
        BY <2>1
      <3> QED BY <1>4, <3>1, <3>2
    <2> QED BY <1>3, <1>7, <2>2 DEF LeavesOut
  <1>8. Reused(Cache!Touched(u, i, t), l, i, y)
    BY <1>6, <1>7 DEF Reused
  <1> QED BY <1>5, <1>6, <1>8 DEF u

\* What a set evicts was used no more often than what it keeps.
EvictsWell(k) ==
    LET kept == Cache!ToSet([i \in DOMAIN items' |-> items'[i].key])
    IN  \A i, j \in DOMAIN items :
           items[i].key \notin kept /\ items[j].key \in kept \ {k}
           => items[i].hits <= items[j].hits

\* After evictions, h keeps the keys of l but for k, which it may have or not.
KeepsBut(h, l, k) ==
    /\ \A x \in ToSet(h) : x.key = k \/ x \in ToSet(l)
    /\ \A x \in ToSet(l) : \E y \in ToSet(h) : y.key = x.key

\* What an update or a new head adds to what the evictions left does not spoil it.
LEMMA EvictsFewUsed ==
    ASSUME CacheInv, NEW n \in Nat, NEW c, EvictedWell(c, n), NEW k, NEW h,
           KeepsBut(h, c.items, k), items' = h
    PROVE  EvictsWell(k)
  <1> DEFINE kept == Cache!ToSet([i \in DOMAIN items' |-> items'[i].key])
  <1> SUFFICES ASSUME NEW i \in DOMAIN items, NEW j \in DOMAIN items,
                      items[i].key \notin kept, items[j].key \in kept \ {k}
               PROVE  items[i].hits <= items[j].hits
    BY DEF EvictsWell
  <1>1. kept = {h[a].key : a \in DOMAIN h}
    BY DEF Cache!ToSet
  <1>2. Apart(items) /\ ToSet(c.items) \subseteq ToSet(items)
        /\ \A m \in ToSet(items) \ ToSet(c.items), o \in ToSet(c.items) : m.hits <= o.hits
    BY DEF CacheInv, Accounts, Now, EvictedWell
  <1> HIDE DEF kept
  <1>3. items[i] \in ToSet(items) \ ToSet(c.items)
    <2>1. ASSUME items[i] \in ToSet(c.items) PROVE FALSE
      <3>1. PICK y \in ToSet(h) : y.key = items[i].key
        BY <2>1 DEF KeepsBut
      <3>2. PICK a \in DOMAIN h : y = h[a]
        BY <3>1 DEF ToSet
      <3> QED BY <1>1, <3>1, <3>2
    <2> QED BY <2>1 DEF ToSet
  <1>4. items[j] \in ToSet(c.items)
    <2>1. PICK a \in DOMAIN h : h[a].key = items[j].key
      BY <1>1
    <2>2. h[a] \in ToSet(h) /\ h[a].key # k
      BY <2>1 DEF ToSet
    <2>3. h[a] \in ToSet(items) /\ h[a] \in ToSet(c.items)
      BY <1>2, <2>2 DEF KeepsBut
    <2>4. PICK b \in DOMAIN items : h[a] = items[b]
      BY <2>3 DEF ToSet
    <2>5. b = j
      BY <1>2, <2>1, <2>4 DEF Apart
    <2> QED BY <2>3, <2>4, <2>5
  <1> QED BY <1>2, <1>3, <1>4

\* A set keeps the accounts, whichever of its allocations fails.
LEMMA SetWell ==
    ASSUME Cache!CacheAssumption, CacheInv, NEW k \in Key, NEW v \in Value, Cache!Set(k, v)
    PROVE  CacheInv' /\ EvictsWell(k)
  <1> DEFINE c == Cache!Evicted(Cache!Evictions(SizeOf[v]))
             i == Cache!Position(c.items, k)
  <1>1. PICK n \in 0..Len(items) : EvictedWell(c, n)
    BY RoomWell
  <1>2. /\ now' = now
        /\ i # 0 => c.items[i].hits < MaxCount
        /\ \/ items' = c.items /\ cacheUsed' = c.used /\ itemCount' = c.count /\ latest' = latest
           \/ /\ Cache!Fits(c, SizeOf[v]) /\ i # 0
              /\ items' = Cache!Touched([c.items EXCEPT ![i].val = v], i, now)
              /\ cacheUsed' = c.used - SizeOf[c.items[i].val] + SizeOf[v]
              /\ itemCount' = c.count
              /\ latest' = [latest EXCEPT ![k] = {v}]
           \/ /\ Cache!Fits(c, SizeOf[v]) /\ i = 0
              /\ items' = <<[key |-> k, val |-> v, hits |-> 1, time |-> now]>> \o c.items
              /\ cacheUsed' = c.used + SizeOf[v]
              /\ itemCount' = c.count + 1
              /\ latest' = [latest EXCEPT ![k] = {v}]
    BY DEF Cache!Set, Cache!Size
  <1> HIDE DEF c, i
  <1>3. n \in Nat /\ Len(items) \in Nat
    BY DEF CacheInv, Accounts, Now
  <1>4. /\ c.items \in Seq(CacheItem) /\ Apart(c.items) /\ c.used \in Nat
        /\ c.used = Sum(Weights(c.items), Len(c.items)) /\ c.count = Len(c.items)
        /\ Len(c.items) <= Len(items) /\ c.used <= cacheUsed
        /\ ToSet(c.items) \subseteq ToSet(items) /\ Len(c.items) \in Nat
    BY <1>1, <1>3 DEF EvictedWell, Accounts
  <1>5. /\ cacheUsed <= Capacity /\ itemCount <= MaxItems /\ cacheUsed \in Nat
        /\ itemCount = Len(items) /\ Capacity \in Nat /\ MaxItems \in Nat
        /\ latest \in [Key -> SUBSET Value] /\ Fresh(c.items, latest)
        /\ c.used <= Capacity /\ c.count <= MaxItems /\ now \in 0..MaxTime
    BY <1>3, <1>4 DEF CacheInv, Accounts, Now, Cache!CacheAssumption, Fresh
  <1>6. SizeOf[v] \in Nat /\ SizeOf[v] > 0
    BY DEF Cache!CacheAssumption
  <1>7. CASE items' = c.items /\ cacheUsed' = c.used /\ itemCount' = c.count /\ latest' = latest
    <2>1. CacheInv'
      BY <1>2, <1>4, <1>5, <1>7 DEF CacheInv, Accounts, Now, Fresh, Apart, Weights
    <2>2. KeepsBut(c.items, c.items, k)
      BY DEF KeepsBut
    <2> QED BY <1>1, <1>3, <1>7, <2>1, <2>2, EvictsFewUsed
  <1>8. CASE /\ Cache!Fits(c, SizeOf[v]) /\ i # 0
             /\ items' = Cache!Touched([c.items EXCEPT ![i].val = v], i, now)
             /\ cacheUsed' = c.used - SizeOf[c.items[i].val] + SizeOf[v]
             /\ itemCount' = c.count
             /\ latest' = [latest EXCEPT ![k] = {v}]
    <2> DEFINE h == Cache!Touched([c.items EXCEPT ![i].val = v], i, now)
    <2>1. i \in DOMAIN c.items /\ c.items[i].key = k
      BY <1>4, <1>8, PositionFinds DEF i
    <2>2. PICK y \in CacheItem : y.key = k /\ y.val = v /\ Reused(h, c.items, i, y)
      BY <1>2, <1>4, <1>5, <1>8, <2>1, UpdateReuses
    <2> HIDE DEF h
    <2>3. /\ h \in Seq(CacheItem) /\ Apart(h) /\ Len(h) = Len(c.items)
          /\ Sum(Weights(h), Len(h)) + SizeOf[c.items[i].val]
             = Sum(Weights(c.items), Len(c.items)) + SizeOf[y.val]
          /\ Sum(Weights(h), Len(h)) \in Nat /\ Sum(Weights(c.items), Len(c.items)) \in Nat
          /\ SizeOf[c.items[i].val] \in Nat
          /\ \A x \in ToSet(h) : x = y \/ (x \in ToSet(c.items) /\ x.key # y.key)
          /\ y \in ToSet(h)
          /\ \A x \in ToSet(c.items) : x.key = y.key \/ x \in ToSet(h)
      BY <1>4, <2>1, <2>2, ReusedWell
    <2>4. /\ items' = h /\ itemCount' = Len(h)
          /\ cacheUsed' = Sum(Weights(h), Len(h)) /\ cacheUsed' <= Capacity
      <3> DEFINE a == Sum(Weights(h), Len(h))
                 e == SizeOf[c.items[i].val]
                 d == SizeOf[v]
      <3>1. /\ a + e = c.used + d /\ a \in Nat /\ e \in Nat /\ d \in Nat /\ c.used \in Nat
            /\ cacheUsed' = c.used - e + d /\ c.used + d <= Capacity
        BY <1>4, <1>6, <1>8, <2>2, <2>3 DEF Cache!Fits
      <3>2. Capacity \in Nat
        BY <1>5
      <3> HIDE DEF a, e, d
      <3>3. cacheUsed' = a
        BY <3>1
      <3>4. a = c.used + d - e
        BY <3>1
      <3>5. a <= Capacity
        BY <3>1, <3>2, <3>4
      <3> QED BY <1>4, <1>8, <2>3, <3>3, <3>5 DEF a, h
    <2>5. latest' \in [Key -> SUBSET Value] /\ Fresh(h, latest')
      <3>1. ASSUME NEW x \in ToSet(h) PROVE latest'[x.key] = {x.val}
        <4>1. x \in CacheItem
          BY <2>3 DEF ToSet
        <4>2. x.key \in Key
          BY <4>1, ItemFields
        <4>3. CASE x = y
          BY <1>5, <1>8, <2>2, <4>3
        <4>4. CASE x \in ToSet(c.items) /\ x.key # k
          BY <1>5, <1>8, <4>2, <4>4 DEF Fresh
        <4> QED BY <2>2, <2>3, <4>3, <4>4
      <3> QED BY <1>5, <1>8, <3>1 DEF Fresh
    <2>8. Accounts(Now)'
      BY <2>3, <2>4 DEF Accounts, Now, Apart, Weights
    <2>6. CacheInv'
      BY <1>2, <1>4, <1>5, <1>8, <2>3, <2>4, <2>5, <2>8 DEF CacheInv, Fresh
    <2>7. KeepsBut(h, c.items, k)
      BY <2>2, <2>3 DEF KeepsBut
    <2> QED BY <1>1, <1>3, <2>4, <2>6, <2>7, EvictsFewUsed
  <1>9. CASE /\ Cache!Fits(c, SizeOf[v]) /\ i = 0
             /\ items' = <<[key |-> k, val |-> v, hits |-> 1, time |-> now]>> \o c.items
             /\ cacheUsed' = c.used + SizeOf[v]
             /\ itemCount' = c.count + 1
             /\ latest' = [latest EXCEPT ![k] = {v}]
    <2> DEFINE y == [key |-> k, val |-> v, hits |-> 1, time |-> now]
               h == <<y>> \o c.items
    <2>1. y \in CacheItem /\ y.key = k /\ y.val = v
      BY <1>5 DEF CacheItem, Cache!Item, Cache!CacheAssumption
    <2>2. \A j \in DOMAIN c.items : c.items[j].key # k
      BY <1>4, <1>9, PositionFinds DEF i
    <2>3. /\ h \in Seq(CacheItem) /\ Len(h) = Len(c.items) + 1 /\ Apart(h)
          /\ Sum(Weights(h), Len(c.items) + 1)
             = Sum(Weights(c.items), Len(c.items)) + SizeOf[y.val]
          /\ ToSet(h) = ToSet(c.items) \cup {y}
      <3> HIDE DEF y
      <3> QED BY <1>4, <2>1, <2>2, NewHead
    <2>4. items' = h
      BY <1>9
    <2> HIDE DEF h, y
    <2>5. /\ itemCount' = Len(h) /\ itemCount' <= MaxItems
          /\ cacheUsed' = Sum(Weights(h), Len(h)) /\ cacheUsed' <= Capacity /\ cacheUsed' \in Nat
      <3> DEFINE total == Sum(Weights(h), Len(h))
                 d == SizeOf[v]
      <3>1. itemCount' = Len(h) /\ c.count < MaxItems /\ itemCount' = c.count + 1
        BY <1>4, <1>9, <2>3 DEF Cache!Fits
      <3>2. total = c.used + d /\ cacheUsed' = c.used + d /\ c.used + d <= Capacity
        BY <1>4, <1>9, <2>1, <2>3 DEF Cache!Fits
      <3>3. c.count \in Nat /\ c.used \in Nat /\ d \in Nat
        BY <1>4, <1>6
      <3> HIDE DEF d, total
      <3>4. itemCount' <= MaxItems
        BY <1>5, <3>1, <3>3
      <3>5. cacheUsed' = total /\ cacheUsed' <= Capacity /\ cacheUsed' \in Nat
        BY <3>2, <3>3
      <3> QED BY <3>1, <3>4, <3>5 DEF total
    <2>6. latest' \in [Key -> SUBSET Value] /\ Fresh(h, latest')
      <3>1. ASSUME NEW x \in ToSet(h) PROVE latest'[x.key] = {x.val}
        <4>1. CASE x = y
          BY <1>5, <1>9, <2>1, <4>1
        <4>2. CASE x \in ToSet(c.items)
          <5>1. x \in CacheItem /\ x.key # k
            BY <1>4, <2>2, <4>2 DEF ToSet
          <5>2. x.key \in Key
            BY <5>1, ItemFields
          <5> QED BY <1>5, <1>9, <4>2, <5>1, <5>2 DEF Fresh
        <4> QED BY <2>3, <4>1, <4>2
      <3> QED BY <1>5, <1>9, <3>1 DEF Fresh
    <2>9. Accounts(Now)'
      BY <2>3, <2>4, <2>5 DEF Accounts, Now, Apart, Weights
    <2>7. CacheInv'
      BY <1>2, <1>5, <2>4, <2>5, <2>6, <2>9 DEF CacheInv, Fresh
    <2>8. KeepsBut(h, c.items, k)
      BY <2>1, <2>3 DEF KeepsBut
    <2> QED BY <1>1, <1>3, <2>4, <2>7, <2>8, EvictsFewUsed
  <1> QED BY <1>2, <1>7, <1>8, <1>9

\* A new cache is empty.
LEMMA InitCacheInv ==
    ASSUME Cache!CacheAssumption, Cache!Init
    PROVE  CacheInv
  <1>1. /\ items = <<>> /\ cacheUsed = 0 /\ itemCount = 0 /\ now = 0
        /\ latest = [k \in Key |-> {}]
    BY DEF Cache!Init
  <1>2. items \in Seq(CacheItem) /\ Len(items) = 0 /\ DOMAIN items = {} /\ ToSet(items) = {}
    BY <1>1 DEF ToSet
  <1>3. Sum(Weights(items), Len(items)) = 0
    <2>1. Weights(items) \in [1..0 -> Nat]
      BY <1>2, WeightsType
    <2> QED BY <1>2, <2>1, SumOfNone
  <1>4. Accounts(Now)
    BY <1>1, <1>2, <1>3 DEF Accounts, Now, Apart
  <1>5. Capacity \in Nat /\ MaxItems \in Nat /\ MaxTime \in Nat
    BY DEF Cache!CacheAssumption
  <1> QED BY <1>1, <1>2, <1>4, <1>5 DEF CacheInv, Fresh

\* An empty list accounts for nothing.
LEMMA ClearWell ==
    ASSUME Cache!CacheAssumption, CacheInv, Cache!Clear
    PROVE  CacheInv'
  <1>1. /\ items' = <<>> /\ cacheUsed' = 0 /\ itemCount' = 0 /\ now' = now
        /\ latest' = [k \in Key |-> {}]
    BY DEF Cache!Clear
  <1>2. items' \in Seq(CacheItem) /\ Len(items') = 0 /\ DOMAIN items' = {} /\ ToSet(items') = {}
    BY <1>1 DEF ToSet
  <1>3. Sum(Weights(items'), Len(items')) = 0
    <2>1. Weights(items') \in [1..0 -> Nat]
      BY <1>2, WeightsType
    <2> QED BY <1>2, <2>1, SumOfNone
  <1>4. Accounts(Now)'
    BY <1>1, <1>2, <1>3 DEF Accounts, Now, Apart, Weights
  <1>5. Capacity \in Nat /\ MaxItems \in Nat /\ now \in 0..MaxTime
    BY DEF CacheInv, Cache!CacheAssumption
  <1> QED BY <1>1, <1>2, <1>4, <1>5 DEF CacheInv, Fresh

\* A get that finds its item makes it the head, with the value it has.
LEMMA GetWell ==
    ASSUME Cache!CacheAssumption, CacheInv, NEW k \in Key, Cache!Get(k)
    PROVE  CacheInv'
  <1> DEFINE i == Cache!Position(items, k)
  <1>1. PICK t \in now..MaxTime :
           /\ now' = t
           /\ IF i = 0 THEN UNCHANGED items
              ELSE items[i].hits < MaxCount /\ items' = Cache!Touched(items, i, t)
    BY DEF Cache!Get
  <1>2. UNCHANGED <<cacheUsed, itemCount, latest>>
    BY DEF Cache!Get
  <1>3. /\ items \in Seq(CacheItem) /\ Apart(items) /\ cacheUsed \in Nat
        /\ cacheUsed = Sum(Weights(items), Len(items)) /\ itemCount = Len(items)
        /\ cacheUsed <= Capacity /\ itemCount <= MaxItems
        /\ latest \in [Key -> SUBSET Value] /\ Fresh(items, latest)
    BY DEF CacheInv, Accounts, Now
  <1>4. t \in 0..MaxTime
    BY <1>1 DEF CacheInv, Cache!CacheAssumption
  <1>5. CASE i = 0
    <2>1. items' = items
      BY <1>1, <1>5
    <2> QED BY <1>1, <1>2, <1>3, <1>4, <2>1 DEF CacheInv, Accounts, Now, Fresh, Apart, Weights
  <1>6. CASE i # 0
    <2> DEFINE h == Cache!Touched(items, i, t)
    <2>1. i \in DOMAIN items /\ items[i].hits < MaxCount /\ items' = h
      BY <1>1, <1>3, <1>6, PositionFinds
    <2> HIDE DEF i
    <2>2. PICK y \in CacheItem : /\ y.key = items[i].key /\ y.val = items[i].val
                             /\ Reused(h, items, i, y)
      BY <1>3, <1>4, <2>1, TouchedReuses
    <2> HIDE DEF h
    <2>3. /\ h \in Seq(CacheItem) /\ Apart(h) /\ Len(h) = Len(items)
          /\ Sum(Weights(h), Len(h)) + SizeOf[items[i].val]
             = Sum(Weights(items), Len(items)) + SizeOf[y.val]
          /\ Sum(Weights(h), Len(h)) \in Nat /\ Sum(Weights(items), Len(items)) \in Nat
          /\ SizeOf[items[i].val] \in Nat
          /\ \A x \in ToSet(h) : x = y \/ (x \in ToSet(items) /\ x.key # y.key)
      BY <1>3, <2>1, <2>2, ReusedWell
    <2>4. cacheUsed' = Sum(Weights(h), Len(h))
      <3> DEFINE a == Sum(Weights(h), Len(h))
                 b == Sum(Weights(items), Len(items))
                 e == SizeOf[items[i].val]
      <3>1. a + e = b + e /\ a \in Nat /\ b \in Nat /\ e \in Nat
        BY <2>2, <2>3
      <3>2. cacheUsed' = b
        BY <1>2, <1>3
      <3> HIDE DEF a, b, e
      <3>3. cacheUsed' = a
        BY <3>1, <3>2
      <3> QED BY <3>3 DEF a
    <2>5. Fresh(h, latest')
      <3>1. latest' = latest /\ items[i] \in ToSet(items)
        BY <1>2, <2>1 DEF ToSet
      <3>2. latest[y.key] = {y.val}
        BY <1>3, <2>2, <3>1 DEF Fresh
      <3> QED BY <1>3, <2>3, <3>1, <3>2 DEF Fresh
    <2>6. Accounts(Now)'
      BY <1>2, <1>3, <2>1, <2>3, <2>4 DEF Accounts, Now, Apart, Weights
    <2> QED BY <1>1, <1>2, <1>3, <1>4, <2>1, <2>5, <2>6 DEF CacheInv, Fresh
  <1> QED BY <1>5, <1>6

\* A delete gives back the size of its item.
LEMMA DeleteWell ==
    ASSUME Cache!CacheAssumption, CacheInv, NEW k \in Key, Cache!Delete(k)
    PROVE  CacheInv'
  <1> DEFINE i == Cache!Position(items, k)
             m == Cache!RemoveAt(items, i)
  <1>1. /\ i # 0 /\ items' = m /\ cacheUsed' = cacheUsed - SizeOf[items[i].val]
        /\ itemCount' = itemCount - 1 /\ latest' = [latest EXCEPT ![k] = {}] /\ now' = now
    BY DEF Cache!Delete, Cache!Size
  <1>2. /\ items \in Seq(CacheItem) /\ Apart(items) /\ cacheUsed \in Nat
        /\ cacheUsed = Sum(Weights(items), Len(items)) /\ itemCount = Len(items)
        /\ cacheUsed <= Capacity /\ itemCount <= MaxItems
        /\ latest \in [Key -> SUBSET Value] /\ Fresh(items, latest)
        /\ Capacity \in Nat /\ MaxItems \in Nat /\ now \in 0..MaxTime
    BY DEF CacheInv, Accounts, Now, Cache!CacheAssumption
  <1>3. i \in DOMAIN items /\ items[i].key = k
    BY <1>1, <1>2, PositionFinds
  <1> HIDE DEF i
  <1>4. LeavesOut(m, items, i)
    BY <1>2, <1>3, RemoveLeavesOut
  <1> HIDE DEF m
  <1>5. m \in Seq(CacheItem) /\ Len(m) = Len(items) - 1 /\ Len(items) \in Nat /\ Len(m) \in Nat
    BY <1>2, <1>4 DEF LeavesOut
  <1>6. /\ Sum(Weights(items), Len(items)) = Sum(Weights(m), Len(m)) + SizeOf[items[i].val]
        /\ ToSet(m) \subseteq ToSet(items)
        /\ Apart(m) /\ \A j \in DOMAIN m : m[j].key # items[i].key
    BY <1>2, <1>3, <1>4, LeavingOut
  <1>7. Sum(Weights(m), Len(m)) \in Nat
    <2>1. Weights(m) \in [1..Len(m) -> Nat]
      BY <1>5, WeightsType
    <2> QED BY <1>5, <2>1, SumExists, SumIs
  <1>8. SizeOf[items[i].val] \in Nat
    <2>1. items[i] \in CacheItem
      BY <1>2, <1>3
    <2> QED BY <2>1, ItemFields
  <1>9. cacheUsed' = Sum(Weights(m), Len(m)) /\ cacheUsed' <= Capacity
    <2> DEFINE a == Sum(Weights(m), Len(m))
               e == SizeOf[items[i].val]
    <2>1. cacheUsed = a + e /\ cacheUsed' = cacheUsed - e /\ a \in Nat /\ e \in Nat
      BY <1>1, <1>2, <1>6, <1>7, <1>8
    <2> HIDE DEF a, e
    <2>2. cacheUsed' = a /\ cacheUsed' <= Capacity
      BY <1>2, <2>1
    <2> QED BY <2>2 DEF a
  <1>10. itemCount' = Len(m) /\ itemCount' <= MaxItems
    BY <1>1, <1>2, <1>5
  <1>11. latest' \in [Key -> SUBSET Value] /\ Fresh(m, latest')
    <2>1. ASSUME NEW x \in ToSet(m) PROVE latest'[x.key] = {x.val}
      <3>0. PICK j \in DOMAIN m : x = m[j]
        BY <2>1 DEF ToSet
      <3>1. x \in CacheItem /\ x.key # k /\ x \in ToSet(items)
        BY <1>3, <1>5, <1>6, <2>1, <3>0
      <3>2. x.key \in Key
        BY <3>1, ItemFields
      <3> QED BY <1>1, <1>2, <3>1, <3>2 DEF Fresh
    <2> QED BY <1>1, <1>2, <2>1 DEF Fresh
  <1>12. Accounts(Now)'
    BY <1>1, <1>5, <1>6, <1>7, <1>9, <1>10 DEF Accounts, Now, Apart, Weights
  <1> QED BY <1>1, <1>2, <1>9, <1>10, <1>11, <1>12 DEF CacheInv, Fresh

\* Every operation keeps the invariant.
LEMMA NextKeepsCache ==
    ASSUME Cache!CacheAssumption, CacheInv, [Cache!Next]_cacheVars
    PROVE  CacheInv'
  <1>1. CASE Cache!Next
    BY <1>1, SetWell, GetWell, DeleteWell, ClearWell DEF Cache!Next
  <1>2. CASE UNCHANGED cacheVars
    BY <1>2 DEF cacheVars, CacheInv, Accounts, Now, Fresh, Apart, Weights
  <1> QED BY <1>1, <1>2

\* What the run checks follows.
LEMMA CacheInvSound ==
    ASSUME Cache!CacheAssumption, CacheInv
    PROVE  CacheSound
  <1>1. /\ items \in Seq(CacheItem) /\ Apart(items)
        /\ cacheUsed = Sum(Weights(items), Len(items)) /\ itemCount = Len(items)
        /\ cacheUsed <= Capacity /\ itemCount <= MaxItems
        /\ Fresh(items, latest)
    BY DEF CacheInv, Accounts, Now
  <1>2. Cache!AccountsExact
    <2>1. cacheUsed = Cache!FoldSeq(LAMBDA m, s : s + Cache!Size(m), 0, items)
      BY <1>1, FoldIsSum
    <2> QED BY <1>1, <2>1 DEF Cache!AccountsExact
  <1>3. Cache!ServesLatestValue
    BY <1>1 DEF Cache!ServesLatestValue, Fresh, Apart, ToSet
  <1> QED BY <1>2, <1>3 DEF CacheSound

-----------------------------------------------------------------------------
(* Monitoring.                                                               *)
\* The total that the property speaks of is the sum.
LEMMA TotalIsSum ==
    ASSUME NEW q \in Seq(Nat)
    PROVE  Monitor!Total(q) = Sum(q, Len(q))
  <1> DEFINE n == Len(q)
             pick == [s \in SUBSET (1..n) |-> Max(s)]
             A(f) == [s \in SUBSET (1..n) |->
                        IF s = {} THEN 0 ELSE f[s \ {pick[s]}] + q[pick[s]]]
             B(f) == [s \in SUBSET (1..n) |->
                        IF s = {} THEN 0 ELSE f[s \ {Max(s)}] + q[Max(s)]]
             F == CHOOSE f : f = B(f)
  <1>1. n \in Nat /\ DOMAIN q = 1..n /\ q \in [1..n -> Nat]
    OBVIOUS
  <1>2. \A s \in SUBSET (1..n) : s # {} => pick[s] \in s /\ pick[s] = Max(s)
    BY <1>1, MaxIsGreatest
  <1>3. \A f : A(f) = B(f)
    OBVIOUS
  <1>4. /\ \E f : IsSetSum(f, q, n, pick)
        /\ \A f : IsSetSum(f, q, n, pick) => f[1..n] = Sum(q, n)
    <2> HIDE DEF n, pick
    <2> QED BY <1>1, <1>2, SetSum
  <1>5. IsSetSum(F, q, n, pick)
    <2>1. \A f : IsSetSum(f, q, n, pick) <=> f = A(f)
      BY DEF IsSetSum
    <2>2. F = CHOOSE f : f = B(f)
      OBVIOUS
    <2> HIDE DEF A, B, F
    <2>3. PICK f : f = B(f)
      BY <1>3, <1>4, <2>1
    <2>4. F = B(F)
      BY <2>2, <2>3
    <2> QED BY <1>3, <2>1, <2>4
  <1>6. Monitor!Total(q) = F[1..n]
    BY <1>1 DEF Monitor!Total, Monitor!FoldLeft, Monitor!MapThenFoldSet, Monitor!Max, Max
  <1> QED BY <1>4, <1>5, <1>6

\* What is measured.
Fields == {"sum", "count", "least", "most"}
Figures == [Fields -> Nat]

\* Zero is the figures of nothing.
LEMMA ZeroFigures ==
    /\ DOMAIN Monitor!Zero = Fields /\ Monitor!Zero \in Figures
    /\ \A f \in Fields : Monitor!Zero[f] = 0
  BY DEF Fields, Figures, Monitor!Zero

\* A statistic's figures are those of its values.
Exact(kind, value, q) ==
    /\ kind = "counter" => value["sum"] = Sum(q, Len(q))
    /\ kind = "gauge" => value["sum"] = IF q = <<>> THEN 0 ELSE q[Len(q)]
    /\ kind = "timer" =>
         /\ value["count"] = Len(q) /\ value["sum"] = Sum(q, Len(q))
         /\ q = <<>> => value["most"] = 0
         /\ q # <<>> => /\ value["least"] \in ToSet(q)
                        /\ \A x \in ToSet(q) : value["least"] <= x
                        /\ value["most"] \in ToSet(q)
                        /\ \A x \in ToSet(q) : x <= value["most"]

\* A statistic that measured nothing is zero.
LEMMA ZeroExact ==
    ASSUME NEW kind
    PROVE  Exact(kind, Monitor!Zero, <<>>)
  <1>1. Monitor!Zero["sum"] = 0 /\ Monitor!Zero["count"] = 0 /\ Monitor!Zero["most"] = 0
    BY DEF Monitor!Zero
  <1> QED BY <1>1, SumOfEmpty DEF Exact

\* One more value.
LEMMA AddedExact ==
    ASSUME NEW kind \in Monitor!Kind, NEW old \in Figures, NEW q \in Seq(Nat), NEW v \in Nat,
           Exact(kind, old, q)
    PROVE  /\ Monitor!Added(kind, old, v) \in Figures
           /\ Exact(kind, Monitor!Added(kind, old, v), Append(q, v))
  <1> DEFINE r == Append(q, v)
             new == Monitor!Added(kind, old, v)
  <1>1. /\ r \in Seq(Nat) /\ Len(r) = Len(q) + 1 /\ r[Len(r)] = v /\ r # <<>>
        /\ Len(q) \in Nat
    OBVIOUS
  <1>2. ToSet(r) = ToSet(q) \cup {v} /\ (q = <<>> => ToSet(q) = {})
    <2>1. \A i \in 1..Len(q) : r[i] = q[i]
      OBVIOUS
    <2>2. DOMAIN r = 1..(Len(q) + 1) /\ DOMAIN q = 1..Len(q) /\ r[Len(q) + 1] = v
      OBVIOUS
    <2> HIDE DEF r
    <2>3. DOMAIN r = DOMAIN q \cup {Len(q) + 1}
      BY <1>1, <2>2
    <2> QED BY <2>1, <2>2, <2>3 DEF ToSet
  <1>3. Sum(r, Len(r)) = Sum(q, Len(q)) + v /\ Sum(q, Len(q)) \in Nat
    BY <1>1, SumAppend
  <1>4. old["sum"] \in Nat /\ old["count"] \in Nat /\ old["least"] \in Nat /\ old["most"] \in Nat
    BY DEF Figures, Fields
  <1> HIDE DEF r
  <1>5. CASE kind = "counter"
    <2>1. new = [old EXCEPT !["sum"] = old["sum"] + v]
      BY <1>5 DEF Monitor!Added
    <2>2. new \in Figures /\ new["sum"] = old["sum"] + v
      BY <1>4, <2>1 DEF Figures, Fields
    <2> QED BY <1>3, <1>5, <2>2 DEF Exact, r
  <1>6. CASE kind = "gauge"
    <2>1. new = [old EXCEPT !["sum"] = v]
      BY <1>6 DEF Monitor!Added
    <2>2. new \in Figures /\ new["sum"] = v
      BY <1>4, <2>1 DEF Figures, Fields
    <2> QED BY <1>1, <1>6, <2>2 DEF Exact, r
  <1>7. CASE kind = "timer"
    <2> DEFINE lo == IF old["count"] = 0 \/ v < old["least"] THEN v ELSE old["least"]
               hi == IF v > old["most"] THEN v ELSE old["most"]
    <2>1. new = [sum |-> old["sum"] + v, count |-> old["count"] + 1, least |-> lo, most |-> hi]
      BY <1>7 DEF Monitor!Added
    <2>2. /\ DOMAIN new = Fields /\ new["sum"] = old["sum"] + v
          /\ new["count"] = old["count"] + 1 /\ new["least"] = lo /\ new["most"] = hi
      BY <2>1 DEF Fields
    <2>3. lo \in Nat /\ hi \in Nat
      BY <1>4
    <2>4. new \in Figures
      <3>1. new = [f \in Fields |-> new[f]]
        BY <2>1, <2>2 DEF Fields
      <3>2. \A f \in Fields : new[f] \in Nat
        BY <1>4, <2>2, <2>3 DEF Fields
      <3> HIDE DEF new
      <3> QED BY <3>1, <3>2 DEF Figures
    <2>5. /\ lo \in ToSet(r) /\ \A x \in ToSet(r) : lo <= x
          /\ hi \in ToSet(r) /\ \A x \in ToSet(r) : x <= hi
      <3>1. CASE q = <<>>
        <4>1. old["count"] = 0 /\ old["most"] = 0
          BY <1>7, <3>1 DEF Exact
        <4>2. lo = v
          BY <4>1
        <4>3. ToSet(r) = {v}
          BY <1>2, <3>1
        <4>4. hi = v
          BY <4>1
        <4> QED BY <4>2, <4>3, <4>4
      <3>2. CASE q # <<>>
        <4>1. /\ old["count"] # 0
              /\ old["least"] \in ToSet(q) /\ \A x \in ToSet(q) : old["least"] <= x
              /\ old["most"] \in ToSet(q) /\ \A x \in ToSet(q) : x <= old["most"]
          BY <1>1, <1>7, <3>2 DEF Exact
        <4>2. \A x \in ToSet(q) : x \in Nat
          BY DEF ToSet
        <4> HIDE DEF new
        <4> QED BY <1>2, <1>4, <4>1, <4>2
      <3> QED BY <3>1, <3>2
    <2> HIDE DEF lo, hi
    <2> QED BY <1>1, <1>3, <1>7, <2>2, <2>4, <2>5 DEF Exact, r
  <1> QED BY <1>5, <1>6, <1>7 DEF Monitor!Kind

\* An entry of the list.
Entry == [name : Stat, kind : Monitor!Kind, value : Figures]

\* No name is listed twice.
NamesApart(q) == \A i, j \in DOMAIN q : q[i].name = q[j].name => i = j

\* Each entry sums up what was measured.
AllExact(q, past) == \A i \in DOMAIN q : Exact(q[i].kind, q[i].value, past[q[i].name])

\* The list is in order, and each entry is exact.
MonitorInv ==
    /\ enabled \in BOOLEAN
    /\ stats \in Seq(Entry) /\ measured \in [Stat -> Seq(Nat)]
    /\ NamesApart(stats) /\ Len(stats) <= MaxStats
    /\ AllExact(stats, measured)

\* A search ends at the entry with the name.
LEMMA StatFound ==
    ASSUME stats \in Seq(Entry), NEW n
    PROVE  \/ Monitor!FindStat(n) \in DOMAIN stats /\ stats[Monitor!FindStat(n)].name = n
              /\ Monitor!FindStat(n) # 0
           \/ Monitor!FindStat(n) = 0 /\ \A i \in DOMAIN stats : stats[i].name # n
  <1> DEFINE I == {i \in 1..Len(stats) : stats[i].name = n}
  <1>1. Monitor!FindStat(n) = IF I # {} THEN Min(I) ELSE 0
    BY DEF Monitor!FindStat, Monitor!SelectInSeq, Monitor!Min, Min
  <1>2. I \in SUBSET Nat /\ DOMAIN stats = 1..Len(stats)
    OBVIOUS
  <1>3. CASE I # {}
    <2>1. Min(I) \in I
      <3> HIDE DEF I
      <3> QED BY <1>2, <1>3, MinIsLeast
    <2> QED BY <1>1, <1>2, <1>3, <2>1
  <1>4. CASE I = {}
    BY <1>1, <1>2, <1>4
  <1> QED BY <1>3, <1>4

\* At first there is at most one entry.
LEMMA InitMonitorInv ==
    ASSUME Monitor!MonitoringAssumption, Monitor!MonitoringInit
    PROVE  MonitorInv
  <1> DEFINE e == [name |-> CountName, kind |-> "gauge", value |-> Monitor!Zero]
  <1>1. e \in Entry
    BY ZeroFigures DEF Entry, Monitor!MonitoringAssumption, Monitor!Kind
  <1>2. \A n \in Stat : measured[n] = <<>>
    BY DEF Monitor!MonitoringInit
  <1>3. measured \in [Stat -> Seq(Nat)] /\ enabled \in BOOLEAN
    BY DEF Monitor!MonitoringInit
  <1>4. stats = <<e>> \/ stats = <<>>
    BY DEF Monitor!MonitoringInit
  <1>5. stats \in Seq(Entry) /\ NamesApart(stats) /\ Len(stats) <= MaxStats
    <2> HIDE DEF e
    <2>1. MaxStats \in Nat \ {0}
      BY DEF Monitor!MonitoringAssumption
    <2>2. <<e>> \in Seq(Entry) /\ Len(<<e>>) = 1 /\ <<>> \in Seq(Entry) /\ Len(<<>>) = 0
      BY <1>1
    <2>3. stats \in Seq(Entry) /\ Len(stats) <= MaxStats /\ Len(stats) \in {0, 1}
      <3>1. stats \in Seq(Entry) /\ Len(stats) \in {0, 1}
        BY <1>4, <2>2
      <3>2. 0 <= MaxStats /\ 1 <= MaxStats
        BY <2>1
      <3> QED BY <3>1, <3>2
    <2>4. \A i, j \in DOMAIN stats : i = j
      <3>1. DOMAIN stats = 1..Len(stats)
        BY <2>3
      <3> QED BY <2>3, <3>1
    <2> QED BY <2>3, <2>4 DEF NamesApart
  <1>6. AllExact(stats, measured)
    <2>1. ASSUME NEW i \in DOMAIN stats
          PROVE  Exact(stats[i].kind, stats[i].value, measured[stats[i].name])
      <3>1. stats[i] = e
        <4> HIDE DEF e
        <4> QED BY <1>4
      <3>2. stats[i].value = Monitor!Zero /\ stats[i].name \in Stat
        BY <3>1 DEF Monitor!MonitoringAssumption
      <3> QED BY <1>2, <3>2, ZeroExact
    <2> QED BY <2>1 DEF AllExact
  <1> QED BY <1>3, <1>5, <1>6 DEF MonitorInv

\* A registration adds a name that was not there, without values.
LEMMA RegisterKeepsMonitor ==
    ASSUME Monitor!MonitoringAssumption, MonitorInv, NEW n \in Stat, NEW kind \in Monitor!Kind,
           Monitor!RegisterStat(n, kind)
    PROVE  MonitorInv'
  <1> DEFINE e == [name |-> n, kind |-> kind, value |-> Monitor!Zero]
  <1>1. /\ Monitor!FindStat(n) = 0 /\ Len(stats) < MaxStats
        /\ stats' = Append(stats, e) /\ measured' = [measured EXCEPT ![n] = <<>>]
        /\ enabled' = enabled
    BY DEF Monitor!RegisterStat
  <1>2. e \in Entry /\ e.name = n /\ e.value = Monitor!Zero /\ e.kind = kind
    BY ZeroFigures DEF Entry
  <1> HIDE DEF e
  <1>3. /\ stats \in Seq(Entry) /\ Len(stats) \in Nat /\ measured \in [Stat -> Seq(Nat)]
        /\ NamesApart(stats) /\ AllExact(stats, measured) /\ MaxStats \in Nat
    BY DEF MonitorInv, Monitor!MonitoringAssumption
  <1>4. \A i \in DOMAIN stats : stats[i].name # n
    BY <1>1, <1>3, StatFound
  <1>5. /\ stats' \in Seq(Entry) /\ Len(stats') = Len(stats) + 1
        /\ DOMAIN stats' = DOMAIN stats \cup {Len(stats) + 1}
        /\ \A i \in DOMAIN stats : stats'[i] = stats[i]
        /\ stats'[Len(stats) + 1] = e
    BY <1>1, <1>2, <1>3
  <1>6. NamesApart(stats')
    BY <1>2, <1>3, <1>4, <1>5 DEF NamesApart
  <1>7. measured' \in [Stat -> Seq(Nat)]
    BY <1>1, <1>3
  <1>8. AllExact(stats', measured')
    <2>1. ASSUME NEW i \in DOMAIN stats
          PROVE  Exact(stats[i].kind, stats[i].value, measured'[stats[i].name])
      <3>1. stats[i] \in Entry
        BY <1>3
      <3>2. stats[i].name \in Stat /\ stats[i].name # n
        BY <1>4, <3>1 DEF Entry
      <3>3. measured'[stats[i].name] = measured[stats[i].name]
        BY <1>1, <1>3, <3>2
      <3> QED BY <1>3, <3>3 DEF AllExact
    <2>2. Exact(e.kind, e.value, measured'[e.name])
      <3>1. measured'[n] = <<>>
        BY <1>1, <1>3
      <3> QED BY <1>2, <3>1, ZeroExact
    <2>3. ASSUME NEW i \in DOMAIN stats'
          PROVE  Exact(stats'[i].kind, stats'[i].value, measured'[stats'[i].name])
      <3>1. CASE i \in DOMAIN stats
        BY <1>5, <2>1, <3>1
      <3>2. CASE i = Len(stats) + 1
        BY <1>5, <2>2, <3>2
      <3> QED BY <1>5, <3>1, <3>2
    <2> QED BY <2>3 DEF AllExact
  <1> QED BY <1>1, <1>3, <1>5, <1>6, <1>7, <1>8 DEF MonitorInv

\* A value goes to the statistic of its name, and to no other.
LEMMA MeasureKeepsMonitor ==
    ASSUME Monitor!MonitoringAssumption, MonitorInv, NEW n \in Stat, NEW kind \in Monitor!Kind,
           NEW v \in Nat, Monitor!Measure(n, kind, v)
    PROVE  MonitorInv'
  <1> DEFINE i == Monitor!FindStat(n)
             new == Monitor!Added(kind, stats[i].value, v)
  <1>1. /\ i # 0 /\ stats[i].kind = kind
        /\ stats' = [stats EXCEPT ![i].value = new]
        /\ measured' = [measured EXCEPT ![n] = Append(measured[n], v)]
        /\ enabled' = enabled
    BY DEF Monitor!Measure
  <1>2. /\ stats \in Seq(Entry) /\ Len(stats) \in Nat /\ measured \in [Stat -> Seq(Nat)]
        /\ NamesApart(stats) /\ AllExact(stats, measured) /\ Len(stats) <= MaxStats
    BY DEF MonitorInv
  <1>3. i \in DOMAIN stats /\ stats[i].name = n
    BY <1>1, <1>2, StatFound
  <1> HIDE DEF i
  <1>4. stats[i] \in Entry /\ stats[i].value \in Figures /\ measured[n] \in Seq(Nat)
    <2>1. stats[i] \in Entry
      BY <1>2, <1>3
    <2> QED BY <1>2, <2>1 DEF Entry
  <1>5. Exact(kind, stats[i].value, measured[n])
    BY <1>1, <1>2, <1>3 DEF AllExact
  <1>6. new \in Figures /\ Exact(kind, new, Append(measured[n], v))
    BY <1>4, <1>5, AddedExact
  <1> HIDE DEF new
  <1>7. [stats[i] EXCEPT !.value = new] \in Entry
        /\ [stats[i] EXCEPT !.value = new].name = n
        /\ [stats[i] EXCEPT !.value = new].kind = kind
        /\ [stats[i] EXCEPT !.value = new].value = new
    BY <1>1, <1>3, <1>4, <1>6 DEF Entry
  <1>8. /\ stats' \in Seq(Entry) /\ Len(stats') = Len(stats) /\ DOMAIN stats' = DOMAIN stats
        /\ stats'[i].name = n /\ stats'[i].kind = kind /\ stats'[i].value = new
        /\ \A j \in DOMAIN stats : j # i => stats'[j] = stats[j]
    <2> DEFINE e == [stats[i] EXCEPT !.value = new]
    <2>1. e \in Entry /\ e.name = n /\ e.kind = kind /\ e.value = new
      BY <1>7
    <2>2. stats' = [stats EXCEPT ![i] = e]
      BY <1>1
    <2> HIDE DEF e
    <2> QED BY <1>2, <1>3, <2>1, <2>2
  <1>9. NamesApart(stats')
    <2>1. \A j \in DOMAIN stats : stats'[j].name = stats[j].name
      BY <1>3, <1>8
    <2> QED BY <1>2, <1>8, <2>1 DEF NamesApart
  <1>10. measured' \in [Stat -> Seq(Nat)] /\ measured'[n] = Append(measured[n], v)
    <2>1. Append(measured[n], v) \in Seq(Nat)
      BY <1>4
    <2> QED BY <1>1, <1>2, <2>1
  <1>11. AllExact(stats', measured')
    <2>1. ASSUME NEW j \in DOMAIN stats, j # i
          PROVE  Exact(stats[j].kind, stats[j].value, measured'[stats[j].name])
      <3>1. stats[j] \in Entry /\ stats[j].name # n
        BY <1>2, <1>3, <2>1 DEF NamesApart
      <3>2. measured'[stats[j].name] = measured[stats[j].name]
        BY <1>1, <1>2, <3>1 DEF Entry
      <3> QED BY <1>2, <3>2 DEF AllExact
    <2>2. Exact(stats'[i].kind, stats'[i].value, measured'[stats'[i].name])
      BY <1>6, <1>8, <1>10
    <2> QED BY <1>8, <2>1, <2>2 DEF AllExact
  <1> QED BY <1>1, <1>2, <1>8, <1>9, <1>10, <1>11 DEF MonitorInv

\* A reset leaves the names without values.
LEMMA ResetKeepsMonitor ==
    ASSUME MonitorInv, Monitor!ResetStats
    PROVE  MonitorInv'
  <1>1. /\ stats' = [i \in DOMAIN stats |-> [stats[i] EXCEPT !.value = Monitor!Zero]]
        /\ measured' = [n \in Stat |-> <<>>] /\ enabled' = enabled
    BY DEF Monitor!ResetStats
  <1>2. /\ stats \in Seq(Entry) /\ Len(stats) \in Nat /\ NamesApart(stats)
        /\ Len(stats) <= MaxStats /\ DOMAIN stats = 1..Len(stats)
    BY DEF MonitorInv
  <1>3. ASSUME NEW i \in DOMAIN stats
        PROVE  /\ stats'[i] \in Entry /\ stats'[i].name = stats[i].name
               /\ stats'[i].value = Monitor!Zero /\ stats[i].name \in Stat
    <2>1. stats[i] \in Entry
      BY <1>2
    <2>2. stats'[i] = [stats[i] EXCEPT !.value = Monitor!Zero]
      BY <1>1
    <2> QED BY <2>1, <2>2, ZeroFigures DEF Entry
  <1>4. stats' \in Seq(Entry) /\ Len(stats') = Len(stats) /\ DOMAIN stats' = DOMAIN stats
    <2>1. stats' \in [1..Len(stats) -> Entry]
      BY <1>1, <1>2, <1>3
    <2> QED BY <1>2, <2>1
  <1>5. NamesApart(stats')
    BY <1>2, <1>3, <1>4 DEF NamesApart
  <1>6. measured' \in [Stat -> Seq(Nat)]
    BY <1>1
  <1>7. AllExact(stats', measured')
    <2>1. \A n \in Stat : measured'[n] = <<>>
      BY <1>1
    <2> QED BY <1>3, <1>4, <2>1, ZeroExact DEF AllExact
  <1> QED BY <1>1, <1>2, <1>4, <1>5, <1>6, <1>7 DEF MonitorInv

\* Every operation keeps the invariant.
LEMMA NextKeepsMonitor ==
    ASSUME Monitor!MonitoringAssumption, MonitorInv, [Monitor!MonitoringNext]_monitoringVars
    PROVE  MonitorInv'
  <1>1. CASE Monitor!Collect
    <2>1. CountName \in Stat /\ "gauge" \in Monitor!Kind /\ Len(stats) \in Nat
      BY DEF MonitorInv, Monitor!MonitoringAssumption, Monitor!Kind
    <2> QED BY <1>1, <2>1, MeasureKeepsMonitor DEF Monitor!Collect
  <1>2. ASSUME NEW n \in Stat, NEW kind \in Monitor!Kind, NEW v \in Duration,
               Monitor!Measure(n, kind, v)
        PROVE  MonitorInv'
    <2>1. v \in Nat
      BY DEF Monitor!MonitoringAssumption
    <2> QED BY <1>2, <2>1, MeasureKeepsMonitor
  <1>3. CASE Monitor!SwitchMonitoring
    BY <1>3 DEF Monitor!SwitchMonitoring, MonitorInv, NamesApart, AllExact
  <1>4. CASE UNCHANGED monitoringVars
    BY <1>4 DEF monitoringVars, MonitorInv, NamesApart, AllExact
  <1>5. CASE Monitor!ResetStats
    BY <1>5, ResetKeepsMonitor
  <1>6. ASSUME NEW n \in Stat, NEW kind \in Monitor!Kind, Monitor!RegisterStat(n, kind)
        PROVE  MonitorInv'
    BY <1>6, RegisterKeepsMonitor
  <1> QED BY <1>1, <1>2, <1>3, <1>4, <1>5, <1>6 DEF Monitor!MonitoringNext

\* The figures of the invariant are those that the property asks for.
LEMMA MonitorInvExact ==
    ASSUME MonitorInv
    PROVE  Monitor!StatisticsExact
  <1>1. /\ stats \in Seq(Entry) /\ measured \in [Stat -> Seq(Nat)]
        /\ NamesApart(stats) /\ Len(stats) <= MaxStats /\ AllExact(stats, measured)
    BY DEF MonitorInv
  <1>2. ASSUME NEW i \in DOMAIN stats, NEW q, q = measured[stats[i].name],
               NEW value, value = stats[i].value
        PROVE  CASE stats[i].kind = "counter" -> value.sum = Monitor!Total(q)
                 [] stats[i].kind = "gauge" ->
                      value.sum = IF q = <<>> THEN 0 ELSE Last(q)
                 [] stats[i].kind = "timer" ->
                      /\ value.count = Len(q) /\ value.sum = Monitor!Total(q)
                      /\ q # <<>> => /\ value.least = Monitor!Min(Monitor!ToSet(q))
                                     /\ value.most = Monitor!Max(Monitor!ToSet(q))
    <2>1. stats[i] \in Entry
      BY <1>1
    <2>2. q \in Seq(Nat) /\ stats[i].kind \in Monitor!Kind /\ value \in Figures
      BY <1>1, <1>2, <2>1 DEF Entry
    <2>3. Exact(stats[i].kind, value, q)
      BY <1>1, <1>2 DEF AllExact
    <2>4. Monitor!Total(q) = Sum(q, Len(q))
      BY <2>2, TotalIsSum
    <2>5. Monitor!ToSet(q) = ToSet(q) /\ \A x \in ToSet(q) : x \in Nat
      BY <2>2 DEF Monitor!ToSet, ToSet
    <2>6. CASE stats[i].kind = "counter"
      BY <2>3, <2>4, <2>6 DEF Exact
    <2>7. CASE stats[i].kind = "gauge"
      BY <2>3, <2>7 DEF Exact, Last
    <2>8. CASE stats[i].kind = "timer"
      <3>1. value.count = Len(q) /\ value.sum = Monitor!Total(q)
        BY <2>3, <2>4, <2>8 DEF Exact
      <3>2. ASSUME q # <<>>
            PROVE  /\ value.least = Monitor!Min(Monitor!ToSet(q))
                   /\ value.most = Monitor!Max(Monitor!ToSet(q))
        <4>1. /\ value.least \in ToSet(q) /\ \A x \in ToSet(q) : value.least <= x
              /\ value.most \in ToSet(q) /\ \A x \in ToSet(q) : x <= value.most
          BY <2>3, <2>8, <3>2 DEF Exact
        <4> DEFINE a == Monitor!Min(ToSet(q))
                   b == Monitor!Max(ToSet(q))
        <4>2. a \in ToSet(q) /\ \A x \in ToSet(q) : a <= x
          BY <4>1 DEF Monitor!Min
        <4>3. \E x \in ToSet(q) : \A y \in ToSet(q) : x >= y
          BY <2>5, <4>1
        <4>4. b \in ToSet(q) /\ \A x \in ToSet(q) : b >= x
          BY <4>3 DEF Monitor!Max
        <4> HIDE DEF a, b
        <4>5. value.least = a /\ value.most = b
          BY <2>5, <4>1, <4>2, <4>4
        <4> QED BY <2>5, <4>5 DEF a, b
      <3> QED BY <2>8, <3>1, <3>2
    <2> QED BY <2>2, <2>6, <2>7, <2>8 DEF Monitor!Kind
  <1> QED BY <1>1, <1>2 DEF Monitor!StatisticsExact, NamesApart, Monitor!Last, Last

-----------------------------------------------------------------------------
(* The procedures.                                                           *)
\* The slots and the ids of the model.
PSlot == Procs!Slot
PId == Procs!Id

\* Rows of slots, of which the first n are used.
Row == [1..MaxObjects -> PSlot]

\* The objects are in the order in which they were created, each with its schema.
RowSound(a, n, last) ==
    /\ \A i \in 1..n : a[i].schema = a[i].id /\ a[i].id \in 1..last
    /\ \A i, j \in 1..n : i < j => a[i].id < a[j].id

\* Name and schema tell objects apart.
RowUnique(a, n, of) ==
    /\ \A i \in 1..n : of[a[i].id] \in Schema
    /\ \A i, j \in 1..n : a[i].name = a[j].name /\ of[a[i].id] = of[a[j].id] => i = j

\* The objects of a row.
Ids(a, n) == {a[i].id : i \in 1..n}

\* What holds while all objects were given all their parts.
RegistersWell ==
    /\ liveSchemas = there
    /\ \A kind \in Procs!ObjectKind :
          /\ RowSound(slots[kind], inUse[kind], created)
          /\ RowUnique(slots[kind], inUse[kind], schemaOf)
    /\ there = Ids(slots["procedure"], inUse["procedure"])
               \cup Ids(slots["trigger"], inUse["trigger"])
    /\ Ids(slots["procedure"], inUse["procedure"])
       \cap Ids(slots["trigger"], inUse["trigger"]) = {}
    /\ \A i \in 1..inUse["procedure"] : slots["procedure"][i].part = slots["procedure"][i].id
    /\ liveParts = Ids(slots["procedure"], inUse["procedure"])

\* Everything is in order until an object was created without one of its parts.
ProcInv ==
    /\ Procs!ProceduresTypeOK
    /\ \A i \in 1..MaxObjects : slots["trigger"][i].part = Procs!Null
    /\ whole => /\ process # "undefined"
                /\ process = "ok" => RegistersWell
                /\ process = "destroyed" => liveSchemas = {} /\ liveParts = {}

\* A row is of slots.
LEMMA RowType ==
    ASSUME Procs!ProceduresAssumption, Procs!ProceduresTypeOK, NEW kind \in Procs!ObjectKind
    PROVE  /\ slots[kind] \in Row /\ inUse[kind] \in 0..MaxObjects /\ inUse[kind] \in Nat
           /\ MaxObjects \in Nat
           /\ \A i \in 1..MaxObjects : slots[kind][i] \in PSlot
  BY DEF Procs!ProceduresAssumption, Procs!ProceduresTypeOK, Row, PSlot

\* What is used of a row.
LEMMA UsedIs ==
    ASSUME Procs!ProceduresAssumption, Procs!ProceduresTypeOK, NEW kind \in Procs!ObjectKind
    PROVE  /\ Procs!Used(kind) \in Seq(PSlot) /\ Len(Procs!Used(kind)) = inUse[kind]
           /\ DOMAIN Procs!Used(kind) = 1..inUse[kind]
           /\ \A i \in 1..inUse[kind] : Procs!Used(kind)[i] = slots[kind][i]
  <1> DEFINE a == slots[kind]
             n == inUse[kind]
  <1>1. a \in [1..MaxObjects -> PSlot] /\ n \in 0..MaxObjects /\ MaxObjects \in Nat
    BY RowType DEF Row
  <1> HIDE DEF a, n
  <1>2. a \in Seq(PSlot) /\ Len(a) = MaxObjects
    BY <1>1
  <1>3. 1 \in 1..(Len(a) + 1) /\ n \in (1 - 1)..Len(a)
    BY <1>1, <1>2
  <1>4. /\ SubSeq(a, 1, n) \in Seq(PSlot) /\ Len(SubSeq(a, 1, n)) = n - 1 + 1
        /\ \A i \in 1..(n - 1 + 1) : SubSeq(a, 1, n)[i] = a[1 + i - 1]
    BY <1>2, <1>3, SubSeqProperties
  <1>5. n - 1 + 1 = n /\ \A i \in 1..n : 1 + i - 1 = i
    BY <1>1
  <1>6. Procs!Used(kind) = SubSeq(a, 1, n)
    BY DEF Procs!Used, a, n
  <1> HIDE DEF Procs!Used
  <1>7. /\ Procs!Used(kind) \in Seq(PSlot) /\ Len(Procs!Used(kind)) = n
        /\ \A i \in 1..n : Procs!Used(kind)[i] = a[i]
    BY <1>4, <1>5, <1>6
  <1>8. DOMAIN Procs!Used(kind) = 1..n
    BY <1>7
  <1> QED BY <1>7, <1>8 DEF a, n

\* A search ends within what is used.
LEMMA FoundWithin ==
    ASSUME Procs!ProceduresAssumption, Procs!ProceduresTypeOK, NEW kind \in Procs!ObjectKind,
           NEW n, NEW s
    PROVE  \/ /\ Procs!FindObject(kind, n, s) \in 1..inUse[kind]
              /\ Procs!FindObject(kind, n, s) # 0
              /\ \/ Procs!ReadsFreed(slots[kind][Procs!FindObject(kind, n, s)], n, s)
                 \/ Procs!Matches(slots[kind][Procs!FindObject(kind, n, s)], n, s)
              /\ \A j \in 1..inUse[kind] :
                    j < Procs!FindObject(kind, n, s)
                    => /\ ~Procs!ReadsFreed(slots[kind][j], n, s)
                        /\ ~Procs!Matches(slots[kind][j], n, s)
           \/ /\ Procs!FindObject(kind, n, s) = 0
              /\ \A j \in 1..inUse[kind] :
                    ~Procs!ReadsFreed(slots[kind][j], n, s) /\ ~Procs!Matches(slots[kind][j], n, s)
  <1> DEFINE u == Procs!Used(kind)
             Hits(o) == Procs!ReadsFreed(o, n, s) \/ Procs!Matches(o, n, s)
             I == {i \in 1..Len(u) : Hits(u[i])}
             f == Procs!FindObject(kind, n, s)
  <1>1. f = IF I # {} THEN Min(I) ELSE 0
    BY DEF Procs!FindObject, Procs!SelectInSeq, Procs!Min, Min
  <1>2. /\ Len(u) = inUse[kind] /\ inUse[kind] \in Nat
        /\ \A i \in 1..inUse[kind] : u[i] = slots[kind][i]
    BY UsedIs, RowType
  <1> HIDE DEF u, f, Hits
  <1>3. I \in SUBSET Nat /\ \A i \in 1..inUse[kind] : i \in I <=> Hits(slots[kind][i])
    BY <1>2
  <1>4. I \subseteq 1..inUse[kind]
    BY <1>2
  <1> HIDE DEF I
  <1>5. CASE I # {}
    <2>1. f \in I /\ \A y \in I : f <= y
      BY <1>1, <1>3, <1>5, MinIsLeast
    <2>2. f \in 1..inUse[kind] /\ f # 0 /\ Hits(slots[kind][f])
      BY <1>2, <1>3, <1>4, <2>1
    <2>3. \A j \in 1..inUse[kind] : j < f => ~Hits(slots[kind][j])
      BY <1>2, <1>3, <2>1, <2>2
    <2> QED BY <2>2, <2>3 DEF f, Hits
  <1>6. CASE I = {}
    BY <1>1, <1>3, <1>6 DEF f, Hits
  <1> QED BY <1>5, <1>6

\* What a search is for.
Fits(o, n, s) == o.name = n /\ s \in {NoSchema, schemaOf[o.id]}

\* While all is well a search ends at the first that fits.
LEMMA FoundWell ==
    ASSUME Procs!ProceduresAssumption, Procs!ProceduresTypeOK, RegistersWell,
           NEW kind \in Procs!ObjectKind, NEW n, NEW s \in Schema \cup {NoSchema}
    PROVE  /\ \A j \in 1..inUse[kind] : ~Procs!ReadsFreed(slots[kind][j], n, s)
           /\ \/ /\ Procs!FindObject(kind, n, s) \in 1..inUse[kind]
                 /\ Procs!FindObject(kind, n, s) # 0
                 /\ Fits(slots[kind][Procs!FindObject(kind, n, s)], n, s)
                 /\ \A j \in 1..inUse[kind] : j < Procs!FindObject(kind, n, s)
                                              => ~Fits(slots[kind][j], n, s)
              \/ /\ Procs!FindObject(kind, n, s) = 0
                 /\ \A j \in 1..inUse[kind] : ~Fits(slots[kind][j], n, s)
  <1>1. ASSUME NEW j \in 1..inUse[kind]
        PROVE  /\ slots[kind][j].schema = slots[kind][j].id /\ slots[kind][j].id # Procs!Null
               /\ slots[kind][j].id \in liveSchemas
    <2>1. slots[kind][j].schema = slots[kind][j].id /\ slots[kind][j].id \in 1..created
      BY DEF RegistersWell, RowSound
    <2>2. slots[kind][j].id \in Ids(slots[kind], inUse[kind])
      BY DEF Ids
    <2>3. slots[kind][j].id \in liveSchemas
      BY <2>2 DEF RegistersWell, Procs!ObjectKind
    <2> QED BY <2>1, <2>3 DEF Procs!Null
  <1>2. \A j \in 1..inUse[kind] : ~Procs!ReadsFreed(slots[kind][j], n, s)
    BY <1>1 DEF Procs!ReadsFreed
  <1>3. \A j \in 1..inUse[kind] : Procs!Matches(slots[kind][j], n, s) <=> Fits(slots[kind][j], n, s)
    <2> SUFFICES ASSUME NEW j \in 1..inUse[kind]
                 PROVE  Procs!Matches(slots[kind][j], n, s) <=> Fits(slots[kind][j], n, s)
      OBVIOUS
    <2> DEFINE o == slots[kind][j]
    <2>1. o.schema = o.id /\ o.schema # Procs!Null
      BY <1>1
    <2> HIDE DEF o
    <2>2. Procs!Matches(o, n, s) <=> Fits(o, n, s)
      BY <2>1 DEF Procs!Matches, Fits
    <2> QED BY <2>2 DEF o
  <1> QED BY <1>2, <1>3, FoundWithin

\* The fields of a slot.
LEMMA SlotFields ==
    ASSUME NEW o \in PSlot
    PROVE  /\ o.id \in {Procs!Null} \cup PId /\ o.name \in ObjectName
           /\ o.schema \in Procs!Pointer /\ o.part \in Procs!Pointer
  BY DEF PSlot, PId, Procs!Slot

\* b is a with o after its n objects.
IsAdded(b, a, n, o) == b = [a EXCEPT ![n + 1] = o]

\* An object goes after the last.
LEMMA AddedRow ==
    ASSUME Procs!ProceduresAssumption, NEW a \in Row, NEW n \in Nat, n + 1 \in 1..MaxObjects,
           NEW last \in Nat,
           RowSound(a, n, last), NEW o \in PSlot, o.id = last + 1, o.schema = o.id,
           NEW b, IsAdded(b, a, n, o)
    PROVE  /\ b \in Row /\ RowSound(b, n + 1, last + 1)
           /\ Ids(b, n + 1) = Ids(a, n) \cup {o.id}
           /\ b[n + 1] = o /\ \A i \in 1..n : b[i] = a[i]
  <1>1. b \in Row /\ b[n + 1] = o /\ \A i \in 1..n : b[i] = a[i]
    <2>1. \A i \in 1..n : i \in 1..MaxObjects /\ i # n + 1
      BY DEF Procs!ProceduresAssumption
    <2> QED BY <2>1 DEF Row, IsAdded
  <1>2. 1..(n + 1) = 1..n \cup {n + 1}
    OBVIOUS
  <1>3. Ids(b, n + 1) = Ids(a, n) \cup {o.id}
    BY <1>1, <1>2 DEF Ids
  <1>4. ASSUME NEW i \in 1..(n + 1) PROVE b[i].schema = b[i].id /\ b[i].id \in 1..(last + 1)
    <2>1. CASE i \in 1..n
      <3>1. a[i].schema = a[i].id /\ a[i].id \in 1..last
        BY <2>1 DEF RowSound
      <3>2. b[i].id \in 1..(last + 1)
        BY <1>1, <2>1, <3>1
      <3> QED BY <1>1, <2>1, <3>1, <3>2
    <2>2. CASE i = n + 1
      <3>1. b[i].schema = b[i].id /\ b[i].id = last + 1
        BY <1>1, <2>2
      <3> QED BY <3>1
    <2> QED BY <1>2, <2>1, <2>2
  <1>5. ASSUME NEW i \in 1..(n + 1), NEW j \in 1..(n + 1), i < j PROVE b[i].id < b[j].id
    <2>1. i \in 1..n
      BY <1>5
    <2>2. b[i].id = a[i].id /\ a[i].id \in 1..last
      BY <1>1, <2>1 DEF RowSound
    <2>3. CASE j \in 1..n
      BY <1>1, <1>5, <2>1, <2>3 DEF RowSound
    <2>4. CASE j = n + 1
      <3>1. b[j].id = last + 1
        BY <1>1, <2>4
      <3> QED BY <2>2, <3>1
    <2> QED BY <1>2, <2>3, <2>4
  <1> QED BY <1>1, <1>3, <1>4, <1>5 DEF RowSound

\* o differs in name or schema from the first n of a.
Differs(o, a, n, of, to) ==
    /\ to[o.id] \in Schema
    /\ \A i \in 1..n : to[a[i].id] = of[a[i].id]
                       /\ ~(a[i].name = o.name /\ of[a[i].id] = to[o.id])

\* An object that differs in name or schema from all others may be added.
LEMMA AddedUnique ==
    ASSUME Procs!ProceduresAssumption, NEW a \in Row, NEW n \in Nat, n + 1 \in 1..MaxObjects,
           NEW o \in PSlot, NEW b, IsAdded(b, a, n, o),
           NEW of, RowUnique(a, n, of), NEW to, Differs(o, a, n, of, to)
    PROVE  RowUnique(b, n + 1, to)
  <1>0. b[n + 1] = o /\ \A i \in 1..n : b[i] = a[i]
    <2>1. \A i \in 1..n : i \in 1..MaxObjects /\ i # n + 1
      BY DEF Procs!ProceduresAssumption
    <2> QED BY <2>1 DEF Row, IsAdded
  <1>1. 1..(n + 1) = 1..n \cup {n + 1}
    OBVIOUS
  <1>2. ASSUME NEW i \in 1..(n + 1) PROVE to[b[i].id] \in Schema
    <2>1. CASE i \in 1..n
      BY <1>0, <2>1 DEF RowUnique, Differs
    <2>2. CASE i = n + 1
      BY <1>0, <2>2 DEF Differs
    <2> QED BY <1>1, <2>1, <2>2
  <1>3. ASSUME NEW i \in 1..(n + 1), NEW j \in 1..(n + 1),
               b[i].name = b[j].name, to[b[i].id] = to[b[j].id]
        PROVE  i = j
    <2>1. CASE i \in 1..n /\ j \in 1..n
      BY <1>0, <1>3, <2>1 DEF RowUnique, Differs
    <2>2. CASE i = n + 1 /\ j \in 1..n
      BY <1>0, <1>3, <2>2 DEF Differs
    <2>3. CASE i \in 1..n /\ j = n + 1
      BY <1>0, <1>3, <2>3 DEF Differs
    <2>4. CASE i = n + 1 /\ j = n + 1
      BY <2>4
    <2> QED BY <1>1, <2>1, <2>2, <2>3, <2>4
  <1> QED BY <1>2, <1>3 DEF RowUnique

\* b is a without the object at i, whose place the next ones take.
IsMoved(b, a, i, n) == b = Procs!Moved(a, i, n)

\* The other objects move up.
LEMMA MovedRow ==
    ASSUME Procs!ProceduresAssumption, NEW a \in Row, NEW n \in 1..MaxObjects, NEW i \in 1..n,
           NEW b, IsMoved(b, a, i, n)
    PROVE  /\ b \in Row
           /\ \A j \in 1..(n - 1) : \E k \in 1..n :
                 k = (IF j < i THEN j ELSE j + 1) /\ k # i /\ b[j] = a[k]
           /\ \A k \in 1..n : k # i => \E j \in 1..(n - 1) : b[j] = a[k]
           /\ \A j \in 1..MaxObjects : \E k \in 1..MaxObjects : b[j] = a[k]
  <1>0. MaxObjects \in Nat /\ n \in Nat /\ n \in 1..MaxObjects
    BY DEF Procs!ProceduresAssumption
  <1>1. DOMAIN a = 1..MaxObjects /\ a \in [1..MaxObjects -> PSlot]
    BY DEF Row
  <1>2. b = [j \in 1..MaxObjects |-> IF i <= j /\ j < n THEN a[j + 1] ELSE a[j]]
    BY <1>1 DEF IsMoved, Procs!Moved
  <1>3. ASSUME NEW j \in 1..MaxObjects
        PROVE  \E k \in 1..MaxObjects : b[j] = a[k] /\ k = IF i <= j /\ j < n THEN j + 1 ELSE j
    <2>1. CASE i <= j /\ j < n
      <3>1. j + 1 \in 1..MaxObjects
        BY <1>0, <2>1
      <3> QED BY <1>2, <2>1, <3>1
    <2>2. CASE ~(i <= j /\ j < n)
      BY <1>2, <2>2
    <2> QED BY <2>1, <2>2
  <1>4. b \in Row
    BY <1>1, <1>2, <1>3 DEF Row
  <1>5. ASSUME NEW j \in 1..(n - 1)
        PROVE  \E k \in 1..n : k = (IF j < i THEN j ELSE j + 1) /\ k # i /\ b[j] = a[k]
    <2>1. j \in 1..MaxObjects /\ j < n /\ j \in 1..n /\ j + 1 \in 1..n
      BY <1>0
    <2>2. CASE j < i
      <3>1. b[j] = a[j]
        BY <1>2, <2>1, <2>2
      <3> QED BY <2>1, <2>2, <3>1
    <2>3. CASE ~(j < i)
      <3>1. b[j] = a[j + 1] /\ j + 1 # i
        BY <1>2, <2>1, <2>3
      <3> QED BY <2>1, <2>3, <3>1
    <2> QED BY <2>2, <2>3
  <1>6. ASSUME NEW k \in 1..n, k # i PROVE \E j \in 1..(n - 1) : b[j] = a[k]
    <2>1. CASE k < i
      <3>1. k \in 1..(n - 1) /\ k \in 1..MaxObjects /\ ~(i <= k)
        BY <1>0, <2>1
      <3> QED BY <1>2, <3>1
    <2>2. CASE k > i
      <3>1. k - 1 \in 1..(n - 1) /\ k - 1 \in 1..MaxObjects /\ i <= k - 1 /\ k - 1 < n
            /\ (k - 1) + 1 = k
        BY <1>0, <2>2
      <3>2. b[k - 1] = a[k]
        BY <1>2, <3>1
      <3> QED BY <3>1, <3>2
    <2> QED BY <1>6, <2>1, <2>2
  <1> QED BY <1>3, <1>4, <1>5, <1>6

\* What holds of the objects of a row holds without one of them.
LEMMA DroppedRow ==
    ASSUME Procs!ProceduresAssumption, NEW a \in Row, NEW n \in 1..MaxObjects, NEW i \in 1..n,
           NEW b, IsMoved(b, a, i, n), NEW last, NEW of,
           RowSound(a, n, last), RowUnique(a, n, of)
    PROVE  /\ RowSound(b, n - 1, last) /\ RowUnique(b, n - 1, of)
           /\ Ids(b, n - 1) = Ids(a, n) \ {a[i].id}
           /\ (\A j \in 1..n : a[j].part = a[j].id) => \A j \in 1..(n - 1) : b[j].part = b[j].id
  <1> DEFINE at(j) == IF j < i THEN j ELSE j + 1
  <1>0. n \in Nat /\ i \in Nat
    BY DEF Procs!ProceduresAssumption
  <1>7. /\ \A j \in 1..(n - 1) : \E k \in 1..n :
              k = (IF j < i THEN j ELSE j + 1) /\ k # i /\ b[j] = a[k]
        /\ \A k \in 1..n : k # i => \E j \in 1..(n - 1) : b[j] = a[k]
    BY MovedRow
  <1>1. \A j \in 1..(n - 1) : at(j) \in 1..n /\ at(j) # i /\ b[j] = a[at(j)]
    BY <1>7
  <1>2. \A k \in 1..n : k # i => \E j \in 1..(n - 1) : b[j] = a[k]
    BY <1>7
  <1>3. \A j, k \in 1..(n - 1) : (j < k => at(j) < at(k)) /\ (at(j) = at(k) => j = k)
    BY <1>0
  <1> HIDE DEF at
  <1>4. RowSound(b, n - 1, last)
    BY <1>1, <1>3 DEF RowSound
  <1>5. RowUnique(b, n - 1, of)
    BY <1>1, <1>3 DEF RowUnique
  <1>6. \A j, k \in 1..n : a[j].id = a[k].id => j = k
    <2> SUFFICES ASSUME NEW j \in 1..n, NEW k \in 1..n, a[j].id = a[k].id PROVE j = k
      OBVIOUS
    <2>1. j < k \/ j = k \/ k < j
      BY <1>0
    <2>2. a[j].id \in 1..last /\ \A x \in 1..last : ~(x < x)
      BY DEF RowSound
    <2> QED BY <2>1, <2>2 DEF RowSound
  <1>8. Ids(b, n - 1) = Ids(a, n) \ {a[i].id}
    BY <1>1, <1>2, <1>6 DEF Ids
  <1> QED BY <1>1, <1>4, <1>5, <1>8

\* The arrays come with nothing in them, or with what happened to be there.
LEMMA InitProcInv ==
    ASSUME Procs!ProceduresAssumption, Procs!ProceduresInit
    PROVE  ProcInv
  <1>1. PICK p \in {Procs!Null, Procs!Wild} :
           slots = [kind \in Procs!ObjectKind |-> [i \in 1..MaxObjects |->
                     [id |-> Procs!Null, name |-> CHOOSE n \in ObjectName : TRUE, schema |-> p,
                      part |-> IF kind = "trigger" THEN Procs!Null ELSE p]]]
    BY DEF Procs!ProceduresInit
  <1>2. /\ inUse = [kind \in Procs!ObjectKind |-> 0]
        /\ schemaOf = [id \in PId |-> NoSchema] /\ liveSchemas = {} /\ liveParts = {}
        /\ process = "ok" /\ created = 0 /\ whole = TRUE /\ there = {}
    BY DEF Procs!ProceduresInit, PId
  <1>3. (CHOOSE n \in ObjectName : TRUE) \in ObjectName
    BY DEF Procs!ProceduresAssumption
  <1>4. ASSUME NEW kind \in Procs!ObjectKind, NEW i \in 1..MaxObjects
        PROVE  /\ slots[kind][i] \in PSlot
               /\ kind = "trigger" => slots[kind][i].part = Procs!Null
    BY <1>1, <1>3 DEF PSlot, Procs!Slot, Procs!Pointer
  <1>5. slots \in [Procs!ObjectKind -> Row]
    BY <1>1, <1>4 DEF Row
  <1>6. inUse \in [Procs!ObjectKind -> 0..MaxObjects] /\ MaxObjects \in Nat
    BY <1>2 DEF Procs!ProceduresAssumption
  <1>7. Procs!ProceduresTypeOK
    BY <1>2, <1>5, <1>6 DEF Procs!ProceduresTypeOK, Row, PSlot, PId
  <1>8. RegistersWell
    <2>1. \A kind \in Procs!ObjectKind : inUse[kind] = 0
      BY <1>2
    <2>2. "procedure" \in Procs!ObjectKind /\ "trigger" \in Procs!ObjectKind /\ 1..0 = {}
      BY DEF Procs!ObjectKind
    <2> QED BY <1>2, <2>1, <2>2 DEF RegistersWell, RowSound, RowUnique, Ids
  <1>9. \A i \in 1..MaxObjects : slots["trigger"][i].part = Procs!Null
    BY <1>4 DEF Procs!ObjectKind
  <1> QED BY <1>2, <1>7, <1>8, <1>9 DEF ProcInv

\* What a step changes of the slots of a kind.
SlotsBut(kind, row, fill) ==
    /\ slots' = [slots EXCEPT ![kind] = row]
    /\ inUse' = [inUse EXCEPT ![kind] = fill]

\* The slots and what is in use keep their types, and triggers have no other part.
LEMMA SlotsTyped ==
    ASSUME Procs!ProceduresAssumption, ProcInv, NEW kind \in Procs!ObjectKind, NEW row \in Row,
           NEW fill \in 0..MaxObjects, SlotsBut(kind, row, fill),
           kind = "trigger" => \A i \in 1..MaxObjects : row[i].part = Procs!Null
    PROVE  /\ slots' \in [Procs!ObjectKind -> Row]
           /\ inUse' \in [Procs!ObjectKind -> 0..MaxObjects]
           /\ slots'[kind] = row /\ inUse'[kind] = fill
           /\ \A k \in Procs!ObjectKind : k # kind => slots'[k] = slots[k] /\ inUse'[k] = inUse[k]
           /\ \A i \in 1..MaxObjects : slots'["trigger"][i].part = Procs!Null
  <1>1. slots \in [Procs!ObjectKind -> Row] /\ inUse \in [Procs!ObjectKind -> 0..MaxObjects]
    BY DEF ProcInv, Procs!ProceduresTypeOK, Row, PSlot
  <1>2. "trigger" \in Procs!ObjectKind
    BY DEF Procs!ObjectKind
  <1>3. /\ slots' \in [Procs!ObjectKind -> Row]
        /\ inUse' \in [Procs!ObjectKind -> 0..MaxObjects]
        /\ slots'[kind] = row /\ inUse'[kind] = fill
        /\ \A k \in Procs!ObjectKind : k # kind => slots'[k] = slots[k] /\ inUse'[k] = inUse[k]
    BY <1>1 DEF SlotsBut
  <1>4. \A i \in 1..MaxObjects : slots'["trigger"][i].part = Procs!Null
    <2>1. CASE kind = "trigger"
      BY <1>3, <2>1
    <2>2. CASE kind # "trigger"
      BY <1>2, <1>3, <2>2 DEF ProcInv
    <2> QED BY <2>1, <2>2
  <1> QED BY <1>3, <1>4

\* The new object's id is one that none had, and its row has room.
LEMMA CreateKeepsProcs ==
    ASSUME Procs!ProceduresAssumption, ProcInv, NEW kind \in Procs!ObjectKind,
           NEW n \in ObjectName, NEW s \in Schema \cup {NoSchema}, NEW part \in BOOLEAN,
           Procs!CreateObject(kind, n, s, part)
    PROVE  ProcInv'
  <1> DEFINE id == created + 1
             i == inUse[kind] + 1
             old == slots[kind][i]
             o == [id |-> id, name |-> n,
                   schema |-> IF s = NoSchema THEN old.schema ELSE id,
                   part |-> IF part THEN id ELSE old.part]
             row == [slots[kind] EXCEPT ![i] = o]
  <1>1. /\ process = "ok" /\ process' = process
        /\ Procs!FindObject(kind, n, s) = 0
        /\ inUse[kind] < MaxObjects /\ created < MaxCreated
        /\ part => kind = "procedure"
        /\ schemaOf' = [schemaOf EXCEPT ![id] = s]
        /\ liveSchemas' = liveSchemas \cup IF s = NoSchema THEN {} ELSE {id}
        /\ liveParts' = liveParts \cup IF part THEN {id} ELSE {}
        /\ created' = id
        /\ whole' = (whole /\ s # NoSchema /\ (part <=> kind = "procedure"))
        /\ there' = there \cup {id}
    BY DEF Procs!CreateObject
  <1>2. SlotsBut(kind, row, i)
    BY DEF Procs!CreateObject, SlotsBut
  <1>3. /\ slots \in [Procs!ObjectKind -> Row] /\ inUse \in [Procs!ObjectKind -> 0..MaxObjects]
        /\ schemaOf \in [PId -> Schema \cup {NoSchema}]
        /\ liveSchemas \subseteq PId /\ liveParts \subseteq PId
        /\ created \in {0} \cup PId /\ whole \in BOOLEAN
        /\ Procs!ProceduresTypeOK
    BY DEF ProcInv, Procs!ProceduresTypeOK, Row, PSlot, PId
  <1>4. /\ MaxObjects \in Nat /\ MaxCreated \in Nat /\ NoSchema \notin Schema
        /\ created \in Nat /\ inUse[kind] \in Nat
    BY <1>3 DEF PId, Procs!Id, Procs!ProceduresAssumption
  <1>5. id \in PId /\ i \in 1..MaxObjects /\ id \in 1..MaxCreated
    BY <1>1, <1>4 DEF PId, Procs!Id
  <1>6. slots[kind] \in Row /\ old \in PSlot
    BY <1>3, <1>5 DEF Row
  <1>7. o \in PSlot
    BY <1>5, <1>6, SlotFields DEF PSlot, PId, Procs!Slot, Procs!Pointer
  <1>8. o.id = id /\ o.name = n /\ (part => o.part = id) /\ (s # NoSchema => o.schema = id)
        /\ (~part => o.part = old.part)
    OBVIOUS
  <1> HIDE DEF o, old
  <1>9. row \in Row /\ i \in 0..MaxObjects
    BY <1>5, <1>6, <1>7 DEF Row
  <1>10. kind = "trigger" => \A j \in 1..MaxObjects : row[j].part = Procs!Null
    <2> SUFFICES ASSUME kind = "trigger", NEW j \in 1..MaxObjects PROVE row[j].part = Procs!Null
      OBVIOUS
    <2>1. \A k \in 1..MaxObjects : slots[kind][k].part = Procs!Null
      BY DEF ProcInv
    <2>2. o.part = Procs!Null
      BY <1>1, <1>5, <1>8, <2>1 DEF old
    <2>3. row[j] = IF j = i THEN o ELSE slots[kind][j]
      BY <1>6 DEF Row
    <2> QED BY <2>1, <2>2, <2>3
  <1> DEFINE fill == i
  <1> HIDE DEF row, fill
  <1>11. SlotsBut(kind, row, fill) /\ fill \in 0..MaxObjects
    BY <1>2, <1>9 DEF fill
  <1>12. /\ slots' \in [Procs!ObjectKind -> Row]
         /\ inUse' \in [Procs!ObjectKind -> 0..MaxObjects]
         /\ slots'[kind] = row /\ inUse'[kind] = fill
         /\ \A k \in Procs!ObjectKind : k # kind => slots'[k] = slots[k] /\ inUse'[k] = inUse[k]
         /\ \A j \in 1..MaxObjects : slots'["trigger"][j].part = Procs!Null
    BY <1>9, <1>10, <1>11, SlotsTyped
  <1>13. Procs!ProceduresTypeOK'
    <2>1. schemaOf' \in [PId -> Schema \cup {NoSchema}]
      BY <1>1, <1>3, <1>5
    <2>2. liveSchemas' \subseteq PId /\ liveParts' \subseteq PId /\ created' \in {0} \cup PId
      BY <1>1, <1>3, <1>5
    <2>3. whole' \in BOOLEAN
      BY <1>1, <1>3
    <2>4. process' \in {"ok", "undefined", "destroyed"}
      BY <1>1
    <2> QED BY <1>12, <2>1, <2>2, <2>3, <2>4 DEF Procs!ProceduresTypeOK, Row, PSlot, PId
  <1>14. ASSUME whole' PROVE RegistersWell'
    <2>1. whole /\ s \in Schema /\ s # NoSchema /\ (part <=> kind = "procedure")
      BY <1>1, <1>4, <1>14
    <2>2. RegistersWell
      BY <1>1, <2>1 DEF ProcInv
    <2>3. /\ RowSound(slots[kind], inUse[kind], created)
        /\ RowUnique(slots[kind], inUse[kind], schemaOf)
      BY <2>2 DEF RegistersWell
    <2>4. /\ row \in Row /\ RowSound(row, inUse[kind] + 1, created + 1)
          /\ Ids(row, inUse[kind] + 1) = Ids(slots[kind], inUse[kind]) \cup {o.id}
          /\ row[inUse[kind] + 1] = o /\ \A j \in 1..inUse[kind] : row[j] = slots[kind][j]
      <3>1. IsAdded(row, slots[kind], inUse[kind], o)
        BY DEF row, IsAdded
      <3>2. o.id = created + 1 /\ o.schema = o.id
        BY <1>8, <2>1
      <3>3. inUse[kind] + 1 \in 1..MaxObjects
        BY <1>5
      <3> QED BY <1>4, <1>6, <1>7, <2>3, <3>1, <3>2, <3>3, AddedRow
    <2>5. \A k \in Procs!ObjectKind : \A j \in 1..inUse[k] :
             slots[k][j].id \in 1..created /\ slots[k][j].id # id
             /\ schemaOf'[slots[k][j].id] = schemaOf[slots[k][j].id]
      <3> SUFFICES ASSUME NEW k \in Procs!ObjectKind, NEW j \in 1..inUse[k]
                   PROVE  slots[k][j].id \in 1..created /\ slots[k][j].id # id
                          /\ schemaOf'[slots[k][j].id] = schemaOf[slots[k][j].id]
        OBVIOUS
      <3>1. slots[k][j].id \in 1..created
        BY <2>2 DEF RegistersWell, RowSound
      <3>2. slots[k][j].id \in PId /\ slots[k][j].id # id
        BY <1>1, <1>4, <3>1 DEF PId, Procs!Id
      <3> QED BY <1>1, <1>3, <3>1, <3>2
    <2>6. schemaOf'[id] = s
      BY <1>1, <1>3, <1>5
    <2>7. \A j \in 1..inUse[kind] : ~Fits(slots[kind][j], n, s)
      BY <1>1, <1>3, <2>2, FoundWell
    <2>8. RowUnique(row, inUse[kind] + 1, schemaOf')
      <3>1. Differs(o, slots[kind], inUse[kind], schemaOf, schemaOf')
        BY <1>8, <2>1, <2>5, <2>6, <2>7 DEF Differs, Fits
      <3>2. IsAdded(row, slots[kind], inUse[kind], o) /\ inUse[kind] + 1 \in 1..MaxObjects
        BY <1>5 DEF row, IsAdded
      <3> QED BY <1>4, <1>6, <1>7, <2>3, <3>1, <3>2, AddedUnique
    <2>9. ASSUME NEW k \in Procs!ObjectKind
          PROVE  RowSound(slots'[k], inUse'[k], created') /\ RowUnique(slots'[k], inUse'[k], schemaOf')
      <3>1. CASE k = kind
        BY <1>1, <1>12, <2>4, <2>8, <3>1 DEF fill
      <3>2. CASE k # kind
        <4>1. slots'[k] = slots[k] /\ inUse'[k] = inUse[k]
          BY <1>12, <3>2
        <4>2. RowSound(slots[k], inUse[k], created) /\ RowUnique(slots[k], inUse[k], schemaOf)
          BY <2>2 DEF RegistersWell
        <4>3. RowSound(slots[k], inUse[k], created')
          <5>1. \A x \in 1..created : x \in 1..created'
            BY <1>1, <1>4
          <5> QED BY <4>2, <5>1 DEF RowSound
        <4>4. RowUnique(slots[k], inUse[k], schemaOf')
          BY <2>5, <4>2 DEF RowUnique
        <4> QED BY <4>1, <4>3, <4>4
      <3> QED BY <3>1, <3>2
    <2> DEFINE P == Ids(slots["procedure"], inUse["procedure"])
               T == Ids(slots["trigger"], inUse["trigger"])
    <2>10. there = P \cup T /\ P \cap T = {} /\ liveParts = P /\ liveSchemas = there
           /\ \A j \in 1..inUse["procedure"] :
                 slots["procedure"][j].part = slots["procedure"][j].id
      BY <2>2 DEF RegistersWell
    <2>11. id \notin P /\ id \notin T
      BY <2>5 DEF Ids, Procs!ObjectKind
    <2>12. liveSchemas' = there'
      BY <1>1, <2>1, <2>10
    <2>13. CASE kind = "procedure"
      <3>1. slots'["trigger"] = slots["trigger"] /\ inUse'["trigger"] = inUse["trigger"]
        BY <1>12, <2>13 DEF Procs!ObjectKind
      <3>2. Ids(slots'["procedure"], inUse'["procedure"]) = P \cup {id}
        BY <1>8, <1>12, <2>4, <2>13 DEF fill
      <3>3. Ids(slots'["trigger"], inUse'["trigger"]) = T
        BY <3>1
      <3>4. liveParts' = P \cup {id} /\ there' = (P \cup {id}) \cup T /\ (P \cup {id}) \cap T = {}
        BY <1>1, <2>1, <2>10, <2>11, <2>13
      <3>5. ASSUME NEW j \in 1..inUse'["procedure"]
            PROVE  slots'["procedure"][j].part = slots'["procedure"][j].id
        <4>1. slots'["procedure"] = row /\ inUse'["procedure"] = inUse["procedure"] + 1
          BY <1>12, <2>13 DEF fill
        <4>2. j \in 1..inUse["procedure"] \/ j = inUse["procedure"] + 1
          BY <1>4, <2>13, <4>1
        <4> QED BY <1>8, <2>1, <2>4, <2>10, <2>13, <4>1, <4>2
      <3> HIDE DEF P, T
      <3> QED BY <2>9, <2>12, <3>2, <3>3, <3>4, <3>5 DEF RegistersWell
    <2>14. CASE kind = "trigger"
      <3>1. slots'["procedure"] = slots["procedure"] /\ inUse'["procedure"] = inUse["procedure"]
        BY <1>12, <2>14 DEF Procs!ObjectKind
      <3>2. Ids(slots'["trigger"], inUse'["trigger"]) = T \cup {id}
        BY <1>8, <1>12, <2>4, <2>14 DEF fill
      <3>3. Ids(slots'["procedure"], inUse'["procedure"]) = P
        BY <3>1
      <3>4. liveParts' = P /\ there' = P \cup (T \cup {id}) /\ P \cap (T \cup {id}) = {}
        BY <1>1, <2>1, <2>10, <2>11, <2>14
      <3>5. \A j \in 1..inUse'["procedure"] :
               slots'["procedure"][j].part = slots'["procedure"][j].id
        BY <2>10, <3>1
      <3> HIDE DEF P, T
      <3> QED BY <2>9, <2>12, <3>2, <3>3, <3>4, <3>5 DEF RegistersWell
    <2> QED BY <2>13, <2>14 DEF Procs!ObjectKind
  <1>15. process' = "ok"
    BY <1>1
  <1> QED BY <1>12, <1>13, <1>14, <1>15 DEF ProcInv

\* A step into undefined behaviour leaves the rest.
LEMMA UndefinedKeepsProcs ==
    ASSUME Procs!ProceduresAssumption, ProcInv, Procs!Undefined, ~whole
    PROVE  ProcInv'
  <1>1. process' = "undefined" /\ UNCHANGED <<slots, inUse, schemaOf, liveSchemas, liveParts,
                                              created, whole, there>>
    BY DEF Procs!Undefined, Procs!heapVars, Procs!pastVars
  <1>2. Procs!ProceduresTypeOK'
    BY <1>1 DEF ProcInv, Procs!ProceduresTypeOK
  <1>3. ~whole' /\ \A i \in 1..MaxObjects : slots'["trigger"][i].part = Procs!Null
    BY <1>1 DEF ProcInv
  <1> QED BY <1>2, <1>3 DEF ProcInv

\* While all objects have all their parts no search fails.
LEMMA SearchKeepsProcs ==
    ASSUME Procs!ProceduresAssumption, ProcInv, Procs!SearchFails
    PROVE  ProcInv'
  <1>1. process = "ok" /\ Procs!Undefined
    BY DEF Procs!SearchFails
  <1>2. PICK kind \in Procs!ObjectKind, n \in ObjectName, s \in Schema :
           /\ Procs!FindObject(kind, n, s) # 0
           /\ Procs!ReadsFreed(slots[kind][Procs!FindObject(kind, n, s)], n, s)
    BY DEF Procs!SearchFails
  <1>3. ~whole
    <2> SUFFICES ASSUME whole PROVE FALSE
      OBVIOUS
    <2>1. RegistersWell /\ Procs!ProceduresTypeOK /\ s \in Schema \cup {NoSchema}
      BY <1>1 DEF ProcInv
    <2>2. /\ \A j \in 1..inUse[kind] : ~Procs!ReadsFreed(slots[kind][j], n, s)
          /\ Procs!FindObject(kind, n, s) \in 1..inUse[kind]
      BY <1>2, <2>1, FoundWell
    <2> QED BY <1>2, <2>2
  <1> QED BY <1>1, <1>3, UndefinedKeepsProcs

\* The parts of a row that is in order are of the objects in it.
LEMMA OwnParts ==
    ASSUME Procs!ProceduresAssumption, ProcInv, RegistersWell,
           NEW kind \in Procs!ObjectKind, NEW i \in 1..inUse[kind]
    PROVE  /\ slots[kind][i].schema = slots[kind][i].id /\ slots[kind][i].schema \in liveSchemas
           /\ slots[kind][i].id \in Nat /\ slots[kind][i].id # Procs!Null
           /\ slots[kind][i].part = IF kind = "procedure" THEN slots[kind][i].id ELSE Procs!Null
           /\ slots[kind][i].part \in liveParts \cup {Procs!Null}
  <1>1. slots[kind][i].schema = slots[kind][i].id /\ slots[kind][i].id \in 1..created
    BY DEF RegistersWell, RowSound
  <1>2. slots[kind][i].id \in Ids(slots[kind], inUse[kind])
    BY DEF Ids
  <1>3. slots[kind][i].id \in liveSchemas
    BY <1>2 DEF RegistersWell, Procs!ObjectKind
  <1>4. created \in Nat
    BY DEF ProcInv, Procs!ProceduresTypeOK, Procs!Id, Procs!ProceduresAssumption
  <1>5. CASE kind = "procedure"
    BY <1>1, <1>2, <1>3, <1>4, <1>5 DEF RegistersWell, Procs!Null
  <1>6. CASE kind = "trigger"
    <2>1. i \in 1..MaxObjects
      <3>1. inUse[kind] \in 0..MaxObjects /\ MaxObjects \in Nat
        BY RowType DEF ProcInv
      <3> QED BY <3>1
    <2> QED BY <1>1, <1>3, <1>4, <1>6, <2>1 DEF ProcInv, Procs!Null
  <1> QED BY <1>5, <1>6 DEF Procs!ObjectKind

\* A drop takes one object out, with its parts.
LEMMA DropKeepsProcs ==
    ASSUME Procs!ProceduresAssumption, ProcInv, NEW kind \in Procs!ObjectKind,
           NEW n \in ObjectName, NEW s \in Schema \cup {NoSchema},
           Procs!DropObject(kind, n, s)
    PROVE  ProcInv'
  <1> DEFINE i == Procs!FindObject(kind, n, s)
             o == slots[kind][i]
             row == Procs!Moved(slots[kind], i, inUse[kind])
             fill == inUse[kind] - 1
             Owned == /\ o.schema \in liveSchemas \cup {Procs!Null}
                      /\ o.part \in liveParts \cup {Procs!Null}
  <1>1. process = "ok" /\ i # 0
    BY DEF Procs!DropObject
  <1>2. IF Owned
          THEN /\ slots' = [slots EXCEPT ![kind] = row]
               /\ inUse' = [inUse EXCEPT ![kind] = inUse[kind] - 1]
               /\ liveSchemas' = liveSchemas \ {o.schema}
               /\ liveParts' = liveParts \ {o.part}
               /\ there' = there \ {o.id}
               /\ UNCHANGED <<schemaOf, process, created, whole>>
          ELSE Procs!Undefined
    BY DEF Procs!DropObject
  <1>3. i \in 1..inUse[kind]
    BY <1>1, FoundWithin DEF ProcInv
  <1> HIDE DEF i
  <1>4. whole => RegistersWell
    BY <1>1 DEF ProcInv
  <1>5. CASE ~Owned
    <2>1. Procs!Undefined
      BY <1>2, <1>5
    <2>2. ~whole
      <3> SUFFICES ASSUME whole PROVE FALSE
        OBVIOUS
      <3>1. o.schema \in liveSchemas /\ o.part \in liveParts \cup {Procs!Null}
        BY <1>3, <1>4, OwnParts
      <3> QED BY <1>5, <3>1
    <2> QED BY <2>1, <2>2, UndefinedKeepsProcs
  <1>6. CASE Owned
    <2>1. /\ SlotsBut(kind, row, fill)
          /\ liveSchemas' = liveSchemas \ {o.schema}
          /\ liveParts' = liveParts \ {o.part}
          /\ there' = there \ {o.id}
          /\ schemaOf' = schemaOf /\ process' = process /\ created' = created /\ whole' = whole
      BY <1>2, <1>6 DEF SlotsBut
    <2> HIDE DEF Owned
    <2>2. /\ slots[kind] \in Row /\ inUse[kind] \in 0..MaxObjects /\ MaxObjects \in Nat
      BY RowType DEF ProcInv
    <2>3. inUse[kind] \in 1..MaxObjects /\ fill \in 0..MaxObjects
      BY <1>3, <2>2
    <2>4. IsMoved(row, slots[kind], i, inUse[kind])
      BY DEF IsMoved
    <2> HIDE DEF row
    <2>5. row \in Row /\ \A j \in 1..MaxObjects : \E k \in 1..MaxObjects : row[j] = slots[kind][k]
      <3> DEFINE a == slots[kind]
                 m == inUse[kind]
      <3>1. a \in Row /\ m \in 1..MaxObjects /\ i \in 1..m /\ IsMoved(row, a, i, m)
        BY <1>3, <2>2, <2>3, <2>4
      <3> HIDE DEF a, m
      <3>2. row \in Row /\ \A j \in 1..MaxObjects : \E k \in 1..MaxObjects : row[j] = a[k]
        BY <3>1, MovedRow
      <3> QED BY <3>2 DEF a
    <2>6. kind = "trigger" => \A j \in 1..MaxObjects : row[j].part = Procs!Null
      BY <2>5 DEF ProcInv
    <2> HIDE DEF fill
    <2>7. /\ slots' \in [Procs!ObjectKind -> Row]
          /\ inUse' \in [Procs!ObjectKind -> 0..MaxObjects]
          /\ slots'[kind] = row /\ inUse'[kind] = fill
          /\ \A k \in Procs!ObjectKind : k # kind => slots'[k] = slots[k] /\ inUse'[k] = inUse[k]
          /\ \A j \in 1..MaxObjects : slots'["trigger"][j].part = Procs!Null
      BY <2>1, <2>3, <2>5, <2>6, SlotsTyped
    <2>8. Procs!ProceduresTypeOK'
      <3>1. /\ liveSchemas' \subseteq PId /\ liveParts' \subseteq PId
            /\ schemaOf' \in [PId -> Schema \cup {NoSchema}]
            /\ process' \in {"ok", "undefined", "destroyed"}
            /\ created' \in {0} \cup PId /\ whole' \in BOOLEAN
        BY <2>1 DEF ProcInv, Procs!ProceduresTypeOK, PId
      <3> QED BY <2>7, <3>1 DEF Procs!ProceduresTypeOK, Row, PSlot, PId
    <2>9. ASSUME whole PROVE RegistersWell'
      <3>1. RegistersWell
        BY <1>4, <2>9
      <3>2. /\ RowSound(slots[kind], inUse[kind], created)
            /\ RowUnique(slots[kind], inUse[kind], schemaOf)
        BY <3>1 DEF RegistersWell
      <3>3. /\ RowSound(row, fill, created) /\ RowUnique(row, fill, schemaOf)
            /\ Ids(row, fill) = Ids(slots[kind], inUse[kind]) \ {o.id}
            /\ (\A j \in 1..inUse[kind] : slots[kind][j].part = slots[kind][j].id)
               => \A j \in 1..fill : row[j].part = row[j].id
        BY <1>3, <2>2, <2>3, <2>4, <3>2, DroppedRow DEF fill
      <3>4. ASSUME NEW k \in Procs!ObjectKind
            PROVE  /\ RowSound(slots'[k], inUse'[k], created')
                   /\ RowUnique(slots'[k], inUse'[k], schemaOf')
        <4>1. CASE k = kind
          BY <2>1, <2>7, <3>3, <4>1
        <4>2. CASE k # kind
          <5>1. RowSound(slots[k], inUse[k], created) /\ RowUnique(slots[k], inUse[k], schemaOf)
            BY <3>1 DEF RegistersWell
          <5> QED BY <2>1, <2>7, <4>2, <5>1
        <4> QED BY <4>1, <4>2
      <3> DEFINE P == Ids(slots["procedure"], inUse["procedure"])
                 T == Ids(slots["trigger"], inUse["trigger"])
      <3>5. there = P \cup T /\ P \cap T = {} /\ liveParts = P /\ liveSchemas = there
            /\ \A j \in 1..inUse["procedure"] :
                  slots["procedure"][j].part = slots["procedure"][j].id
        BY <3>1 DEF RegistersWell
      <3>6. /\ o.schema = o.id /\ o.id # Procs!Null
            /\ o.part = IF kind = "procedure" THEN o.id ELSE Procs!Null
        BY <1>3, <3>1, OwnParts
      <3>7. o.id \in Ids(slots[kind], inUse[kind])
        BY <1>3 DEF Ids
      <3> HIDE DEF o
      <3>8. liveSchemas' = there'
        BY <2>1, <3>5, <3>6
      <3>9. CASE kind = "procedure"
        <4>1. slots'["trigger"] = slots["trigger"] /\ inUse'["trigger"] = inUse["trigger"]
          BY <2>7, <3>9 DEF Procs!ObjectKind
        <4>2. Ids(slots'["procedure"], inUse'["procedure"]) = P \ {o.id}
          BY <2>7, <3>3, <3>9
        <4>3. Ids(slots'["trigger"], inUse'["trigger"]) = T
          BY <4>1
        <4>4. liveParts' = P \ {o.id} /\ there' = (P \ {o.id}) \cup T /\ (P \ {o.id}) \cap T = {}
          BY <2>1, <3>5, <3>6, <3>7, <3>9
        <4>5. \A j \in 1..inUse'["procedure"] :
                 slots'["procedure"][j].part = slots'["procedure"][j].id
          BY <2>7, <3>3, <3>5, <3>9
        <4> HIDE DEF P, T
        <4> QED BY <3>4, <3>8, <4>2, <4>3, <4>4, <4>5 DEF RegistersWell
      <3>10. CASE kind = "trigger"
        <4>1. slots'["procedure"] = slots["procedure"] /\ inUse'["procedure"] = inUse["procedure"]
          BY <2>7, <3>10 DEF Procs!ObjectKind
        <4>2. Ids(slots'["trigger"], inUse'["trigger"]) = T \ {o.id}
          BY <2>7, <3>3, <3>10
        <4>3. Ids(slots'["procedure"], inUse'["procedure"]) = P
          BY <4>1
        <4>4. Procs!Null \notin P
          <5>1. \A j \in 1..inUse["procedure"] : slots["procedure"][j].id # Procs!Null
            BY <3>1, OwnParts DEF Procs!ObjectKind
          <5> QED BY <5>1 DEF Ids
        <4>5. liveParts' = P /\ there' = P \cup (T \ {o.id}) /\ P \cap (T \ {o.id}) = {}
          BY <2>1, <3>5, <3>6, <3>7, <3>10, <4>4
        <4>6. \A j \in 1..inUse'["procedure"] :
                 slots'["procedure"][j].part = slots'["procedure"][j].id
          BY <3>5, <4>1
        <4> HIDE DEF P, T
        <4> QED BY <3>4, <3>8, <4>2, <4>3, <4>5, <4>6 DEF RegistersWell
      <3> QED BY <3>9, <3>10 DEF Procs!ObjectKind
    <2> QED BY <1>1, <2>1, <2>7, <2>8, <2>9 DEF ProcInv
  <1> QED BY <1>5, <1>6

\* Destroying the manager frees each part once.
LEMMA DestroyKeepsProcs ==
    ASSUME Procs!ProceduresAssumption, ProcInv, Procs!DestroyManager
    PROVE  ProcInv'
  <1> DEFINE p == Procs!Used("procedure")
             t == Procs!Used("trigger")
             all == p \o t
             Once(field, alive) ==
               /\ \A i \in DOMAIN all : all[i][field] \in alive \cup {Procs!Null}
               /\ \A i, j \in DOMAIN all :
                     all[i][field] = all[j][field] => i = j \/ all[i][field] = Procs!Null
  <1>1. process = "ok"
    BY DEF Procs!DestroyManager
  <1>2. IF Once("schema", liveSchemas) /\ Once("part", liveParts)
          THEN /\ process' = "destroyed"
               /\ liveSchemas' = liveSchemas \ {all[i].schema : i \in DOMAIN all}
               /\ liveParts' = liveParts \ {all[i].part : i \in DOMAIN all}
               /\ UNCHANGED <<slots, inUse, schemaOf, Procs!pastVars>>
          ELSE Procs!Undefined
    BY DEF Procs!DestroyManager
  <1>3. "procedure" \in Procs!ObjectKind /\ "trigger" \in Procs!ObjectKind
    BY DEF Procs!ObjectKind
  <1> DEFINE np == inUse["procedure"]
             nt == inUse["trigger"]
  <1>4. /\ p \in Seq(PSlot) /\ Len(p) = np /\ t \in Seq(PSlot) /\ Len(t) = nt
        /\ \A i \in 1..np : p[i] = slots["procedure"][i]
        /\ \A i \in 1..nt : t[i] = slots["trigger"][i]
    BY <1>3, UsedIs DEF ProcInv
  <1>5. np \in Nat /\ nt \in Nat
    BY <1>3, RowType DEF ProcInv
  <1> HIDE DEF p, t, np, nt
  <1>6. /\ all \in Seq(PSlot) /\ Len(all) = np + nt
        /\ \A i \in 1..np : all[i] = p[i]
        /\ \A i \in 1..nt : all[np + i] = t[i]
    BY <1>4, <1>5
  <1> HIDE DEF all
  <1>7. DOMAIN all = 1..(np + nt)
    BY <1>5, <1>6
  <1>8. ASSUME NEW i \in DOMAIN all
        PROVE  \/ i \in 1..np /\ all[i] = slots["procedure"][i]
               \/ i - np \in 1..nt /\ all[i] = slots["trigger"][i - np] /\ i \in Int
    <2>1. CASE i \in 1..np
      BY <1>4, <1>6, <2>1
    <2>2. CASE i \notin 1..np
      <3>1. i - np \in 1..nt /\ np + (i - np) = i /\ i \in Int
        BY <1>5, <1>7, <2>2
      <3> QED BY <1>4, <1>6, <3>1
    <2> QED BY <2>1, <2>2
  <1>9. \A i \in 1..np : i \in DOMAIN all /\ all[i] = slots["procedure"][i]
    BY <1>4, <1>5, <1>6, <1>7
  <1>10. \A i \in 1..nt : np + i \in DOMAIN all /\ all[np + i] = slots["trigger"][i]
    BY <1>4, <1>5, <1>6, <1>7
  <1>11. ASSUME whole
         PROVE  Once("schema", liveSchemas) /\ Once("part", liveParts)
                /\ liveSchemas \subseteq {all[i].schema : i \in DOMAIN all}
                /\ liveParts \subseteq {all[i].part : i \in DOMAIN all}
    <2>1. RegistersWell
      BY <1>1, <1>11 DEF ProcInv
    <2>2. \A i \in 1..np :
             /\ slots["procedure"][i].schema = slots["procedure"][i].id
             /\ slots["procedure"][i].schema \in liveSchemas
             /\ slots["procedure"][i].part = slots["procedure"][i].id
             /\ slots["procedure"][i].part \in liveParts \cup {Procs!Null}
             /\ slots["procedure"][i].id \in Nat
      BY <1>3, <2>1, OwnParts DEF np
    <2>3. \A i \in 1..nt :
             /\ slots["trigger"][i].schema = slots["trigger"][i].id
             /\ slots["trigger"][i].schema \in liveSchemas
             /\ slots["trigger"][i].part = Procs!Null
             /\ slots["trigger"][i].id \in Nat
      BY <1>3, <2>1, OwnParts DEF nt
    <2>4. \A i, j \in 1..np : slots["procedure"][i].id = slots["procedure"][j].id => i = j
      <3> SUFFICES ASSUME NEW i \in 1..np, NEW j \in 1..np,
                          slots["procedure"][i].id = slots["procedure"][j].id
                   PROVE  i = j
        OBVIOUS
      <3>1. i < j => slots["procedure"][i].id < slots["procedure"][j].id
        BY <1>3, <2>1 DEF RegistersWell, RowSound, np
      <3>2. j < i => slots["procedure"][j].id < slots["procedure"][i].id
        BY <1>3, <2>1 DEF RegistersWell, RowSound, np
      <3> QED BY <1>5, <2>2, <3>1, <3>2
    <2>5. \A i, j \in 1..nt : slots["trigger"][i].id = slots["trigger"][j].id => i = j
      <3> SUFFICES ASSUME NEW i \in 1..nt, NEW j \in 1..nt,
                          slots["trigger"][i].id = slots["trigger"][j].id
                   PROVE  i = j
        OBVIOUS
      <3>1. i < j => slots["trigger"][i].id < slots["trigger"][j].id
        BY <1>3, <2>1 DEF RegistersWell, RowSound, nt
      <3>2. j < i => slots["trigger"][j].id < slots["trigger"][i].id
        BY <1>3, <2>1 DEF RegistersWell, RowSound, nt
      <3> QED BY <1>5, <2>3, <3>1, <3>2
    <2>6. \A i \in 1..np, j \in 1..nt : slots["procedure"][i].id # slots["trigger"][j].id
      BY <2>1 DEF RegistersWell, Ids, np, nt
    <2>7. \A i \in DOMAIN all : /\ all[i].schema \in liveSchemas
                                /\ all[i].part \in liveParts \cup {Procs!Null}
      BY <1>8, <2>2, <2>3
    <2>8. ASSUME NEW i \in DOMAIN all, NEW j \in DOMAIN all, all[i].schema = all[j].schema
          PROVE  i = j
      <3>1. CASE i \in 1..np /\ all[i] = slots["procedure"][i]
                 /\ j \in 1..np /\ all[j] = slots["procedure"][j]
        BY <2>2, <2>4, <2>8, <3>1
      <3>2. CASE i \in 1..np /\ all[i] = slots["procedure"][i]
                 /\ j - np \in 1..nt /\ all[j] = slots["trigger"][j - np]
        BY <2>2, <2>3, <2>6, <2>8, <3>2
      <3>3. CASE i - np \in 1..nt /\ all[i] = slots["trigger"][i - np]
                 /\ j \in 1..np /\ all[j] = slots["procedure"][j]
        BY <2>2, <2>3, <2>6, <2>8, <3>3
      <3>4. CASE i - np \in 1..nt /\ all[i] = slots["trigger"][i - np] /\ i \in Int
                 /\ j - np \in 1..nt /\ all[j] = slots["trigger"][j - np] /\ j \in Int
        <4>1. i - np = j - np
          BY <2>3, <2>5, <2>8, <3>4
        <4> QED BY <1>5, <3>4, <4>1
      <3> QED BY <1>8, <3>1, <3>2, <3>3, <3>4
    <2>9. ASSUME NEW i \in DOMAIN all, NEW j \in DOMAIN all, all[i].part = all[j].part
          PROVE  i = j \/ all[i].part = Procs!Null
      <3>1. CASE i - np \in 1..nt /\ all[i] = slots["trigger"][i - np]
        BY <2>3, <3>1
      <3>2. CASE j - np \in 1..nt /\ all[j] = slots["trigger"][j - np]
        BY <2>3, <2>9, <3>2
      <3>3. CASE i \in 1..np /\ all[i] = slots["procedure"][i]
                 /\ j \in 1..np /\ all[j] = slots["procedure"][j]
        BY <2>2, <2>4, <2>9, <3>3
      <3> QED BY <1>8, <3>1, <3>2, <3>3
    <2>10. Once("schema", liveSchemas) /\ Once("part", liveParts)
      BY <2>7, <2>8, <2>9
    <2>11. liveParts = {slots["procedure"][i].id : i \in 1..np}
           /\ liveSchemas = {slots["procedure"][i].id : i \in 1..np}
                            \cup {slots["trigger"][i].id : i \in 1..nt}
      BY <2>1 DEF RegistersWell, Ids, np, nt
    <2>12. liveParts \subseteq {all[i].part : i \in DOMAIN all}
      BY <1>9, <2>2, <2>11
    <2>13. liveSchemas \subseteq {all[i].schema : i \in DOMAIN all}
      BY <1>9, <1>10, <2>2, <2>3, <2>11
    <2> QED BY <2>10, <2>12, <2>13
  <1> HIDE DEF Once
  <1>12. CASE Once("schema", liveSchemas) /\ Once("part", liveParts)
    <2>1. /\ process' = "destroyed"
          /\ liveSchemas' = liveSchemas \ {all[i].schema : i \in DOMAIN all}
          /\ liveParts' = liveParts \ {all[i].part : i \in DOMAIN all}
          /\ UNCHANGED <<slots, inUse, schemaOf, created, whole, there>>
      BY <1>2, <1>12 DEF Procs!pastVars
    <2>2. Procs!ProceduresTypeOK'
      BY <2>1 DEF ProcInv, Procs!ProceduresTypeOK
    <2>3. whole' => liveSchemas' = {} /\ liveParts' = {}
      BY <1>11, <2>1
    <2>4. \A i \in 1..MaxObjects : slots'["trigger"][i].part = Procs!Null
      BY <2>1 DEF ProcInv
    <2> QED BY <2>1, <2>2, <2>3, <2>4 DEF ProcInv
  <1>13. CASE ~(Once("schema", liveSchemas) /\ Once("part", liveParts))
    BY <1>2, <1>11, <1>13, UndefinedKeepsProcs
  <1> QED BY <1>12, <1>13

\* Every operation keeps the invariant.
LEMMA NextKeepsProcs ==
    ASSUME Procs!ProceduresAssumption, ProcInv, [Procs!ProceduresNext]_procedureVars
    PROVE  ProcInv'
  <1>1. CASE UNCHANGED procedureVars
    <2>1. UNCHANGED <<slots, inUse, schemaOf, liveSchemas, liveParts, process, created, whole,
                    there>>
      BY <1>1 DEF procedureVars
    <2>2. Procs!ProceduresTypeOK' /\ \A i \in 1..MaxObjects : slots'["trigger"][i].part = Procs!Null
      BY <2>1 DEF ProcInv, Procs!ProceduresTypeOK
    <2>3. RegistersWell => RegistersWell'
      BY <2>1 DEF RegistersWell, RowSound, RowUnique, Ids
    <2> QED BY <2>1, <2>2, <2>3 DEF ProcInv
  <1>2. CASE Procs!ProceduresNext
    BY <1>2, CreateKeepsProcs, DropKeepsProcs, SearchKeepsProcs, DestroyKeepsProcs
    DEF Procs!ProceduresNext
  <1> QED BY <1>1, <1>2

\* The invariant says whose parts are whose.
LEMMA ProcInvOwned ==
    ASSUME Procs!ProceduresAssumption, ProcInv
    PROVE  Procs!PartsOwned
  <1> SUFFICES ASSUME whole
               PROVE  /\ process # "undefined"
                      /\ process = "ok" =>
                           /\ liveSchemas = there
                           /\ \A kind \in Procs!ObjectKind, i \in 1..MaxObjects :
                                i <= inUse[kind] => slots[kind][i].schema = slots[kind][i].id
                           /\ liveParts = {o.part : o \in Procs!ToSet(Procs!Used("procedure"))}
                      /\ process = "destroyed" => liveSchemas = {} /\ liveParts = {}
    BY DEF Procs!PartsOwned
  <1>1. process # "undefined" /\ (process = "destroyed" => liveSchemas = {} /\ liveParts = {})
    BY DEF ProcInv
  <1>2. ASSUME process = "ok"
        PROVE  /\ liveSchemas = there
               /\ \A kind \in Procs!ObjectKind, i \in 1..MaxObjects :
                    i <= inUse[kind] => slots[kind][i].schema = slots[kind][i].id
               /\ liveParts = {o.part : o \in Procs!ToSet(Procs!Used("procedure"))}
    <2>1. RegistersWell
      BY <1>2 DEF ProcInv
    <2>2. \A kind \in Procs!ObjectKind : inUse[kind] \in Nat
      BY RowType DEF ProcInv
    <2>3. ASSUME NEW kind \in Procs!ObjectKind, NEW i \in 1..MaxObjects, i <= inUse[kind]
          PROVE  slots[kind][i].schema = slots[kind][i].id
      <3>1. i \in 1..inUse[kind]
        BY <2>2, <2>3 DEF Procs!ProceduresAssumption
      <3> QED BY <2>1, <3>1 DEF RegistersWell, RowSound
    <2> DEFINE u == Procs!Used("procedure")
               n == inUse["procedure"]
    <2>4. DOMAIN u = 1..n /\ \A i \in 1..n : u[i] = slots["procedure"][i]
      BY UsedIs DEF ProcInv, Procs!ObjectKind
    <2>5. \A i \in 1..n : slots["procedure"][i].part = slots["procedure"][i].id
      BY <2>1 DEF RegistersWell
    <2>6. liveParts = {slots["procedure"][i].id : i \in 1..n} /\ liveSchemas = there
      BY <2>1 DEF RegistersWell, Ids
    <2> HIDE DEF u, n
    <2>7. liveParts = {o.part : o \in Procs!ToSet(u)}
      BY <2>4, <2>5, <2>6 DEF Procs!ToSet
    <2> QED BY <2>3, <2>6, <2>7 DEF u
  <1> QED BY <1>1, <1>2

\* And a search ends at the first created of those that fit.
LEMMA ProcInvSearches ==
    ASSUME Procs!ProceduresAssumption, ProcInv
    PROVE  Procs!SearchesExact
  <1> DEFINE Fitting(k, n, s) == {o \in Procs!ToSet(Procs!Used(k)) :
                                    o.name = n /\ s \in {NoSchema, schemaOf[o.id]}}
             All == {o.id : o \in Procs!ToSet(Procs!Used("procedure"))
                                  \cup Procs!ToSet(Procs!Used("trigger"))} = there
             AtFirst(k, n, s) ==
               IF Fitting(k, n, s) = {} THEN Procs!FindObject(k, n, s) = 0
               ELSE slots[k][Procs!FindObject(k, n, s)].id
                    = Procs!Min({o.id : o \in Fitting(k, n, s)})
             Only(k, n, s) == s # NoSchema => Procs!Cardinality(Fitting(k, n, s)) <= 1
  <1>0. SUFFICES ASSUME whole, process = "ok", NEW kind \in Procs!ObjectKind,
                        NEW n \in ObjectName, NEW s \in Schema \cup {NoSchema}
                 PROVE  All /\ AtFirst(kind, n, s) /\ Only(kind, n, s)
    BY ZenonT(60) DEF Procs!SearchesExact
  <1> DEFINE found == Fitting(kind, n, s)
             i == Procs!FindObject(kind, n, s)
  <1>1. RegistersWell
    BY <1>0 DEF ProcInv
  <1>2. \A k \in Procs!ObjectKind :
           Procs!ToSet(Procs!Used(k)) = {slots[k][j] : j \in 1..inUse[k]}
    BY UsedIs DEF ProcInv, Procs!ToSet
  <1>3. {o.id : o \in Procs!ToSet(Procs!Used("procedure"))
                      \cup Procs!ToSet(Procs!Used("trigger"))} = there
    <2>1. there = Ids(slots["procedure"], inUse["procedure"])
                  \cup Ids(slots["trigger"], inUse["trigger"])
      BY <1>1 DEF RegistersWell
    <2> QED BY <1>2, <2>1 DEF Ids, Procs!ObjectKind
  <1> DEFINE m == inUse[kind]
             a == slots[kind]
  <1>4. \A o : o \in found <=> \E j \in 1..m : o = a[j] /\ Fits(a[j], n, s)
    BY <1>2 DEF Fits
  <1> HIDE DEF Fitting
  <1>5. \/ i \in 1..m /\ i # 0 /\ Fits(a[i], n, s) /\ \A j \in 1..m : j < i => ~Fits(a[j], n, s)
        \/ i = 0 /\ \A j \in 1..m : ~Fits(a[j], n, s)
    BY <1>1, FoundWell DEF ProcInv
  <1>6. /\ \A j \in 1..m : a[j].id \in 1..created
        /\ \A j, k \in 1..m : j < k => a[j].id < a[k].id
        /\ \A j, k \in 1..m : a[j].name = a[k].name /\ schemaOf[a[j].id] = schemaOf[a[k].id] 
                                 => j = k
    BY <1>1 DEF RegistersWell, RowSound, RowUnique
  <1>7. m \in Nat
    BY RowType DEF ProcInv
  <1> HIDE DEF a, m, i, found
  <1>8. found = {} => i = 0
    BY <1>4, <1>5
  <1>9. ASSUME found # {} PROVE a[i].id = Procs!Min({o.id : o \in found})
    <2>1. i \in 1..m /\ Fits(a[i], n, s) /\ \A j \in 1..m : j < i => ~Fits(a[j], n, s)
      BY <1>4, <1>5, <1>9
    <2> DEFINE I == {o.id : o \in found}
    <2>2. a[i].id \in I /\ a[i].id \in Int
      BY <1>4, <1>6, <2>1
    <2>3. ASSUME NEW y \in I PROVE a[i].id <= y /\ y \in Int
      <3>1. PICK j \in 1..m : y = a[j].id /\ Fits(a[j], n, s)
        BY <1>4, <2>3
      <3>2. i <= j
        BY <1>7, <2>1, <3>1
      <3>3. i = j \/ i < j
        BY <1>7, <2>1, <3>2
      <3>4. y \in Int
        BY <1>6, <3>1
      <3> QED BY <1>6, <2>1, <2>2, <3>1, <3>3, <3>4
    <2> HIDE DEF I
    <2>4. Procs!Min(I) \in I /\ \A y \in I : Procs!Min(I) <= y
      BY <2>2, <2>3 DEF Procs!Min
    <2>5. Procs!Min(I) = a[i].id
      <3> DEFINE x == Procs!Min(I)
      <3>1. x \in I /\ x <= a[i].id /\ a[i].id <= x /\ x \in Int
        BY <2>2, <2>3, <2>4
      <3> HIDE DEF x
      <3>2. x = a[i].id
        BY <2>2, <3>1
      <3> QED BY <3>2 DEF x
    <2> QED BY <2>5 DEF I
  <1>10. ASSUME s # NoSchema PROVE Procs!Cardinality(found) <= 1
    <2>1. \A o, q \in found : o = q
      <3> SUFFICES ASSUME NEW o \in found, NEW q \in found PROVE o = q
        OBVIOUS
      <3>1. PICK j \in 1..m : o = a[j] /\ Fits(a[j], n, s)
        BY <1>4
      <3>2. PICK k \in 1..m : q = a[k] /\ Fits(a[k], n, s)
        BY <1>4
      <3>3. j = k
        BY <1>6, <1>10, <3>1, <3>2 DEF Fits
      <3> QED BY <3>1, <3>2, <3>3
    <2>2. Procs!Cardinality(found) = Cardinality(found)
      BY DEF Procs!Cardinality, Cardinality
    <2>3. CASE found = {}
      <3>1. Cardinality({}) = 0
        BY FS_EmptySet
      <3> QED BY <2>2, <2>3, <3>1
    <2>4. CASE found # {}
      <3>1. PICK o \in found : found = {o}
        BY <2>1, <2>4
      <3>2. Cardinality({o}) = 1
        BY FS_Singleton
      <3> QED BY <2>2, <3>1, <3>2
    <2> QED BY <2>3, <2>4
  <1> QED BY <1>3, <1>8, <1>9, <1>10 DEF a, i, found

-----------------------------------------------------------------------------
(* The server.                                                              *)
\* The invariants of all its parts.
ServerInv ==
    /\ CacheInv /\ PoolInv /\ NetworkInv /\ LockInv /\ GrantInv /\ RolesTyped
    /\ ErrorInv /\ MonitorInv /\ ProcInv

\* All parts start with their invariants.
LEMMA InitServerInv ==
    ASSUME MCInit
    PROVE  ServerInv
  <1> USE ServerAssumption DEF ServerAssumption
  <1>1. CacheInv
    BY InitCacheInv DEF MCInit
  <1>2. PoolInv
    BY DEF MCInit, PoolAssumption, PoolInit, PoolInv, PoolTypeOK, PoolSound, StatisticsAddUp,
           BlocksAreDisjoint
  <1>3. NetworkInv
    BY InitNetworkInv DEF MCInit
  <1>4. LockInv
    BY InitLockInv DEF MCInit, Init
  <1>5. GrantInv /\ RolesTyped
    BY InitGrants DEF MCInit
  <1>6. ErrorInv
    BY InitErrorInv DEF MCInit
  <1>7. MonitorInv /\ ProcInv
    BY InitMonitorInv, InitProcInv DEF MCInit
  <1> QED BY <1>1, <1>2, <1>3, <1>4, <1>5, <1>6, <1>7 DEF ServerInv

\* A step of one part leaves the others alone.
LEMMA NextKeepsServer ==
    ASSUME ServerInv,
           [MCNext]_<<subject, cacheVars, poolVars, networkVars, securityVars, errorVars,
                      registerVars>>
    PROVE  ServerInv'
  <1> USE ServerAssumption DEF ServerAssumption
  <1>1. /\ [Cache!Next]_cacheVars /\ [PoolNext]_poolVars /\ [NetworkNext]_networkVars
        /\ [Next]_securityVars /\ [ErrorNext]_errorVars
        /\ [Monitor!MonitoringNext]_monitoringVars /\ [Procs!ProceduresNext]_procedureVars
    BY DEF MCNext, registerVars
  <1>2. /\ CacheInv /\ PoolInv /\ NetworkInv /\ LockInv /\ GrantInv /\ RolesTyped
        /\ ErrorInv /\ MonitorInv /\ ProcInv
    BY DEF ServerInv
  <1>3. CacheInv' /\ PoolInv'
    BY <1>1, <1>2, NextKeepsCache, NextKeepsPool
  <1>4. NetworkInv'
    BY <1>1, <1>2, NextKeepsNetwork
  <1>5. LockInv' /\ GrantInv' /\ RolesTyped'
    BY <1>1, <1>2, NextKeepsLock, NextKeepsGrants, NextKeepsRoles
  <1>6. ErrorInv'
    BY <1>1, <1>2, NextKeepsErrors
  <1>7. MonitorInv'
    BY <1>1, <1>2, NextKeepsMonitor
  <1>8. ProcInv'
    BY <1>1, <1>2, NextKeepsProcs
  <1> QED BY <1>3, <1>4, <1>5, <1>6, <1>7, <1>8 DEF ServerInv

\* The invariants contain the types.
LEMMA ServerInvTypes ==
    ASSUME ServerInv
    PROVE  ServerTypeOK
  <1> USE ServerAssumption DEF ServerAssumption
  <1>1. Cache!TypeOK
    <2>1. itemCount \in Nat
      BY DEF ServerInv, CacheInv, Accounts, Now
    <2> QED BY <2>1 DEF ServerInv, CacheInv, Accounts, Now, Cache!TypeOK, CacheItem
  <1>2. PoolTypeOK /\ NetworkTypeOK /\ ErrorTypeOK
    BY DEF ServerInv, PoolInv, NetworkInv, ErrorInv
  <1>3. TypeOK
    BY DEF ServerInv, LockInv, GrantInv, RolesTyped, TypeOK
  <1>4. Monitor!MonitoringTypeOK
    <2>1. Entry = [name : Stat, kind : Monitor!Kind, value : [DOMAIN Monitor!Zero -> Nat]]
      BY ZeroFigures DEF Entry, Figures
    <2> QED BY <2>1 DEF ServerInv, MonitorInv, Monitor!MonitoringTypeOK
  <1>5. Procs!ProceduresTypeOK
    BY DEF ServerInv, ProcInv
  <1> QED BY <1>1, <1>2, <1>3, <1>4, <1>5 DEF ServerTypeOK

\* The state of each service is of its type, in whatever order its calls come.
THEOREM ServerTypes ==
    MCSpec => []ServerTypeOK
  <1>1. MCInit => ServerInv
    BY InitServerInv
  <1>2. ServerInv /\ [MCNext]_<<subject, cacheVars, poolVars, networkVars, securityVars,
                                errorVars, registerVars>> => ServerInv'
    BY NextKeepsServer
  <1>3. ServerInv => ServerTypeOK
    BY ServerInvTypes
  <1> QED BY <1>1, <1>2, <1>3, PTL DEF MCSpec

\* The cache accounts for what it holds and serves what was stored last, through
\* evictions and through sets that fail midway (memory_cache.c:76-133, 135-272).
THEOREM CacheIsSound ==
    MCSpec => []CacheSound
  <1>1. MCInit => ServerInv
    BY InitServerInv
  <1>2. ServerInv /\ [MCNext]_<<subject, cacheVars, poolVars, networkVars, securityVars,
                                errorVars, registerVars>> => ServerInv'
    BY NextKeepsServer
  <1>3. ServerInv => CacheSound
    BY ServerAssumption, CacheInvSound DEF ServerInv, ServerAssumption
  <1> QED BY <1>1, <1>2, <1>3, PTL DEF MCSpec

\* What a set evicts was used no more often than anything it keeps, whatever the
\* sizes (memory_cache.c:76-133).
THEOREM EvictionIsFair ==
    MCSpec => EvictsLeastUsed
  <1> USE ServerAssumption DEF ServerAssumption
  <1> DEFINE W == <<subject, cacheVars, poolVars, networkVars, securityVars, errorVars,
                    registerVars>>
             Q == \A k \in Key, v \in Value : Cache!Set(k, v) =>
                     LET kept == Cache!ToSet([i \in DOMAIN items' |-> items'[i].key])
                     IN  \A i, j \in DOMAIN items :
                            /\ items[i].key \notin kept
                            /\ items[j].key \in kept \ {k}
                            => items[i].hits <= items[j].hits
  <1>1. MCInit => ServerInv
    BY InitServerInv
  <1>2. ServerInv /\ [MCNext]_W => ServerInv'
    BY NextKeepsServer
  <1>3. ServerInv => Q
    <2> SUFFICES ASSUME ServerInv, NEW k \in Key, NEW v \in Value, Cache!Set(k, v)
                 PROVE  EvictsWell(k)
      BY DEF EvictsWell
    <2> QED BY SetWell DEF ServerInv
  <1>4. ServerInv /\ [MCNext]_W => [Q]_(Cache!vars)
    BY <1>3
  <1>5. EvictsLeastUsed <=> [][Q]_(Cache!vars)
    BY DEF EvictsLeastUsed, Cache!EvictsLeastUsed
  <1> HIDE DEF Q
  <1> QED BY <1>1, <1>2, <1>4, <1>5, PTL DEF MCSpec

\* Statistics sum up what was measured since they were registered or reset, and as
\* long as every procedure and trigger is created with all its parts no pointer is
\* used that is not the object's own, and searches find what is there
\* (monitoring.c:131-275, 387-411; procedure.c:40-239).
THEOREM RegistersAreSound ==
    MCSpec => []RegistersSound
  <1>1. MCInit => ServerInv
    BY InitServerInv
  <1>2. ServerInv /\ [MCNext]_<<subject, cacheVars, poolVars, networkVars, securityVars,
                                errorVars, registerVars>> => ServerInv'
    BY NextKeepsServer
  <1>3. ServerInv => RegistersSound
    BY ServerAssumption, MonitorInvExact, ProcInvOwned, ProcInvSearches
    DEF ServerInv, ServerAssumption, RegistersSound
  <1> QED BY <1>1, <1>2, <1>3, PTL DEF MCSpec
==============================================================================
