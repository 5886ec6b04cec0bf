----------------------- MODULE TransactionManagerProofs -----------------------
(****************************************************************************)
(* Proofs about TransactionManager, for every limit and every set of        *)
(* callers: the admission counter is exact, and what holds of the links     *)
(* that a transaction's list and the manager's list share.                  *)
(****************************************************************************)
EXTENDS TransactionManager, SequenceLemmas

TxRecord == [state : TxState, start : Int,
             isolation : Isolation \cup {"REPEATABLE_READ"}]

\* No handler produces PREPARED or FAILED, so a rollback always ends a
\* transaction that was counted.
CountInv ==
    /\ txs \in Seq(TxRecord)
    /\ \A i \in Tx : txs[i].state \in {"ACTIVE", "COMMITTED", "ROLLED_BACK"}
    /\ now \in Int
    /\ active = Cardinality(Active)
    /\ active <= MaxTransactions

\* The transactions are finitely many.
LEMMA TxFinite ==
    ASSUME CountInv
    PROVE  /\ Tx = 1..Len(txs) /\ Len(txs) \in Nat
           /\ IsFiniteSet(Tx) /\ IsFiniteSet(Active) /\ Cardinality(Active) \in Nat
  <1>1. Tx = 1..Len(txs) /\ Len(txs) \in Nat
    BY DEF CountInv, Tx
  <1>2. IsFiniteSet(Tx)
    BY <1>1, FS_Interval
  <1>3. IsFiniteSet(Active)
    BY <1>2, FS_Subset DEF Active
  <1>4. QED
    BY <1>1, <1>2, <1>3, FS_CardinalityType

\* Taking a part away from a finite set.
LEMMA CardinalityOfDifference ==
    ASSUME NEW A, IsFiniteSet(A), NEW S \in SUBSET A
    PROVE  /\ IsFiniteSet(A \ S)
           /\ Cardinality(A \ S) = Cardinality(A) - Cardinality(S)
           /\ Cardinality(A \ S) <= Cardinality(A)
  <1>1. IsFiniteSet(S) /\ IsFiniteSet(A \ S)
    BY FS_Subset
  <1>2. S \cup (A \ S) = A /\ S \cap (A \ S) = {}
    OBVIOUS
  <1>3. Cardinality(A) = Cardinality(S) + Cardinality(A \ S) - 0
    BY <1>1, <1>2, FS_Union, FS_EmptySet
  <1>4. /\ Cardinality(S) \in Nat /\ Cardinality(A \ S) \in Nat
        /\ Cardinality(A) \in Nat
    BY <1>1, FS_CardinalityType
  <1>5. QED
    BY <1>1, <1>3, <1>4

\* Whoever ends a set of active transactions lowers the counter by their number.
LEMMA EndKeepsCount ==
    ASSUME CountInv, NEW S \in SUBSET Active,
           NEW outcome \in {"COMMITTED", "ROLLED_BACK"}, End(S, outcome)
    PROVE  CountInv'
  <1>1. Tx = 1..Len(txs) /\ Len(txs) \in Nat /\ IsFiniteSet(Active)
        /\ Cardinality(Active) \in Nat
    BY TxFinite
  <1>2. \A i \in Tx : txs[i] \in TxRecord
    BY DEF CountInv, Tx
  <1> DEFINE r(i) == IF i \in S THEN [txs[i] EXCEPT !.state = outcome] ELSE txs[i]
  <1>3. txs' = [i \in Tx |-> r(i)]
    BY DEF End
  <1>4. \A i \in Tx : r(i) \in TxRecord
    BY <1>2 DEF TxRecord, TxState
  <1>5. \A i \in Tx : r(i).state = IF i \in S THEN outcome ELSE txs[i].state
    BY <1>2 DEF TxRecord
  <1> HIDE DEF r
  <1>6. txs' \in Seq(TxRecord) /\ DOMAIN txs' = Tx
    <2>1. txs' \in [1..Len(txs) -> TxRecord]
      BY <1>1, <1>3, <1>4
    <2>2. QED
      BY <1>1, <1>3, <2>1
  <1>7. \A i \in Tx : txs'[i].state = IF i \in S THEN outcome ELSE txs[i].state
    BY <1>3, <1>5
  <1>8. Active' = Active \ S
    <2>1. \A i \in Tx : txs'[i].state = "ACTIVE" <=> txs[i].state = "ACTIVE" /\ i \notin S
      BY <1>7
    <2>2. Tx' = Tx
      BY <1>6 DEF Tx
    <2>3. QED
      BY <2>1, <2>2 DEF Active
  <1>9. Cardinality(Active') = Cardinality(Active) - Cardinality(S)
        /\ Cardinality(Active') <= Cardinality(Active)
    BY <1>1, <1>8, CardinalityOfDifference
  <1>10. IsFiniteSet(Active') /\ Cardinality(Active') \in Nat
    BY <1>1, <1>8, CardinalityOfDifference, FS_CardinalityType
  <1>11. active' = Cardinality(Active') /\ active' <= MaxTransactions
    BY <1>1, <1>9, <1>10, TransactionAssumption DEF CountInv, End
  <1>12. \A i \in Tx' : txs'[i].state \in {"ACTIVE", "COMMITTED", "ROLLED_BACK"}
    BY <1>6, <1>7 DEF CountInv, Tx
  <1>13. QED
    BY <1>6, <1>11, <1>12 DEF CountInv, End

\* Beginning a transaction raises the counter by one.
LEMMA BeginKeepsCount ==
    ASSUME CountInv, NEW level \in Isolation, Begin(level)
    PROVE  CountInv'
  <1> DEFINE t == [state |-> "ACTIVE", start |-> now,
                   isolation |-> IF level = "READ_UNCOMMITTED"
                                   THEN "REPEATABLE_READ" ELSE level]
             n == Len(txs) + 1
  <1>1. Tx = 1..Len(txs) /\ Len(txs) \in Nat /\ IsFiniteSet(Active)
        /\ Cardinality(Active) \in Nat
    BY TxFinite
  <1>2. t \in TxRecord /\ t.state = "ACTIVE"
    BY DEF CountInv, TxRecord, TxState
  <1>3. txs' = Append(txs, t) /\ txs \in Seq(TxRecord)
    BY DEF Begin, CountInv
  <1> HIDE DEF t
  <1>4. /\ txs' \in Seq(TxRecord)
        /\ DOMAIN txs' = 1..n
        /\ txs'[n] = t
        /\ \A i \in 1..Len(txs) : txs'[i] = txs[i]
    BY <1>2, <1>3
  <1>5. Tx' = Tx \cup {n} /\ n \notin Tx
    BY <1>1, <1>4 DEF Tx
  <1>6. Active' = Active \cup {n} /\ n \notin Active
    BY <1>1, <1>2, <1>4, <1>5 DEF Active
  <1>7. Cardinality(Active') = Cardinality(Active) + 1
    BY <1>1, <1>6, FS_AddElement
  <1>8. \A i \in Tx' : txs'[i].state \in {"ACTIVE", "COMMITTED", "ROLLED_BACK"}
    BY <1>1, <1>2, <1>4, <1>5 DEF CountInv
  <1>9. active' = Cardinality(Active') /\ active' <= MaxTransactions
    BY <1>1, <1>7, TransactionAssumption DEF Begin, CountInv
  <1>10. QED
    BY <1>4, <1>8, <1>9 DEF CountInv, Begin

\* A step that leaves the transactions and the counter alone.
LEMMA OtherKeepsCount ==
    ASSUME CountInv, UNCHANGED <<txs, active>>, now' \in Int
    PROVE  CountInv'
  BY DEF CountInv, Active, Tx

\* A rollback ends an active transaction or dies on its locks.
LEMMA RollbackKeepsCount ==
    ASSUME CountInv, NEW i \in Tx, Rollback(i)
    PROVE  CountInv'
  <1>1. i \in Active
    BY DEF Rollback, CountInv, Active
  <1>2. CASE txLocks[i] = 0
    BY <1>1, <1>2, EndKeepsCount DEF Rollback
  <1>3. CASE txLocks[i] # 0
    BY <1>3, OtherKeepsCount DEF Rollback, Die, CountInv
  <1>4. QED
    BY <1>2, <1>3

\* Every step keeps the count.
LEMMA NextKeepsCount == CountInv /\ [Next]_vars => CountInv'
  <1> SUFFICES ASSUME CountInv, [Next]_vars PROVE CountInv'
    OBVIOUS
  <1>0. now \in Int
    BY DEF CountInv
  <1>1. ASSUME NEW level \in Isolation, Begin(level) PROVE CountInv'
    BY <1>1, BeginKeepsCount
  <1>2. ASSUME NEW i \in Tx, Commit(i) PROVE CountInv'
    <2>1. i \in Active
      BY <1>2 DEF Commit, Active
    <2>2. CASE txLocks[i] = 0
      BY <1>2, <2>1, <2>2, EndKeepsCount DEF Commit
    <2>3. CASE txLocks[i] # 0
      BY <1>0, <1>2, <2>3, OtherKeepsCount DEF Commit, Die
    <2>4. QED
      BY <2>2, <2>3
  <1>3. ASSUME NEW i \in Tx, Rollback(i) PROVE CountInv'
    BY <1>3, RollbackKeepsCount
  <1>4. ASSUME NEW i \in Tx, NEW which \in LogKind, Log(i, which) PROVE CountInv'
    BY <1>0, <1>4, OtherKeepsCount DEF Log
  <1>5. ASSUME NEW i \in Tx, NEW r \in Resource, NEW type \in Requested, Lock(i, r, type)
        PROVE  CountInv'
    BY <1>0, <1>5, OtherKeepsCount DEF Lock, Die
  <1>6. ASSUME NEW i \in Tx, NEW r \in Resource, Unlock(i, r) PROVE CountInv'
    <2>1. ASSUME NEW how, Die(how) PROVE UNCHANGED <<txs, active, now>>
      BY <2>1 DEF Die
    <2>2. ASSUME NEW n, NEW p, NEW own, UnlockOther(n, p, own)
          PROVE  UNCHANGED <<txs, active, now>>
      BY <2>1, <2>2 DEF UnlockOther
    <2>3. UNCHANGED <<txs, active, now>>
      BY <1>6, <2>1, <2>2 DEF Unlock, UnlockOwn
    <2>4. QED
      BY <1>0, <2>3, OtherKeepsCount
  <1>7. CASE HandleDeadlock
    <2>1. PICK i \in Active : Rollback(i)
      BY <1>7 DEF HandleDeadlock
    <2>2. i \in Tx
      BY DEF Active
    <2>3. QED
      BY <2>1, <2>2, RollbackKeepsCount
  <1>8. CASE CleanupTimeout
    <2>1. TimedOut \in SUBSET Active
      BY DEF TimedOut
    <2>2. CASE End(TimedOut, "ROLLED_BACK")
      BY <2>1, <2>2, EndKeepsCount
    <2>3. CASE UNCHANGED <<txs, active, logs, heapVars, now>>
      BY <1>0, <2>3, OtherKeepsCount
    <2>4. QED
      BY <1>8, <2>2, <2>3 DEF CleanupTimeout, Die
  <1>9. CASE Destroy
    BY <1>0, <1>9, OtherKeepsCount DEF Destroy, Die
  <1>10. CASE Tick
    BY <1>0, <1>10, OtherKeepsCount DEF Tick
  <1>11. CASE UNCHANGED vars
    BY <1>0, <1>11, OtherKeepsCount DEF vars
  <1>12. QED
    BY <1>1, <1>2, <1>3, <1>4, <1>5, <1>6, <1>7, <1>8, <1>9, <1>10, <1>11 DEF Next

\* The admission counter is the number of active transactions in every
\* reachable state, and stays within the limit.
THEOREM CountExact == Spec => []ActiveCountExact
  <1>1. Init => CountInv
    <2> SUFFICES ASSUME Init PROVE CountInv
      OBVIOUS
    <2>1. txs \in Seq(TxRecord) /\ Tx = {} /\ Active = {}
      BY DEF Init, Tx, Active
    <2>2. QED
      BY <2>1, FS_EmptySet, TransactionAssumption DEF Init, CountInv
  <1>2. CountInv => ActiveCountExact
    BY DEF CountInv, ActiveCountExact
  <1>3. QED
    BY <1>1, <1>2, NextKeepsCount, PTL DEF Spec

-----------------------------------------------------------------------------
\* Which transactions an end changes, and how.
LEMMA EndStates ==
    ASSUME CountInv, NEW S \in SUBSET Active, NEW outcome, End(S, outcome), NEW i \in Tx
    PROVE  txs'[i].state = IF i \in S THEN outcome ELSE txs[i].state
  <1>1. txs[i] \in TxRecord
    BY DEF CountInv, Tx
  <1>2. txs'[i] = IF i \in S THEN [txs[i] EXCEPT !.state = outcome] ELSE txs[i]
    BY DEF End
  <1>3. [txs[i] EXCEPT !.state = outcome].state = outcome
    BY <1>1 DEF TxRecord
  <1>4. QED
    BY <1>2, <1>3

\* A transaction that handle_deadlock or cleanup_timeout rolls back is never
\* younger than one that the same call leaves active, in every step: the victim
\* has the least start time, and the timed out are those that began before a
\* moment.
THEOREM OldestFirst == Spec => RollsBackOldestFirst
  <1> DEFINE A == \A i, j \in Tx :
                    /\ txs[i].state = "ACTIVE" /\ txs'[i].state = "ROLLED_BACK"
                    /\ txs'[j].state = "ACTIVE"
                    /\ HandleDeadlock \/ CleanupTimeout
                    => txs[i].start <= txs[j].start
  <1>1. ASSUME CountInv PROVE A
    <2> SUFFICES ASSUME NEW i \in Tx, NEW j \in Tx,
                        txs[i].state = "ACTIVE", txs'[i].state = "ROLLED_BACK",
                        txs'[j].state = "ACTIVE", HandleDeadlock \/ CleanupTimeout
                 PROVE  txs[i].start <= txs[j].start
      OBVIOUS
    <2>1. txs[i].start \in Int /\ txs[j].start \in Int /\ now \in Int
      <3>1. txs[i] \in TxRecord /\ txs[j] \in TxRecord /\ now \in Int
        BY <1>1 DEF CountInv, Tx
      <3>2. QED
        BY <3>1 DEF TxRecord
    <2>2. ASSUME NEW S \in SUBSET Active, End(S, "ROLLED_BACK")
          PROVE  i \in S /\ j \in Active /\ j \notin S
      <3>1. /\ txs'[i].state = IF i \in S THEN "ROLLED_BACK" ELSE txs[i].state
            /\ txs'[j].state = IF j \in S THEN "ROLLED_BACK" ELSE txs[j].state
        BY <1>1, <2>2, EndStates
      <3>2. i \in S /\ j \notin S
        BY <3>1
      <3>3. txs[j].state = "ACTIVE"
        BY <3>1, <3>2
      <3>4. QED
        BY <3>2, <3>3 DEF Active
    <2>3. ~ \E how : Die(how)
      BY DEF Die
    <2>4. CASE HandleDeadlock
      <3>1. PICK v \in Active : Oldest(v) /\ Rollback(v)
        BY <2>4 DEF HandleDeadlock
      <3>2. End({v}, "ROLLED_BACK")
        BY <2>3, <3>1 DEF Rollback
      <3>3. i = v /\ j \in Active
        BY <2>2, <3>2
      <3>4. QED
        BY <2>1, <3>1, <3>3 DEF Oldest
    <2>5. CASE CleanupTimeout
      <3>1. End(TimedOut, "ROLLED_BACK")
        BY <2>3, <2>5 DEF CleanupTimeout
      <3>2. TimedOut \in SUBSET Active
        BY DEF TimedOut
      <3>3. i \in TimedOut /\ j \in Active /\ j \notin TimedOut
        BY <2>2, <3>1, <3>2
      <3>4. now - txs[i].start > Timeout /\ ~(now - txs[j].start > Timeout)
        BY <3>3 DEF TimedOut
      <3>5. QED
        BY <2>1, <3>4, TransactionAssumption
    <2>6. QED
      BY <2>4, <2>5
  <1>2. CountInv => [A]_vars
    BY <1>1
  <1>3. Init => CountInv
    <2> SUFFICES ASSUME Init PROVE CountInv
      OBVIOUS
    <2>1. txs \in Seq(TxRecord) /\ Tx = {} /\ Active = {}
      BY DEF Init, Tx, Active
    <2>2. QED
      BY <2>1, FS_EmptySet, TransactionAssumption DEF Init, CountInv
  <1>4. QED
    BY <1>2, <1>3, NextKeepsCount, PTL DEF Spec, RollsBackOldestFirst

-----------------------------------------------------------------------------
(* The lists.                                                               *)

\* N nodes are allocated, and a link leads to a node allocated later; only the
\* last one may be linked to itself.
Links(nx, N) ==
    /\ N \in 0..MaxLocks /\ nx \in [1..N -> 0..N]
    /\ \A k \in 1..N : nx[k] = 0 \/ k < nx[k] \/ (k = N /\ nx[k] = N)

\* A walk that starts at h goes from node to node, up to an end or the node that
\* is linked to itself.
IsWalk(w, nx, N, h) ==
    /\ w \in [0..MaxLocks -> 0..N] /\ w[0] = h
    /\ \A j \in 1..MaxLocks : w[j] = IF w[j - 1] = 0 THEN 0 ELSE nx[w[j - 1]]

\* The nodes of a list: h, and every other after the one that is linked to it.
IsChain(C, nx, N, h) ==
    /\ C \subseteq 1..N
    /\ h # 0 => h \in C
    /\ h = 0 => C = {}
    /\ \A x \in C : nx[x] # 0 => nx[x] \in C
    /\ \A x \in C : x # h => \E y \in C : y < x /\ nx[y] = x

\* The recursion of Walk has its values.
LEMMA WalkSteps ==
    ASSUME NEW N, NEW nx, Links(nx, N), NEW h \in 0..N
    PROVE  IsWalk(Walk(nx, h), nx, N, h)
  <1> DEFINE D == 0..N
             step == [j \in 1..MaxLocks |-> [d \in D |-> IF d = 0 THEN 0 ELSE nx[d]]]
  <1>1. MaxLocks \in Nat /\ N \in Nat /\ nx \in [1..N -> 0..N]
    BY TransactionAssumption DEF Links
  <1>2. IsStep(step, MaxLocks, D)
    <2>1. \A d \in D : (IF d = 0 THEN 0 ELSE nx[d]) \in D
      BY <1>1
    <2> QED BY <2>1 DEF IsStep
  <1>3. PICK f : IsFold(f, h, step, MaxLocks, D)
    <2>1. h \in D
      OBVIOUS
    <2> HIDE DEF step, D
    <2> QED BY <1>1, <1>2, <2>1, Recursion
  <1>4. /\ f \in [0..MaxLocks -> D] /\ f[0] = h
        /\ \A j \in 1..MaxLocks : f[j] = IF f[j - 1] = 0 THEN 0 ELSE nx[f[j - 1]]
    <2>1. f \in [0..MaxLocks -> D] /\ f[0] = h /\ \A j \in 1..MaxLocks : f[j] = step[j][f[j - 1]]
      <3> HIDE DEF step, D
      <3> QED BY <1>3 DEF IsFold
    <2>2. \A j \in 1..MaxLocks : j - 1 \in 0..MaxLocks
      BY <1>1
    <2>3. \A j \in 1..MaxLocks, d \in D : step[j][d] = IF d = 0 THEN 0 ELSE nx[d]
      OBVIOUS
    <2> HIDE DEF step, D
    <2> QED BY <2>1, <2>2, <2>3
  <1> HIDE DEF step
  <1> DEFINE w == CHOOSE w : w = [j \in 0..MaxLocks |->
                    IF j = 0 THEN h ELSE IF w[j - 1] = 0 THEN 0 ELSE nx[w[j - 1]]]
  <1>5. f = [j \in 0..MaxLocks |->
               IF j = 0 THEN h ELSE IF f[j - 1] = 0 THEN 0 ELSE nx[f[j - 1]]]
    BY <1>1, <1>4
  <1>6. w = [j \in 0..MaxLocks |->
               IF j = 0 THEN h ELSE IF w[j - 1] = 0 THEN 0 ELSE nx[w[j - 1]]]
    BY <1>5
  <1>7. Walk(nx, h) = w
    BY DEF Walk
  <1> HIDE DEF w
  <1> DEFINE T == {m \in 0..MaxLocks : w[m] = f[m]}
  <1>8. 0 \in T
    BY <1>1, <1>4, <1>6
  <1>9. ASSUME NEW m \in 0..MaxLocks, m \in T, m # MaxLocks
        PROVE  m + 1 \in T
    <2>1. m + 1 \in 1..MaxLocks /\ (m + 1) - 1 = m /\ w[m] = f[m]
      BY <1>1, <1>9
    <2>2. f[m + 1] = IF f[m] = 0 THEN 0 ELSE nx[f[m]]
      BY <1>4, <2>1
    <2>3. w[m + 1] = IF w[m] = 0 THEN 0 ELSE nx[w[m]]
      BY <1>6, <2>1
    <2> QED BY <2>1, <2>2, <2>3
  <1>10. \A m \in 0..MaxLocks : m \in T
    <2> HIDE DEF T
    <2> QED BY <1>1, <1>8, <1>9, UpTo
  <1>11. w = f
    <2>1. w = [j \in 0..MaxLocks |-> w[j]]
      BY <1>6
    <2>2. \A j \in 0..MaxLocks : w[j] = f[j]
      BY <1>10
    <2> QED BY <1>4, <2>1, <2>2
  <1> QED BY <1>4, <1>7, <1>11 DEF IsWalk

\* A walk has moved on at every step, if it has not ended or come to the loop.
LEMMA WalkMoves ==
    ASSUME NEW N, NEW nx, Links(nx, N), NEW h \in 0..N, NEW w, IsWalk(w, nx, N, h)
    PROVE  \A j \in 0..MaxLocks : w[j] = 0 \/ j < w[j] \/ (w[j] = N /\ nx[N] = N)
  <1> DEFINE T == {j \in 0..MaxLocks : w[j] = 0 \/ j < w[j] \/ (w[j] = N /\ nx[N] = N)}
  <1>1. MaxLocks \in Nat /\ N \in Nat /\ N <= MaxLocks /\ nx \in [1..N -> 0..N]
    BY TransactionAssumption DEF Links
  <1>2. 0 \in T
    BY <1>1 DEF IsWalk
  <1>3. ASSUME NEW m \in 0..MaxLocks, m \in T, m # MaxLocks
        PROVE  m + 1 \in T
    <2>1. m + 1 \in 1..MaxLocks /\ (m + 1) - 1 = m
      BY <1>1, <1>3
    <2>2. w[m + 1] = IF w[m] = 0 THEN 0 ELSE nx[w[m]]
      BY <2>1 DEF IsWalk
    <2>3. w[m] \in 0..N /\ (w[m] = 0 \/ m < w[m] \/ (w[m] = N /\ nx[N] = N))
      BY <1>3 DEF IsWalk
    <2>4. CASE w[m] = 0
      BY <2>1, <2>2, <2>4
    <2>5. CASE w[m] # 0
      <3>1. w[m] \in 1..N /\ w[m + 1] = nx[w[m]]
        BY <1>1, <2>2, <2>3, <2>5
      <3>2. nx[w[m]] = 0 \/ w[m] < nx[w[m]] \/ (w[m] = N /\ nx[w[m]] = N)
        BY <3>1 DEF Links
      <3>3. nx[w[m]] \in 0..N
        BY <1>1, <3>1
      <3> DEFINE x == w[m]
                 y == w[m + 1]
      <3>4. x \in 1..N /\ y \in 0..N /\ (y = 0 \/ x < y \/ (x = N /\ y = N)) /\ y = nx[x]
            /\ (m < x \/ (x = N /\ nx[N] = N))
        BY <2>3, <2>5, <3>1, <3>2, <3>3
      <3> HIDE DEF x, y
      <3>5. y = 0 \/ m + 1 < y \/ (y = N /\ nx[N] = N)
        BY <1>1, <3>4
      <3> QED BY <2>1, <3>5 DEF y
    <2> QED BY <2>4, <2>5
  <1>4. \A m \in 0..MaxLocks : m \in T
    <2> HIDE DEF T
    <2> QED BY <1>1, <1>2, <1>3, UpTo
  <1> QED BY <1>4

\* What is on a list is a chain.
LEMMA OnIsChain ==
    ASSUME NEW N, NEW nx, Links(nx, N), NEW h \in 0..N
    PROVE  IsChain(On(nx, h), nx, N, h)
  <1> DEFINE w == Walk(nx, h)
             C == On(nx, h)
  <1>1. MaxLocks \in Nat /\ N \in Nat /\ N <= MaxLocks /\ nx \in [1..N -> 0..N]
    BY TransactionAssumption DEF Links
  <1>2. IsWalk(w, nx, N, h)
    BY WalkSteps
  <1>3. C = {w[j] : j \in 0..MaxLocks} \ {0}
    BY DEF On
  <1>4. \A j \in 0..MaxLocks : w[j] = 0 \/ j < w[j] \/ (w[j] = N /\ nx[N] = N)
    BY <1>2, WalkMoves
  <1> HIDE DEF w, C
  <1>5. w \in [0..MaxLocks -> 0..N] /\ w[0] = h
        /\ \A j \in 1..MaxLocks : w[j] = IF w[j - 1] = 0 THEN 0 ELSE nx[w[j - 1]]
    BY <1>2 DEF IsWalk
  <1>6. C \subseteq 1..N
    BY <1>1, <1>3, <1>5
  <1>7. h # 0 => h \in C
    BY <1>1, <1>3, <1>5
  <1>8. ASSUME h = 0 PROVE C = {}
    <2> DEFINE T == {j \in 0..MaxLocks : w[j] = 0}
    <2>1. 0 \in T
      BY <1>1, <1>5, <1>8
    <2>2. ASSUME NEW m \in 0..MaxLocks, m \in T, m # MaxLocks
          PROVE  m + 1 \in T
      <3>1. m + 1 \in 1..MaxLocks /\ (m + 1) - 1 = m
        BY <1>1, <2>2
      <3>2. w[m + 1] = IF w[m] = 0 THEN 0 ELSE nx[w[m]]
        BY <1>5, <3>1
      <3> QED BY <2>2, <3>1, <3>2
    <2>3. \A m \in 0..MaxLocks : m \in T
      <3> HIDE DEF T
      <3> QED BY <1>1, <2>1, <2>2, UpTo
    <2> QED BY <1>3, <2>3
  <1>9. ASSUME NEW x \in C, nx[x] # 0 PROVE nx[x] \in C
    <2>1. PICK j \in 0..MaxLocks : w[j] = x
      BY <1>3
    <2>2. x \in 1..N
      BY <1>6
    <2>3. CASE j # MaxLocks
      <3>1. j + 1 \in 1..MaxLocks /\ j + 1 \in 0..MaxLocks /\ (j + 1) - 1 = j
        BY <1>1, <2>3
      <3>2. w[j + 1] = nx[x]
        BY <1>5, <2>1, <2>2, <3>1
      <3> QED BY <1>3, <1>9, <3>1, <3>2
    <2>4. CASE j = MaxLocks
      <3>1. ~(j < x)
        BY <1>1, <2>2, <2>4
      <3>2. x = N /\ nx[N] = N
        BY <1>4, <2>1, <2>2, <3>1
      <3> QED BY <3>2
    <2> QED BY <2>3, <2>4
  <1>10. ASSUME NEW x \in C, x # h PROVE \E y \in C : y < x /\ nx[y] = x
    <2> DEFINE J == {j \in 0..MaxLocks : w[j] = x}
    <2>1. J \in SUBSET Nat /\ J # {}
      BY <1>3
    <2>2. PICK j \in J : \A l \in J : j <= l
      <3> HIDE DEF J
      <3> QED BY <2>1, LeastNumber
    <2>3. x \in 1..N
      BY <1>6
    <2>4. j \in 1..MaxLocks /\ j - 1 \in 0..MaxLocks /\ w[j] = x
      <3>1. j # 0 /\ j \in 0..MaxLocks /\ w[j] = x
        BY <1>5, <1>10, <2>2
      <3> QED BY <1>1, <3>1
    <2> DEFINE y == w[j - 1]
    <2>5. y # 0 /\ nx[y] = x /\ y \in C
      BY <1>3, <1>5, <2>3, <2>4
    <2>6. y # x
      <3>1. j - 1 \notin J
        BY <2>2, <2>4
      <3> QED BY <2>4, <3>1
    <2>7. y \in 1..N
      BY <1>6, <2>5
    <2> HIDE DEF y
    <2>8. nx[y] = 0 \/ y < nx[y] \/ (y = N /\ nx[y] = N)
      BY <2>7 DEF Links
    <2>9. y < x
      BY <1>1, <2>3, <2>5, <2>6, <2>7, <2>8
    <2> QED BY <2>5, <2>9
  <1> QED BY <1>6, <1>7, <1>8, <1>9, <1>10 DEF IsChain, C

\* There is one chain from a node.
LEMMA ChainIsOn ==
    ASSUME NEW N, NEW nx, Links(nx, N), NEW h \in 0..N, NEW C, IsChain(C, nx, N, h)
    PROVE  On(nx, h) = C
  <1> DEFINE A == On(nx, h)
  <1>1. IsChain(A, nx, N, h)
    BY OnIsChain
  <1> HIDE DEF A
  <1>2. ASSUME NEW P, NEW Q, IsChain(P, nx, N, h), IsChain(Q, nx, N, h)
        PROVE  P \subseteq Q
    <2> SUFFICES ASSUME P \ Q # {} PROVE FALSE
      OBVIOUS
    <2>1. P \ Q \in SUBSET Nat
      BY <1>2 DEF IsChain
    <2>2. PICK x \in P \ Q : \A y \in P \ Q : x <= y
      BY <2>1, LeastNumber
    <2>3. x # h /\ h # 0
      BY <1>2 DEF IsChain
    <2>4. PICK y \in P : y < x /\ nx[y] = x
      BY <1>2, <2>3 DEF IsChain
    <2>5. x \in 1..N /\ y \in 1..N
      BY <1>2 DEF IsChain
    <2>6. y \in Q
      BY <2>2, <2>4, <2>5
    <2> QED BY <1>2, <2>4, <2>5, <2>6 DEF IsChain
  <1> QED BY <1>1, <1>2 DEF A

\* A list that starts on another is a part of it.
LEMMA OnWithin ==
    ASSUME NEW N, NEW nx, Links(nx, N), NEW h \in 0..N, NEW g \in 0..N, g \in On(nx, h)
    PROVE  On(nx, g) \subseteq On(nx, h)
  <1> DEFINE P == On(nx, g)
             Q == On(nx, h)
  <1>1. IsChain(P, nx, N, g) /\ IsChain(Q, nx, N, h)
    BY OnIsChain
  <1>2. g \in Q
    OBVIOUS
  <1> HIDE DEF P, Q
  <1> SUFFICES ASSUME P \ Q # {} PROVE FALSE
    BY DEF P, Q
  <1>3. P \ Q \in SUBSET Nat
    BY <1>1 DEF IsChain
  <1>4. PICK x \in P \ Q : \A y \in P \ Q : x <= y
    BY <1>3, LeastNumber
  <1>5. x # g
    BY <1>2
  <1>6. PICK y \in P : y < x /\ nx[y] = x
    BY <1>1, <1>5 DEF IsChain
  <1>7. x \in 1..N /\ y \in 1..N
    BY <1>1 DEF IsChain
  <1>8. y \in Q
    BY <1>4, <1>6, <1>7
  <1> QED BY <1>1, <1>6, <1>7, <1>8 DEF IsChain

\* No link passes over a node of the list.
LEMMA ChainInOrder ==
    ASSUME NEW N, NEW nx, Links(nx, N), NEW h \in 0..N, NEW C, IsChain(C, nx, N, h)
    PROVE  \A x, y \in C : x < y => nx[x] # 0 /\ nx[x] <= y
  <1> DEFINE Bad == {y \in C : \E x \in C : x < y /\ ~(nx[x] # 0 /\ nx[x] <= y)}
  <1> SUFFICES ASSUME Bad # {} PROVE FALSE
    OBVIOUS
  <1>1. C \subseteq 1..N /\ N \in Nat /\ nx \in [1..N -> 0..N]
    BY DEF IsChain, Links
  <1>2. Bad \in SUBSET Nat
    <2>1. Bad \subseteq C
      OBVIOUS
    <2> HIDE DEF Bad
    <2> QED BY <1>1, <2>1
  <1>3. PICK y \in Bad : \A z \in Bad : y <= z
    <2> HIDE DEF Bad
    <2> QED BY <1>2, LeastNumber
  <1>4. PICK x \in C : x < y /\ ~(nx[x] # 0 /\ nx[x] <= y)
    OBVIOUS
  <1>5. y \in C /\ \A z \in C : z < y => z \notin Bad
    BY <1>1, <1>3
  <1> HIDE DEF Bad
  <1>6. \A z \in C : h <= z
    <2> DEFINE U == {z \in C : z < h}
    <2> SUFFICES ASSUME U # {} PROVE FALSE
      BY <1>1
    <2>1. U \in SUBSET Nat
      <3>1. U \subseteq C
        OBVIOUS
      <3> HIDE DEF U
      <3> QED BY <1>1, <3>1
    <2>2. PICK z \in U : \A u \in U : z <= u
      <3> HIDE DEF U
      <3> QED BY <2>1, LeastNumber
    <2>3. z \in C /\ z # h /\ z < h
      BY <1>1
    <2>4. PICK u \in C : u < z
      BY <2>3 DEF IsChain
    <2>5. u \in U /\ ~(z <= u)
      BY <1>1, <2>3, <2>4
    <2> QED BY <2>2, <2>5
  <1>7. y # h
    BY <1>1, <1>4, <1>6
  <1>8. PICK u \in C : u < y /\ nx[u] = y
    BY <1>5, <1>7 DEF IsChain
  <1>9. u \in 1..N /\ x \in 1..N /\ y \in 1..N
    BY <1>1, <1>5
  <1>10. CASE u = x
    BY <1>4, <1>8, <1>9, <1>10
  <1>11. CASE x < u
    <2>1. nx[x] # 0 /\ nx[x] <= u
      BY <1>5, <1>8, <1>11 DEF Bad
    <2> QED BY <1>1, <1>4, <1>8, <1>9, <2>1
  <1>12. CASE u < x
    <2>1. nx[u] <= x
      BY <1>4, <1>5, <1>12 DEF Bad
    <2> QED BY <1>4, <1>8, <1>9, <2>1
  <1> QED BY <1>9, <1>10, <1>11, <1>12

\* A list without an end is one that comes to the node linked to itself.
LEMMA CyclicLoops ==
    ASSUME NEW N, NEW nx, Links(nx, N), NEW h \in 0..N
    PROVE  Cyclic(nx, h) <=> N \in On(nx, h) /\ nx[N] = N
  <1> DEFINE w == Walk(nx, h)
             C == On(nx, h)
  <1>1. MaxLocks \in Nat /\ N \in Nat /\ N <= MaxLocks /\ nx \in [1..N -> 0..N]
    BY TransactionAssumption DEF Links
  <1>2. IsWalk(w, nx, N, h)
    BY WalkSteps
  <1>3. C = {w[j] : j \in 0..MaxLocks} \ {0} /\ (Cyclic(nx, h) <=> w[MaxLocks] # 0)
    BY DEF On, Cyclic
  <1>4. \A j \in 0..MaxLocks : w[j] = 0 \/ j < w[j] \/ (w[j] = N /\ nx[N] = N)
    BY <1>2, WalkMoves
  <1> HIDE DEF w, C
  <1>5. w \in [0..MaxLocks -> 0..N] /\ MaxLocks \in 0..MaxLocks
        /\ \A j \in 1..MaxLocks : w[j] = IF w[j - 1] = 0 THEN 0 ELSE nx[w[j - 1]]
    BY <1>1, <1>2 DEF IsWalk
  <1>6. w[MaxLocks] # 0 => w[MaxLocks] = N /\ nx[N] = N
    <2>1. w[MaxLocks] \in 0..N
      BY <1>5
    <2>2. ~(MaxLocks < w[MaxLocks])
      BY <1>1, <2>1
    <2> QED BY <1>4, <1>5, <2>2
  <1>7. ASSUME N \in C, nx[N] = N PROVE w[MaxLocks] # 0
    <2>1. PICK j \in 0..MaxLocks : w[j] = N /\ N # 0
      BY <1>3, <1>7
    <2> DEFINE T == {m \in 0..MaxLocks : j <= m => w[m] = N}
    <2>2. 0 \in T
      BY <1>1, <2>1
    <2>3. ASSUME NEW m \in 0..MaxLocks, m \in T, m # MaxLocks
          PROVE  m + 1 \in T
      <3>1. m + 1 \in 1..MaxLocks /\ m + 1 \in 0..MaxLocks /\ (m + 1) - 1 = m
        BY <1>1, <2>3
      <3>2. w[m + 1] = IF w[m] = 0 THEN 0 ELSE nx[w[m]]
        BY <1>5, <3>1
      <3>3. CASE j <= m
        BY <1>7, <2>1, <2>3, <3>1, <3>2, <3>3
      <3>4. CASE j = m + 1
        BY <2>1, <3>1, <3>4
      <3>5. CASE j > m + 1
        BY <3>1, <3>5
      <3> QED BY <2>1, <2>3, <3>3, <3>4, <3>5
    <2>4. \A m \in 0..MaxLocks : m \in T
      <3> HIDE DEF T
      <3> QED BY <1>1, <2>2, <2>3, UpTo
    <2>5. w[MaxLocks] = N
      BY <1>1, <1>5, <2>1, <2>4
    <2> QED BY <2>1, <2>5
  <1>8. w[MaxLocks] # 0 => w[MaxLocks] \in C
    BY <1>3, <1>5
  <1> QED BY <1>3, <1>6, <1>7, <1>8 DEF C

\* A list that is not empty and has no loop has one end.
LEMMA LastIsEnd ==
    ASSUME NEW N, NEW nx, Links(nx, N), N # 0 => nx[N] # N, NEW h \in 1..N
    PROVE  /\ LastNode(nx, h) \in On(nx, h) /\ nx[LastNode(nx, h)] = 0
           /\ \A z \in On(nx, h) : nx[z] = 0 => z = LastNode(nx, h)
  <1> DEFINE C == On(nx, h)
  <1>0. h \in 0..N
    BY DEF Links
  <1>1. IsChain(C, nx, N, h)
    BY <1>0, OnIsChain
  <1>2. N \in Nat /\ nx \in [1..N -> 0..N] /\ C \subseteq 1..N /\ h \in C
    BY <1>1 DEF Links, IsChain
  <1>3. \A x, y \in C : x < y => nx[x] # 0
    <2> HIDE DEF C
    <2> QED BY <1>0, <1>1, ChainInOrder
  <1> HIDE DEF C
  <1>4. \E z \in C : nx[z] = 0
    <2> DEFINE U == {N - z : z \in C}
    <2>1. U \in SUBSET Nat /\ U # {}
      BY <1>2
    <2>2. PICK u \in U : \A v \in U : u <= v
      <3> HIDE DEF U
      <3> QED BY <2>1, LeastNumber
    <2>3. PICK z \in C : u = N - z
      OBVIOUS
    <2>4. z \in 1..N /\ nx[z] \in 0..N
      BY <1>2
    <2>5. ASSUME nx[z] # 0 PROVE FALSE
      <3>1. nx[z] \in C
        BY <1>1, <2>5 DEF IsChain
      <3>2. z < nx[z]
        BY <1>2, <2>4, <2>5 DEF Links
      <3>3. N - nx[z] \in U
        BY <3>1
      <3>4. N - z <= N - nx[z]
        BY <2>2, <2>3, <3>3
      <3> QED BY <1>2, <2>4, <3>2, <3>4
    <2> QED BY <2>5
  <1>5. LastNode(nx, h) \in C /\ nx[LastNode(nx, h)] = 0
    BY <1>4 DEF LastNode, C
  <1>6. ASSUME NEW x \in C, NEW y \in C, nx[x] = 0, nx[y] = 0 PROVE x = y
    BY <1>2, <1>3, <1>6
  <1> QED BY <1>5, <1>6 DEF C

\* What is read on the way to the first of some nodes is on the list, all of the
\* list if none of them is.
LEMMA SeenOnList ==
    ASSUME NEW N, NEW nx, Links(nx, N), NEW h \in 0..N, NEW hits, 0 \notin hits
    PROVE  /\ Seen(nx, h, hits) \subseteq On(nx, h)
           /\ h # 0 => h \in Seen(nx, h, hits)
           /\ Seen(nx, h, hits) \cap hits = {} => Seen(nx, h, hits) = On(nx, h)
  <1> DEFINE w == Walk(nx, h)
             J == {m \in 0..MaxLocks : \A l \in 0..(m - 1) : w[l] \notin hits}
  <1>1. MaxLocks \in Nat
    BY TransactionAssumption
  <1>2. IsWalk(w, nx, N, h)
    BY WalkSteps
  <1>3. On(nx, h) = {w[j] : j \in 0..MaxLocks} \ {0} /\ Seen(nx, h, hits) = {w[j] : j \in J} \ {0}
    BY DEF On, Seen
  <1>4. J \subseteq 0..MaxLocks
    OBVIOUS
  <1>5. 0 \in J /\ w[0] = h
    BY <1>1, <1>2 DEF IsWalk
  <1>6. ASSUME Seen(nx, h, hits) \cap hits = {} PROVE J = 0..MaxLocks
    <2> DEFINE B == {j \in 0..MaxLocks : w[j] \in hits}
    <2>1. CASE B = {}
      <3>1. ASSUME NEW m \in 0..MaxLocks, NEW l \in 0..(m - 1)
            PROVE  w[l] \notin hits
        <4>1. l \in 0..MaxLocks
          BY <1>1
        <4> QED BY <2>1, <4>1
      <3> QED BY <3>1
    <2>2. CASE B # {}
      <3>1. B \in SUBSET Nat
        BY <1>1
      <3>2. PICK j \in B : \A l \in B : j <= l
        <4> HIDE DEF B
        <4> QED BY <2>2, <3>1, LeastNumber
      <3>3. ASSUME NEW l \in 0..(j - 1) PROVE w[l] \notin hits
        <4>1. l \in 0..MaxLocks /\ ~(j <= l)
          BY <1>1
        <4> QED BY <3>2, <4>1
      <3>4. j \in J /\ w[j] \in hits
        BY <3>3
      <3>5. w[j] # 0
        BY <3>4
      <3>6. w[j] \in Seen(nx, h, hits)
        BY <1>3, <3>4, <3>5
      <3> QED BY <1>6, <3>4, <3>6
    <2> QED BY <2>1, <2>2
  <1> HIDE DEF w, J
  <1>7. Seen(nx, h, hits) \subseteq On(nx, h)
    BY <1>3, <1>4
  <1>8. h # 0 => h \in Seen(nx, h, hits)
    BY <1>3, <1>5
  <1> QED BY <1>3, <1>6, <1>7, <1>8

\* A node that is allocated is on no list yet.
LEMMA FreshLinks ==
    ASSUME NEW N, NEW nx, Links(nx, N), N < MaxLocks, N # 0 => nx[N] # N
    PROVE  /\ Links(Append(nx, 0), N + 1) /\ Append(nx, 0)[N + 1] = 0
           /\ \A k \in 1..N : Append(nx, 0)[k] = nx[k]
           /\ \A h \in 0..N : On(Append(nx, 0), h) = On(nx, h)
  <1> DEFINE f == Append(nx, 0)
  <1>1. N \in Nat /\ MaxLocks \in Nat /\ nx \in [1..N -> 0..N]
    BY TransactionAssumption DEF Links
  <1>2. /\ f \in [1..(N + 1) -> 0..N] /\ f[N + 1] = 0
        /\ \A k \in 1..N : f[k] = nx[k]
    <2>1. nx \in Seq(0..N) /\ Len(nx) = N /\ 0 \in 0..N
      BY <1>1
    <2>2. f \in Seq(0..N) /\ Len(f) = N + 1 /\ f[N + 1] = 0 /\ \A k \in 1..N : f[k] = nx[k]
      <3>1. \A T : \A q \in Seq(T), e \in T :
               /\ Append(q, e) \in Seq(T) /\ Len(Append(q, e)) = Len(q) + 1
               /\ Append(q, e)[Len(q) + 1] = e
               /\ \A k \in 1..Len(q) : Append(q, e)[k] = q[k]
        OBVIOUS
      <3> QED BY <2>1, <3>1
    <2> HIDE DEF f
    <2> QED BY <1>1, <2>2
  <1> HIDE DEF f
  <1>3. Links(f, N + 1)
    <2>1. f \in [1..(N + 1) -> 0..(N + 1)]
      BY <1>1, <1>2
    <2>2. ASSUME NEW k \in 1..(N + 1)
          PROVE  f[k] = 0 \/ k < f[k]
      <3>1. CASE k = N + 1
        BY <1>2, <3>1
      <3>2. CASE k # N + 1
        <4>1. k \in 1..N /\ f[k] = nx[k]
          BY <1>1, <1>2, <3>2
        <4>2. nx[k] = 0 \/ k < nx[k] \/ (k = N /\ nx[N] = N)
          BY <4>1 DEF Links
        <4> QED BY <1>1, <4>1, <4>2
      <3> QED BY <3>1, <3>2
    <2> QED BY <1>1, <2>1, <2>2 DEF Links
  <1>4. ASSUME NEW h \in 0..N
        PROVE  On(f, h) = On(nx, h)
    <2> DEFINE C == On(nx, h)
    <2>1. IsChain(C, nx, N, h)
      BY OnIsChain
    <2> HIDE DEF C
    <2>2. IsChain(C, f, N + 1, h)
      BY <1>1, <1>2, <2>1 DEF IsChain
    <2>3. h \in 0..(N + 1)
      BY <1>1
    <2> QED BY <1>3, <2>2, <2>3, ChainIsOn DEF C
  <1> QED BY <1>2, <1>3, <1>4 DEF f

\* The new node M is linked to the end z of a list.
LEMMA LinkEnd ==
    ASSUME NEW M, NEW f, Links(f, M), NEW h \in 1..M, f[M] = 0, M \notin On(f, h),
           NEW z \in On(f, h), f[z] = 0
    PROVE  /\ Links([f EXCEPT ![z] = M], M) /\ [f EXCEPT ![z] = M][M] = 0
           /\ On([f EXCEPT ![z] = M], h) = On(f, h) \cup {M}
  <1> DEFINE g == [f EXCEPT ![z] = M]
             C == On(f, h)
  <1>1. M \in Nat /\ f \in [1..M -> 0..M] /\ h \in 0..M /\ h # 0 /\ M \in 1..M
    BY DEF Links
  <1>2. IsChain(C, f, M, h)
    BY <1>1, OnIsChain
  <1>3. z \in C /\ M \notin C
    OBVIOUS
  <1> HIDE DEF C
  <1>4. z \in 1..M /\ z # M /\ C \subseteq 1..M
    BY <1>2, <1>3 DEF IsChain
  <1>5. g \in [1..M -> 0..M] /\ g[z] = M /\ \A k \in 1..M : k # z => g[k] = f[k]
    BY <1>1, <1>4
  <1> HIDE DEF g
  <1>6. Links(g, M)
    BY <1>1, <1>4, <1>5 DEF Links
  <1>7. IsChain(C \cup {M}, g, M, h)
    <2>1. C \cup {M} \subseteq 1..M /\ h \in C \cup {M}
      BY <1>1, <1>2 DEF IsChain
    <2>2. ASSUME NEW x \in C \cup {M}, g[x] # 0 PROVE g[x] \in C \cup {M}
      <3>1. CASE x = z
        BY <1>5, <3>1
      <3>2. CASE x # z
        <4>1. x \in 1..M /\ g[x] = f[x]
          BY <1>5, <2>1, <3>2
        <4>2. x \in C
          BY <2>2, <4>1
        <4> QED BY <1>2, <2>2, <4>1, <4>2 DEF IsChain
      <3> QED BY <3>1, <3>2
    <2>3. ASSUME NEW x \in C \cup {M}, x # h PROVE \E y \in C \cup {M} : y < x /\ g[y] = x
      <3>1. CASE x = M
        BY <1>1, <1>3, <1>4, <1>5, <3>1
      <3>2. CASE x # M
        <4>1. PICK y \in C : y < x /\ f[y] = x
          BY <1>2, <2>3, <3>2 DEF IsChain
        <4>2. y # z /\ y \in 1..M
          <5>1. x \in 1..M
            BY <2>1
          <5> QED BY <1>4, <4>1, <5>1
        <4> QED BY <1>5, <4>1, <4>2
      <3> QED BY <3>1, <3>2
    <2> QED BY <1>1, <2>1, <2>2, <2>3 DEF IsChain
  <1>8. On(g, h) = C \cup {M}
    BY <1>1, <1>6, <1>7, ChainIsOn
  <1> QED BY <1>1, <1>4, <1>5, <1>6, <1>8 DEF g, C

\* The new node is linked to itself.
LEMMA LinkItself ==
    ASSUME NEW M, NEW f, Links(f, M), NEW h \in 1..M, f[M] = 0, M \in On(f, h)
    PROVE  /\ Links([f EXCEPT ![M] = M], M) /\ [f EXCEPT ![M] = M][M] = M
           /\ On([f EXCEPT ![M] = M], h) = On(f, h)
  <1> DEFINE g == [f EXCEPT ![M] = M]
             C == On(f, h)
  <1>1. M \in Nat /\ f \in [1..M -> 0..M] /\ h \in 0..M /\ h # 0 /\ M \in 1..M
    BY DEF Links
  <1>2. IsChain(C, f, M, h) /\ M \in C
    BY <1>1, OnIsChain
  <1> HIDE DEF C
  <1>3. g \in [1..M -> 0..M] /\ g[M] = M /\ \A k \in 1..M : k # M => g[k] = f[k]
    BY <1>1
  <1> HIDE DEF g
  <1>4. Links(g, M)
    BY <1>1, <1>3 DEF Links
  <1>5. IsChain(C, g, M, h)
    <2>1. C \subseteq 1..M /\ h \in C
      BY <1>1, <1>2 DEF IsChain
    <2>2. ASSUME NEW x \in C, g[x] # 0 PROVE g[x] \in C
      <3>1. CASE x = M
        BY <1>2, <1>3, <3>1
      <3>2. CASE x # M
        <4>1. x \in 1..M /\ g[x] = f[x]
          BY <1>3, <2>1, <3>2
        <4> QED BY <1>2, <2>2, <4>1 DEF IsChain
      <3> QED BY <3>1, <3>2
    <2>3. ASSUME NEW x \in C, x # h PROVE \E y \in C : y < x /\ g[y] = x
      <3>1. PICK y \in C : y < x /\ f[y] = x
        BY <1>2, <2>3 DEF IsChain
      <3>2. y # M /\ y \in 1..M
        BY <1>1, <2>1, <3>1
      <3> QED BY <1>3, <3>1, <3>2
    <2> QED BY <1>1, <2>1, <2>2, <2>3 DEF IsChain
  <1>6. On(g, h) = C
    BY <1>1, <1>4, <1>5, ChainIsOn
  <1> QED BY <1>3, <1>4, <1>6 DEF g, C

\* Node n, found after node p of the list that starts at h, is unlinked.
Unlinked(cut, nx, N, h, n, p) ==
    /\ Links(nx, N) /\ h \in 1..N
    /\ n \in On(nx, h) /\ p \in On(nx, h) /\ p # n /\ nx[p] = n
    /\ cut = [nx EXCEPT ![p] = nx[n]]

\* A node that is unlinked leaves the list, but for the one linked to itself.
LEMMA CutLinks ==
    ASSUME NEW N, NEW nx, NEW h, NEW n, NEW p, NEW cut, Unlinked(cut, nx, N, h, n, p)
    PROVE  /\ Links(cut, N) /\ n \in 1..N /\ p \in 1..N /\ p < n /\ h # n
           /\ cut[N] = nx[N] /\ \A k \in 1..N : k # p => cut[k] = nx[k]
           /\ On(cut, h) = IF nx[n] = n THEN On(nx, h) ELSE On(nx, h) \ {n}
           /\ nx[n] = n => n = N
  <1> DEFINE C == On(nx, h)
             D == IF nx[n] = n THEN C ELSE C \ {n}
  <1>. /\ Links(nx, N) /\ h \in 1..N /\ n \in On(nx, h) /\ p \in On(nx, h) /\ p # n
       /\ nx[p] = n /\ cut = [nx EXCEPT ![p] = nx[n]]
    BY DEF Unlinked
  <1>1. N \in Nat /\ nx \in [1..N -> 0..N] /\ h \in 0..N /\ h # 0
    BY DEF Links
  <1>2. IsChain(C, nx, N, h) /\ n \in C /\ p \in C
    BY <1>1, OnIsChain
  <1> HIDE DEF C
  <1>3. C \subseteq 1..N /\ n \in 1..N /\ p \in 1..N /\ h \in C
    BY <1>1, <1>2 DEF IsChain
  <1>4. p < n /\ (nx[n] = 0 \/ n < nx[n] \/ (n = N /\ nx[N] = N))
    <2>1. \A k \in 1..N : nx[k] = 0 \/ k < nx[k] \/ (k = N /\ nx[k] = N)
      BY DEF Links
    <2>2. n # 0 /\ p # n /\ nx[p] = n
      BY <1>1, <1>3
    <2>3. p < n
      BY <1>1, <1>3, <2>1, <2>2
    <2> QED BY <1>3, <2>1, <2>3
  <1>5. \A x, y \in C : x < y => nx[x] # 0 /\ nx[x] <= y
    BY <1>1, <1>2, ChainInOrder
  <1>6. cut \in [1..N -> 0..N] /\ cut[p] = nx[n] /\ \A k \in 1..N : k # p => cut[k] = nx[k]
    BY <1>1, <1>3
  <1>7. p # N
    BY <1>1, <1>3, <1>4
  <1>8. Links(cut, N)
    <2>1. ASSUME NEW k \in 1..N
          PROVE  cut[k] = 0 \/ k < cut[k] \/ (k = N /\ cut[k] = N)
      <3>1. CASE k = p
        <4>1. nx[n] \in 0..N
          BY <1>1, <1>3
        <4> QED BY <1>1, <1>3, <1>4, <1>6, <3>1, <4>1
      <3>2. CASE k # p
        BY <1>6, <3>2 DEF Links
      <3> QED BY <3>1, <3>2
    <2> QED BY <1>6, <2>1 DEF Links
  <1>9. ASSUME NEW x \in C, x < n, nx[x] = n PROVE x = p
    <2>1. x \in 1..N
      BY <1>3
    <2>2. CASE x < p
      BY <1>2, <1>3, <1>4, <1>5, <1>9, <2>1, <2>2
    <2>3. CASE p < x
      BY <1>2, <1>3, <1>4, <1>5, <1>9, <2>1, <2>3
    <2> QED BY <1>3, <2>1, <2>2, <2>3
  <1>10. h # n
    <2> SUFFICES ASSUME h = n PROVE FALSE
      OBVIOUS
    <2> DEFINE U == {z \in C : z < h}
    <2>1. U \in SUBSET Nat /\ U # {}
      <3>1. U \subseteq C /\ p \in U
        BY <1>2, <1>4
      <3> HIDE DEF U
      <3> QED BY <1>3, <3>1
    <2>2. PICK z \in U : \A u \in U : z <= u
      <3> HIDE DEF U
      <3> QED BY <2>1, LeastNumber
    <2>3. z \in C /\ z # h /\ z < h /\ z \in 1..N
      BY <1>1, <1>3
    <2>4. PICK u \in C : u < z
      BY <1>2, <2>3 DEF IsChain
    <2>5. u \in 1..N
      BY <1>3
    <2>6. u \in U /\ ~(z <= u)
      BY <1>1, <2>3, <2>4, <2>5
    <2> QED BY <2>2, <2>6
  <1>11. IsChain(D, cut, N, h)
    <2>1. D \subseteq C /\ h \in D
      BY <1>3, <1>10
    <2>2. ASSUME NEW x \in D, cut[x] # 0 PROVE cut[x] \in D
      <3>1. x \in C /\ x \in 1..N
        BY <1>3, <2>1
      <3>2. CASE x = p
        <4>1. nx[n] \in C
          BY <1>2, <1>6, <2>2, <3>2 DEF IsChain
        <4> QED BY <1>6, <3>2, <4>1
      <3>3. CASE x # p
        <4>1. cut[x] = nx[x] /\ nx[x] \in C
          BY <1>2, <1>6, <2>2, <3>1, <3>3 DEF IsChain
        <4>2. CASE nx[n] = n
          BY <4>1, <4>2
        <4>3. CASE nx[n] # n
          <5>1. nx[x] # n
            <6> SUFFICES ASSUME nx[x] = n PROVE FALSE
              OBVIOUS
            <6>1. x # n
              BY <4>3
            <6>2. x < n
              BY <1>1, <1>3, <3>1, <6>1 DEF Links
            <6> QED BY <1>9, <3>1, <3>3, <6>2
          <5> QED BY <4>1, <4>3, <5>1
        <4> QED BY <4>2, <4>3
      <3> QED BY <3>2, <3>3
    <2>3. ASSUME NEW x \in D, x # h PROVE \E y \in D : y < x /\ cut[y] = x
      <3>1. PICK y \in C : y < x /\ nx[y] = x
        BY <1>2, <2>1, <2>3 DEF IsChain
      <3>2. x \in C /\ x \in 1..N /\ y \in 1..N
        BY <1>3, <2>1
      <3>3. CASE nx[n] = n
        <4>1. CASE y # p
          BY <1>6, <3>1, <3>2, <3>3, <4>1
        <4>2. CASE y = p
          BY <1>3, <1>4, <1>6, <3>1, <3>2, <3>3, <4>2
        <4> QED BY <4>1, <4>2
      <3>4. CASE nx[n] # n
        <4>1. x # n
          BY <3>4
        <4>2. CASE y = n
          <5>1. p \in D /\ p < x /\ cut[p] = x
            BY <1>2, <1>3, <1>4, <1>6, <3>1, <3>2, <3>4, <4>2
          <5> QED BY <5>1
        <4>3. CASE y # n
          <5>1. y # p
            BY <3>1, <4>1
          <5> QED BY <1>6, <3>1, <3>2, <3>4, <4>3, <5>1
        <4> QED BY <4>2, <4>3
      <3> QED BY <3>3, <3>4
    <2> QED BY <1>1, <1>3, <2>1, <2>2, <2>3 DEF IsChain
  <1>12. On(cut, h) = D
    <2> HIDE DEF D
    <2> QED BY <1>1, <1>8, <1>11, ChainIsOn
  <1>13. cut[N] = nx[N] /\ (nx[n] = n => n = N)
    <2>1. N \in 1..N
      BY <1>1, <1>3
    <2> QED BY <1>3, <1>4, <1>6, <1>7, <2>1
  <1> QED BY <1>3, <1>4, <1>6, <1>8, <1>10, <1>12, <1>13 DEF C

-----------------------------------------------------------------------------
(* The invariant of the locks.                                              *)

\* A second lock of one transaction was linked to itself.
Looped == Len(node) # 0 /\ next[Len(node)] = Len(node)

\* A transaction's list starts with the first node allocated for it, and it got a
\* second one only as the last of all.
Owned ==
    /\ \A i \in Tx : txLocks[i] # 0 => txLocks[i] \in Node /\ node[txLocks[i]].tx = i
    /\ \A n \in Node : node[n].tx \in Tx /\ txLocks[node[n].tx] # 0 /\ txLocks[node[n].tx] <= n
    /\ \A m, n \in Node : m < n /\ node[m].tx = node[n].tx => n = Len(node) /\ Looped
    /\ Looped => \E m \in Node : m # Len(node) /\ node[m].tx = node[Len(node)].tx

\* The manager's list has the nodes that were not freed, and the one that is
\* linked to itself.
Listed ==
    /\ Links(next, Len(node))
    /\ head = IF Len(node) = 0 THEN 0 ELSE 1
    /\ 1 \notin freed
    /\ On(next, head) = (Node \ freed) \cup IF Looped THEN {Len(node)} ELSE {}

LockInv == CountInv /\ TypeOK /\ Owned /\ Listed /\ ListedLocksCompatible

\* A transaction with a lock, and the types of what the lists are made of.
LEMMA LockTypes ==
    ASSUME LockInv
    PROVE  /\ MaxLocks \in Nat /\ MaxBegins \in Nat /\ MaxTime \in Nat
           /\ node \in Seq(Grant) /\ Len(node) \in Nat /\ Len(node) <= MaxLocks
           /\ Node = 1..Len(node) /\ \A n \in Node : node[n] \in Grant
           /\ Tx = 1..Len(txs) /\ Tx \subseteq 1..MaxBegins
           /\ head \in 0..Len(node) /\ \A i \in Tx : txLocks[i] \in 0..Len(node)
           /\ next \in [Node -> 0..Len(node)] /\ freed \subseteq Node
  <1>1. MaxLocks \in Nat /\ MaxBegins \in Nat /\ MaxTime \in Nat
    BY TransactionAssumption
  <1>2. node \in Seq(Grant) /\ Len(node) \in Nat /\ Len(node) <= MaxLocks /\ Node = 1..Len(node)
    BY DEF LockInv, TypeOK, Listed, Links, Node
  <1>3. \A n \in Node : node[n] \in Grant
    BY <1>2
  <1>4. Tx = 1..Len(txs) /\ Tx \subseteq 1..MaxBegins
    BY <1>1 DEF LockInv, TypeOK, Tx
  <1>5. head \in 0..Len(node)
    BY <1>2 DEF LockInv, Listed
  <1>6. \A i \in Tx : txLocks[i] \in 0..Len(node)
    BY <1>2 DEF LockInv, Owned
  <1>7. next \in [Node -> 0..Len(node)] /\ freed \subseteq Node
    BY <1>2 DEF LockInv, Listed, Links, TypeOK
  <1> QED BY <1>1, <1>2, <1>3, <1>4, <1>5, <1>6, <1>7

\* The links after a lock: the new node is at the end of the manager's list, and
\* linked to itself if it is the second of its transaction.
LEMMA LinkedExtends ==
    ASSUME LockInv, NEW i \in Tx, ~Cyclic(next, head), txLocks[i] \notin freed,
           Len(node) < MaxLocks
    PROVE  /\ ~Looped
           /\ Links(Linked(i, Len(node) + 1), Len(node) + 1)
           /\ On(Linked(i, Len(node) + 1), 1) = On(next, head) \cup {Len(node) + 1}
           /\ Linked(i, Len(node) + 1)[Len(node) + 1] =
                IF txLocks[i] = 0 THEN 0 ELSE Len(node) + 1
  <1> DEFINE N == Len(node)
             M == N + 1
             f == Append(next, 0)
             t == txLocks[i]
             own == IF t = 0 THEN f ELSE [f EXCEPT ![LastNode(f, t)] = M]
             lk == Linked(i, M)
  <1>1. /\ N \in Nat /\ MaxLocks \in Nat /\ N < MaxLocks /\ t \in 0..N /\ Links(next, N)
        /\ head = IF N = 0 THEN 0 ELSE 1
        /\ Node = 1..N /\ freed \subseteq Node
    BY LockTypes DEF LockInv, Listed
  <1>2. ~Looped
    <2>1. N \in On(next, head) => next[N] # N
      BY <1>1, CyclicLoops
    <2> QED BY <2>1 DEF LockInv, Listed, Looped
  <1>3. N # 0 => next[N] # N
    BY <1>2 DEF Looped
  <1>4. /\ Links(f, M) /\ f[M] = 0 /\ \A k \in 1..N : f[k] = next[k]
        /\ \A h \in 0..N : On(f, h) = On(next, h)
    BY <1>1, <1>3, FreshLinks
  <1>5. lk = IF head = 0 THEN own ELSE [own EXCEPT ![LastNode(own, head)] = M]
    BY DEF Linked
  <1>6. On(next, head) = Node \ freed
    BY <1>2 DEF LockInv, Listed
  <1>7. CASE N = 0
    <2>1. head = 0 /\ t = 0 /\ M = 1 /\ lk = f
      BY <1>1, <1>5, <1>7
    <2>2. IsChain({1}, f, M, 1)
      BY <1>4, <2>1 DEF IsChain
    <2>3. On(f, 1) = {1}
      <3> HIDE DEF f, M
      <3> QED BY <1>4, <2>1, <2>2, ChainIsOn
    <2>4. On(next, head) = {}
      BY <1>1, <1>6, <1>7
    <2> QED BY <1>2, <1>4, <2>1, <2>3, <2>4
  <1>8. CASE N # 0
    <2>1. head = 1 /\ 1 \in 1..M /\ 1 \in 0..N /\ M \in 1..M /\ M # 0
      BY <1>1, <1>8
    <2> DEFINE C == On(next, 1)
    <2>2. On(f, 1) = C /\ C \subseteq 1..N /\ M \notin C
      BY <1>1, <1>4, <1>6, <2>1
    <2>3. f[M] # M
      BY <1>4, <2>1
    <2>4. CASE t = 0
      <3> DEFINE z == LastNode(f, 1)
      <3>1. z \in C /\ f[z] = 0
        <4> HIDE DEF f, M
        <4> QED BY <1>4, <2>1, <2>2, <2>3, LastIsEnd
      <3>2. lk = [f EXCEPT ![z] = M]
        BY <1>5, <2>1, <2>4
      <3> HIDE DEF z, f, M, C, lk
      <3>3. Links(lk, M) /\ lk[M] = 0 /\ On(lk, 1) = C \cup {M}
        <4>1. z \in On(f, 1) /\ M \notin On(f, 1) /\ f[z] = 0 /\ Links(f, M) /\ f[M] = 0
          BY <1>4, <2>2, <3>1
        <4>2. /\ Links([f EXCEPT ![z] = M], M) /\ [f EXCEPT ![z] = M][M] = 0
              /\ On([f EXCEPT ![z] = M], 1) = On(f, 1) \cup {M}
          BY <2>1, <4>1, LinkEnd
        <4> QED BY <2>2, <3>2, <4>2
      <3> QED BY <1>2, <2>1, <2>4, <3>3 DEF lk, M, C
    <2>5. CASE t # 0
      <3> DEFINE z == LastNode(f, t)
      <3>1. t \in C /\ t \in 1..N /\ t \in 0..M /\ t \in 1..M
        BY <1>1, <1>6, <2>1, <2>5
      <3>2. z \in On(f, t) /\ f[z] = 0
        <4> HIDE DEF f, M, t
        <4> QED BY <1>4, <2>1, <2>3, <3>1, LastIsEnd
      <3>3. On(f, t) \subseteq On(f, 1)
        <4>1. 1 \in 0..M
          BY <2>1
        <4> HIDE DEF f, M, t, C
        <4> QED BY <1>4, <2>2, <3>1, <4>1, OnWithin
      <3>4. own = [f EXCEPT ![z] = M]
        BY <2>5
      <3> HIDE DEF f, M, t, C, z, own
      <3>5. Links(own, M) /\ own[M] = 0 /\ On(own, 1) = C \cup {M}
        <4>1. z \in On(f, 1) /\ M \notin On(f, 1) /\ f[z] = 0 /\ Links(f, M) /\ f[M] = 0
          BY <1>4, <2>2, <3>2, <3>3
        <4>2. /\ Links([f EXCEPT ![z] = M], M) /\ [f EXCEPT ![z] = M][M] = 0
              /\ On([f EXCEPT ![z] = M], 1) = On(f, 1) \cup {M}
          BY <2>1, <4>1, LinkEnd
        <4> QED BY <2>2, <3>4, <4>2
      <3>6. LastNode(own, 1) = M
        BY <2>1, <3>5, LastIsEnd
      <3>7. lk = [own EXCEPT ![M] = M]
        <4>1. lk = [own EXCEPT ![LastNode(own, 1)] = M]
          <5> HIDE DEF lk
          <5> QED BY <1>5, <2>1
        <4> QED BY <3>6, <4>1
      <3>8. Links(lk, M) /\ lk[M] = M /\ On(lk, 1) = C \cup {M}
        <4> HIDE DEF lk
        <4>1. M \in On(own, 1) /\ Links(own, M) /\ own[M] = 0
          BY <3>5
        <4>2. /\ Links([own EXCEPT ![M] = M], M) /\ [own EXCEPT ![M] = M][M] = M
              /\ On([own EXCEPT ![M] = M], 1) = On(own, 1)
          BY <2>1, <4>1, LinkItself
        <4> QED BY <3>5, <3>7, <4>2
      <3> QED BY <1>2, <2>1, <2>5, <3>8 DEF lk, M, C, t
    <2> QED BY <2>4, <2>5
  <1> QED BY <1>7, <1>8

\* Locks that are compatible with every lock of others on the list may be added.
LEMMA NoRivalOnList ==
    ASSUME LockInv, NEW i \in Tx, NEW r, NEW type,
           Seen(next, head, Rivals(i, r, type)) \cap Rivals(i, r, type) = {}
    PROVE  \A n \in On(next, head) :
              node[n].res = r /\ node[n].tx # i => ~Conflicts(type, node[n].type)
  <1>1. 0 \notin Rivals(i, r, type)
    BY LockTypes DEF Rivals
  <1>2. Links(next, Len(node)) /\ head \in 0..Len(node)
    BY LockTypes DEF LockInv, Listed
  <1>3. On(next, head) \cap Rivals(i, r, type) = {}
    BY <1>1, <1>2, SeenOnList
  <1>4. On(next, head) \subseteq Node
    BY <1>2, OnIsChain, LockTypes DEF IsChain
  <1> QED BY <1>3, <1>4 DEF Rivals

\* A lock that is granted goes to the end of both lists.
LEMMA LockGrants ==
    ASSUME LockInv, CountInv', NEW i \in Tx, NEW r \in Resource, NEW type \in Requested,
           Seen(next, head, Rivals(i, r, type)) \cap Rivals(i, r, type) = {},
           ~Cyclic(next, head), txLocks[i] \notin freed, Len(node) < MaxLocks,
           node' = Append(node, [tx |-> i, res |-> r, type |-> type]),
           next' = Linked(i, Len(node) + 1),
           txLocks' = [txLocks EXCEPT ![i] = IF @ = 0 THEN Len(node) + 1 ELSE @],
           head' = IF head = 0 THEN Len(node) + 1 ELSE head,
           granted' = granted \cup {[tx |-> i, res |-> r, type |-> type]},
           UNCHANGED <<txs, active, logs, freed, now, proc>>
    PROVE  LockInv'
  <1> DEFINE N == Len(node)
             M == N + 1
             g == [tx |-> i, res |-> r, type |-> type]
             t == txLocks[i]
             lk == Linked(i, M)
  <1>1. /\ N \in Nat /\ M \in Nat /\ N < MaxLocks /\ MaxLocks \in Nat /\ MaxBegins \in Nat
        /\ Node = 1..N /\ \A n \in Node : node[n] \in Grant
        /\ t \in 0..N /\ freed \subseteq Node /\ node \in Seq(Grant)
        /\ Tx \subseteq 1..MaxBegins /\ next \in [Node -> 0..N]
    BY LockTypes
  <1>2. g \in Grant /\ g.tx = i /\ g.res = r /\ g.type = type
    <2>1. type \in LockType
      BY TransactionAssumption DEF LockType
    <2> QED BY <1>1, <2>1 DEF Grant
  <1>3. /\ ~Looped /\ Links(lk, M) /\ On(lk, 1) = On(next, head) \cup {M}
        /\ lk[M] = IF t = 0 THEN 0 ELSE M
    BY LinkedExtends
  <1>4. node' = Append(node, g) /\ next' = lk
    OBVIOUS
  <1>5. /\ txLocks' = [txLocks EXCEPT ![i] = IF @ = 0 THEN M ELSE @]
        /\ head' = IF head = 0 THEN M ELSE head
        /\ granted' = granted \cup {g}
    OBVIOUS
  <1>6. txLocks \in [Tx -> 0..N] /\ Tx' = Tx
    BY DEF LockInv, TypeOK, Tx
  <1> HIDE DEF g, lk
  <1>7. /\ node' \in Seq(Grant) /\ Len(node') = M /\ node'[M] = g
        /\ \A n \in 1..N : node'[n] = node[n]
    BY <1>1, <1>2, <1>4
  <1>8. Node' = 1..M /\ Node' = Node \cup {M} /\ M \notin Node
    <2>1. Node' = 1..Len(node')
      BY DEF Node
    <2>2. 1..M = (1..N) \cup {M} /\ M \notin 1..N
      BY <1>1
    <2> QED BY <1>1, <1>7, <2>1, <2>2
  <1>9. head' = 1
    BY <1>1, <1>5 DEF LockInv, Listed
  <1> DEFINE o == IF t = 0 THEN M ELSE t
  <1>10. /\ o \in 1..M /\ txLocks'[i] = o /\ \A j \in Tx : j # i => txLocks'[j] = txLocks[j]
         /\ txLocks' \in [Tx -> 0..M]
    BY <1>1, <1>5, <1>6
  <1>11. \A j \in Tx : txLocks[j] # 0 => txLocks[j] \in Node /\ node[txLocks[j]].tx = j
    BY DEF LockInv, Owned
  <1>12. \A n \in Node : node[n].tx \in Tx /\ txLocks[node[n].tx] # 0 /\ txLocks[node[n].tx] <= n
    BY DEF LockInv, Owned
  <1>13. \A m, n \in Node : ~(m < n /\ node[m].tx = node[n].tx)
    BY <1>3 DEF LockInv, Owned
  <1>14. Looped' <=> t # 0
    <2>1. Looped' <=> Len(node') # 0 /\ next'[Len(node')] = Len(node')
      BY DEF Looped
    <2> QED BY <1>1, <1>3, <1>4, <1>7, <2>1
  <1>15. CountInv' /\ active' \in Nat
    <2>1. CountInv' /\ active \in Nat /\ active' = active
      BY DEF LockInv, TypeOK
    <2> QED BY <2>1
  <1>16. TypeOK'
    <2>1. next' \in [Node' -> 0..M]
      BY <1>1, <1>3, <1>4, <1>8 DEF Links
    <2>2. head' \in 0..M /\ freed' \subseteq Node' /\ granted' \subseteq Grant
      BY <1>1, <1>2, <1>5, <1>8, <1>9 DEF LockInv, TypeOK
    <2>3. txs' \in Seq([state : TxState, start : 0..MaxTime,
                        isolation : Isolation \cup {"REPEATABLE_READ"}])
          /\ Len(txs') <= MaxBegins
      BY DEF LockInv, TypeOK
    <2>4. logs' \in [Tx' -> SUBSET {"undo", "redo"}] /\ now' \in 0..MaxTime
      BY <1>6 DEF LockInv, TypeOK
    <2>5. proc' \in {"ok", "aborted", "hung", "undefined", "destroyed"}
      BY DEF LockInv, TypeOK
    <2> QED BY <1>1, <1>6, <1>7, <1>10, <1>15, <2>1, <2>2, <2>3, <2>4, <2>5 DEF TypeOK
  <1>17. Owned'
    <2>1. ASSUME NEW j \in Tx, txLocks'[j] # 0
          PROVE  txLocks'[j] \in Node' /\ node'[txLocks'[j]].tx = j
      <3>1. CASE j = i /\ t = 0
        BY <1>2, <1>7, <1>8, <1>10, <3>1
      <3>2. CASE ~(j = i /\ t = 0)
        <4>1. txLocks'[j] = txLocks[j]
          BY <1>10, <3>2
        <4>2. txLocks[j] \in 1..N /\ node[txLocks[j]].tx = j
          BY <1>1, <1>11, <2>1, <4>1
        <4> QED BY <1>7, <1>8, <1>1, <4>1, <4>2
      <3> QED BY <3>1, <3>2
    <2>2. ASSUME NEW n \in Node'
          PROVE  node'[n].tx \in Tx /\ txLocks'[node'[n].tx] # 0 /\ txLocks'[node'[n].tx] <= n
      <3>1. CASE n = M
        <4>1. node'[n].tx = i
          BY <1>2, <1>7, <3>1
        <4> QED BY <1>1, <1>10, <3>1, <4>1
      <3>2. CASE n # M
        <4>1. n \in Node /\ node'[n] = node[n]
          BY <1>1, <1>7, <1>8, <3>2
        <4>2. node[n].tx \in Tx /\ txLocks[node[n].tx] # 0 /\ txLocks[node[n].tx] <= n
          BY <1>12, <4>1
        <4>3. txLocks'[node[n].tx] = txLocks[node[n].tx]
          BY <1>10, <4>2
        <4> QED BY <4>1, <4>2, <4>3
      <3> QED BY <3>1, <3>2
    <2>3. ASSUME NEW m \in Node', NEW n \in Node', m < n, node'[m].tx = node'[n].tx
          PROVE  n = M /\ Looped'
      <3>1. m \in Node /\ node'[m] = node[m]
        BY <1>1, <1>7, <1>8, <2>3
      <3>2. n = M
        <4> SUFFICES ASSUME n # M PROVE FALSE
          OBVIOUS
        <4>1. n \in Node /\ node'[n] = node[n]
          BY <1>1, <1>7, <1>8
        <4> QED BY <1>13, <2>3, <3>1, <4>1
      <3>3. node[m].tx = i
        BY <1>2, <1>7, <2>3, <3>1, <3>2
      <3> QED BY <1>12, <1>14, <3>1, <3>2, <3>3
    <2>4. Looped' => \E m \in Node' : m # M /\ node'[m].tx = node'[M].tx
      <3> SUFFICES ASSUME t # 0
                   PROVE  \E m \in Node' : m # M /\ node'[m].tx = node'[M].tx
        BY <1>14
      <3>1. t \in Node /\ node[t].tx = i
        BY <1>11
      <3>2. t \in Node' /\ t # M /\ node'[t] = node[t]
        BY <1>1, <1>7, <1>8, <3>1
      <3> QED BY <1>2, <1>7, <3>1, <3>2
    <2>5. \A j \in Tx' : txLocks'[j] # 0 => txLocks'[j] \in Node' /\ node'[txLocks'[j]].tx = j
      BY <1>6, <2>1
    <2>6. \A n \in Node' : /\ node'[n].tx \in Tx' /\ txLocks'[node'[n].tx] # 0
                           /\ txLocks'[node'[n].tx] <= n
      BY <1>6, <2>2
    <2>7. \A m, n \in Node' :
             m < n /\ node'[m].tx = node'[n].tx => n = Len(node') /\ Looped'
      BY <1>7, <2>3
    <2>8. Looped' => \E m \in Node' : m # Len(node') /\ node'[m].tx = node'[Len(node')].tx
      BY <1>7, <2>4
    <2> QED BY <2>5, <2>6, <2>7, <2>8 DEF Owned
  <1>18. Listed'
    <2>1. On(next', head') = On(next, head) \cup {M}
      BY <1>3, <1>4, <1>9
    <2>2. On(next, head) = Node \ freed
      BY <1>3 DEF LockInv, Listed
    <2>3. On(next', head') = (Node' \ freed') \cup IF Looped' THEN {M} ELSE {}
      BY <1>1, <1>8, <2>1, <2>2
    <2>4. 1 \notin freed'
      BY DEF LockInv, Listed
    <2>5. Links(next', Len(node')) /\ head' = IF Len(node') = 0 THEN 0 ELSE 1
      BY <1>1, <1>3, <1>4, <1>7, <1>9
    <2> QED BY <1>7, <2>3, <2>4, <2>5 DEF Listed
  <1>19. ListedLocksCompatible'
    <2>1. On(next', head') = On(next, head) \cup {M}
      BY <1>3, <1>4, <1>9
    <2>2. \A n \in On(next, head) :
             node[n].res = r /\ node[n].tx # i => ~Conflicts(type, node[n].type)
      BY NoRivalOnList
    <2>3. On(next, head) \subseteq Node
      BY <1>3 DEF LockInv, Listed
    <2>4. \A n \in On(next, head) : node'[n] = node[n]
      BY <1>1, <1>7, <2>3
    <2> DEFINE S == On(next', head') \ freed'
    <2>5. S \subseteq ((On(next, head) \ freed) \cup {M})
      BY <2>1
    <2> HIDE DEF S
    <2>6. ASSUME NEW m \in S, NEW n \in S,
                 node'[m].res = node'[n].res, node'[m].tx # node'[n].tx,
                 node'[m].type = "EXCLUSIVE"
          PROVE  node'[n].type # "SHARED" /\ node'[n].type # "EXCLUSIVE"
      <3>1. CASE m # M /\ n # M
        <4>1. m \in On(next, head) \ freed /\ n \in On(next, head) \ freed
          BY <2>5, <3>1
        <4> QED BY <2>4, <2>6, <4>1 DEF LockInv, ListedLocksCompatible
      <3>2. CASE m = M
        <4>1. n \in On(next, head)
          BY <1>2, <1>7, <2>5, <2>6, <3>2
        <4> QED BY <1>2, <1>7, <2>2, <2>4, <2>6, <3>2, <4>1 DEF Conflicts
      <3>3. CASE n = M /\ m # M
        <4>1. m \in On(next, head)
          BY <2>5, <3>3
        <4>2. node[m].res = r /\ node[m].tx # i /\ node[m].type = "EXCLUSIVE"
          BY <1>2, <1>7, <2>4, <2>6, <3>3, <4>1
        <4>3. node'[n].type = type
          BY <1>2, <1>7, <3>3
        <4> QED BY <2>2, <4>1, <4>2, <4>3 DEF Conflicts
      <3> QED BY <3>1, <3>2, <3>3
    <2>7. \A m \in S, n \in S :
             /\ node'[m].res = node'[n].res
             /\ node'[m].tx # node'[n].tx
             /\ node'[m].type = "EXCLUSIVE"
             => node'[n].type \notin {"SHARED", "EXCLUSIVE"}
      BY <2>6, Zenon
    <2> QED BY <2>7 DEF ListedLocksCompatible, S
  <1> QED BY <1>15, <1>16, <1>17, <1>18, <1>19 DEF LockInv

\* A step that moves neither the lists nor the transactions.
LEMMA DyingKeepsLocks ==
    ASSUME LockInv, CountInv', UNCHANGED <<txs, active, logs, heapVars, now>>,
           proc' \in {"ok", "aborted", "hung", "undefined", "destroyed"}
    PROVE  LockInv'
  <1>1. UNCHANGED <<txs, active, logs, txLocks, head, node, next, freed, granted, now>>
    BY DEF heapVars
  <1>2. Tx' = Tx /\ Node' = Node /\ (Looped' <=> Looped)
    BY <1>1 DEF Tx, Node, Looped
  <1>3. TypeOK'
    BY <1>1, <1>2 DEF LockInv, TypeOK
  <1>4. Owned' /\ Listed' /\ ListedLocksCompatible'
    BY <1>1, <1>2 DEF LockInv, Owned, Listed, ListedLocksCompatible
  <1> QED BY <1>3, <1>4 DEF LockInv

\* Nodes that leave the manager's list, and are freed, disturb no other.
LEMMA UnlinkKeepsLocks ==
    ASSUME LockInv, CountInv', NEW gone \in SUBSET Node, 1 \notin gone,
           Links(next', Len(node)), Len(node) # 0 => next'[Len(node)] = next[Len(node)],
           On(next', head) = (Node \ (freed \cup gone)) \cup IF Looped THEN {Len(node)} ELSE {},
           freed' = freed \cup gone, granted' \subseteq granted,
           UNCHANGED <<txs, active, logs, txLocks, head, node, now, proc>>
    PROVE  LockInv'
  <1>1. Node = 1..Len(node) /\ Len(node) \in Nat /\ Len(node) <= MaxLocks /\ MaxLocks \in Nat
        /\ freed \subseteq Node
    BY LockTypes
  <1>2. Tx' = Tx /\ Node' = Node
    BY DEF Tx, Node
  <1>3. Looped' <=> Looped
    BY DEF Looped
  <1>4. TypeOK'
    <2>1. next' \in [Node' -> 0..Len(node)]
      BY <1>1, <1>2 DEF Links
    <2>2. txs' \in Seq([state : TxState, start : 0..MaxTime,
                        isolation : Isolation \cup {"REPEATABLE_READ"}])
          /\ Len(txs') <= MaxBegins /\ active' \in Nat
      BY DEF LockInv, TypeOK
    <2>3. logs' \in [Tx' -> SUBSET {"undo", "redo"}] /\ now' \in 0..MaxTime
          /\ txLocks' \in [Tx' -> 0..Len(node)]
      BY <1>2 DEF LockInv, TypeOK
    <2>4. proc' \in {"ok", "aborted", "hung", "undefined", "destroyed"}
          /\ head' \in 0..Len(node) /\ node' \in Seq(Grant) /\ granted' \subseteq Grant
      BY DEF LockInv, TypeOK
    <2>5. freed' \subseteq Node'
      BY <1>1, <1>2
    <2>6. node' = node /\ Len(node') <= MaxLocks
      BY <1>1
    <2> QED BY <2>1, <2>2, <2>3, <2>4, <2>5, <2>6 DEF TypeOK
  <1>5. Owned'
    BY <1>2, <1>3 DEF LockInv, Owned
  <1>6. Listed'
    BY <1>2, <1>3 DEF LockInv, Listed
  <1>7. ListedLocksCompatible'
    <2>1. On(next', head') \ freed' \subseteq On(next, head) \ freed
      BY DEF LockInv, Listed
    <2> QED BY <2>1 DEF LockInv, ListedLocksCompatible
  <1> QED BY <1>4, <1>5, <1>6, <1>7 DEF LockInv

TxTyped == [state : TxState, start : 0..MaxTime, isolation : Isolation \cup {"REPEATABLE_READ"}]

\* A step that adds transactions without locks, or moves none of the lists.
LEMMA ListsStay ==
    ASSUME LockInv, CountInv', TypeOK', UNCHANGED <<head, node, next, freed>>,
           Tx \subseteq Tx', \A i \in Tx : txLocks'[i] = txLocks[i],
           \A i \in Tx' \ Tx : txLocks'[i] = 0
    PROVE  LockInv'
  <1>1. Node' = Node /\ (Looped' <=> Looped)
    BY DEF Node, Looped
  <1>2. Listed' /\ ListedLocksCompatible'
    BY <1>1 DEF LockInv, Listed, ListedLocksCompatible
  <1>3. Owned'
    BY <1>1 DEF LockInv, Owned
  <1> QED BY <1>2, <1>3 DEF LockInv

\* The beginning and the end of transactions.
LEMMA BeginKeepsLocks ==
    ASSUME LockInv, CountInv', NEW level \in Isolation, Begin(level)
    PROVE  LockInv'
  <1> DEFINE t == [state |-> "ACTIVE", start |-> now,
                   isolation |-> IF level = "READ_UNCOMMITTED"
                                   THEN "REPEATABLE_READ" ELSE level]
             L == Len(txs)
  <1>1. /\ L \in Nat /\ L < MaxBegins /\ Tx = 1..L /\ txs \in Seq(TxTyped) /\ MaxBegins \in Nat
        /\ txLocks \in [Tx -> 0..Len(node)] /\ logs \in [Tx -> SUBSET {"undo", "redo"}]
        /\ now \in 0..MaxTime
    BY TransactionAssumption DEF LockInv, TypeOK, TxTyped, Tx, Begin
  <1>2. t \in TxTyped
    BY <1>1 DEF TxTyped, TxState
  <1>3. /\ txs' = Append(txs, t) /\ txLocks' = Append(txLocks, 0) /\ logs' = Append(logs, {})
        /\ UNCHANGED <<head, node, next, freed, granted, now, proc>>
    BY DEF Begin
  <1> HIDE DEF t
  <1>4. \A T : \A q \in Seq(T), e \in T :
           /\ Append(q, e) \in Seq(T) /\ Len(Append(q, e)) = Len(q) + 1
           /\ Append(q, e)[Len(q) + 1] = e
           /\ \A k \in 1..Len(q) : Append(q, e)[k] = q[k]
    OBVIOUS
  <1>5. txs' \in Seq(TxTyped) /\ Len(txs') = L + 1
    BY <1>1, <1>2, <1>3, <1>4
  <1>6. Tx' = 1..(L + 1)
    BY <1>1, <1>5 DEF Tx
  <1>7. /\ txLocks' \in [1..(L + 1) -> 0..Len(node)] /\ txLocks'[L + 1] = 0
        /\ \A k \in 1..L : txLocks'[k] = txLocks[k]
    <2> DEFINE TL == 0..Len(node)
    <2>1. txLocks \in Seq(TL) /\ Len(txLocks) = L /\ 0 \in TL
      BY <1>1, LockTypes
    <2> HIDE DEF TL
    <2>2. /\ txLocks' \in Seq(TL) /\ Len(txLocks') = L + 1 /\ txLocks'[L + 1] = 0
          /\ \A k \in 1..L : txLocks'[k] = txLocks[k]
      BY <1>3, <1>4, <2>1
    <2>3. txLocks' \in [1..(L + 1) -> TL]
      BY <1>1, <2>2
    <2> QED BY <2>2, <2>3 DEF TL
  <1>8. logs' \in [1..(L + 1) -> SUBSET {"undo", "redo"}]
    <2> DEFINE LS == SUBSET {"undo", "redo"}
    <2>1. logs \in Seq(LS) /\ Len(logs) = L /\ {} \in LS
      BY <1>1
    <2> HIDE DEF LS
    <2>2. logs' \in Seq(LS) /\ Len(logs') = L + 1
      BY <1>3, <1>4, <2>1
    <2>3. logs' \in [1..(L + 1) -> LS]
      BY <1>1, <2>2
    <2> QED BY <2>3 DEF LS
  <1>9. active' \in Nat
    BY DEF Begin, LockInv, TypeOK
  <1>10. TypeOK'
    <2>1. Node' = Node
      BY <1>3 DEF Node
    <2>2. next' \in [Node' -> 0..Len(node)] /\ freed' \subseteq Node' /\ granted' \subseteq Grant
          /\ now' \in 0..MaxTime /\ head' \in 0..Len(node) /\ node' \in Seq(Grant)
          /\ proc' \in {"ok", "aborted", "hung", "undefined", "destroyed"}
      BY <1>3, <2>1 DEF LockInv, TypeOK
    <2>3. Len(txs') <= MaxBegins
      BY <1>1, <1>5
    <2>4. node' = node /\ Len(node') <= MaxLocks
      BY <1>3, LockTypes
    <2> QED BY <1>5, <1>6, <1>7, <1>8, <1>9, <2>2, <2>3, <2>4 DEF TypeOK, TxTyped
  <1>11. /\ Tx \subseteq Tx' /\ \A i \in Tx : txLocks'[i] = txLocks[i]
         /\ \A i \in Tx' \ Tx : txLocks'[i] = 0
    BY <1>1, <1>6, <1>7
  <1> QED BY <1>3, <1>10, <1>11, ListsStay

\* Transactions that end hold no locks, so that the lists stay.
LEMMA EndKeepsLocks ==
    ASSUME LockInv, CountInv', NEW S \in SUBSET Active,
           NEW outcome \in {"COMMITTED", "ROLLED_BACK"}, End(S, outcome)
    PROVE  LockInv'
  <1>1. /\ Len(txs) \in Nat /\ Tx = 1..Len(txs) /\ txs \in Seq(TxTyped)
        /\ txLocks \in [Tx -> 0..Len(node)] /\ logs \in [Tx -> SUBSET {"undo", "redo"}]
    BY DEF LockInv, TypeOK, TxTyped, Tx
  <1> DEFINE r(i) == IF i \in S THEN [txs[i] EXCEPT !.state = outcome] ELSE txs[i]
  <1>2. txs' = [i \in Tx |-> r(i)]
    BY DEF End
  <1>3. \A i \in Tx : r(i) \in TxTyped
    <2>1. \A i \in Tx : txs[i] \in TxTyped
      BY <1>1
    <2> QED BY <2>1 DEF TxTyped, TxState
  <1> HIDE DEF r
  <1>4. txs' \in Seq(TxTyped) /\ Len(txs') = Len(txs) /\ Tx' = Tx
    <2>1. txs' \in [1..Len(txs) -> TxTyped] /\ DOMAIN txs' = 1..Len(txs)
      BY <1>1, <1>2, <1>3
    <2> QED BY <1>1, <2>1 DEF Tx
  <1>5. UNCHANGED <<txLocks, head, node, next, freed, granted, now, proc>>
    BY DEF End, heapVars
  <1>6. active' \in Nat
    <2>1. active' = Cardinality(Active') /\ IsFiniteSet(Tx')
      BY <1>1, <1>4, FS_Interval DEF CountInv
    <2>2. IsFiniteSet(Active')
      BY <2>1, FS_Subset DEF Active
    <2> QED BY <2>1, <2>2, FS_CardinalityType
  <1>7. logs' \in [Tx' -> SUBSET {"undo", "redo"}]
    BY <1>1, <1>4 DEF End
  <1>8. TypeOK'
    <2>1. Node' = Node
      BY <1>5 DEF Node
    <2>2. next' \in [Node' -> 0..Len(node)] /\ freed' \subseteq Node' /\ granted' \subseteq Grant
          /\ now' \in 0..MaxTime /\ head' \in 0..Len(node) /\ node' \in Seq(Grant)
          /\ proc' \in {"ok", "aborted", "hung", "undefined", "destroyed"}
          /\ txLocks' \in [Tx' -> 0..Len(node)] /\ Len(txs') <= MaxBegins
      BY <1>4, <1>5, <2>1 DEF LockInv, TypeOK
    <2>3. node' = node /\ Len(node') <= MaxLocks
      BY <1>5, LockTypes
    <2> QED BY <1>4, <1>6, <1>7, <2>2, <2>3 DEF TypeOK, TxTyped
  <1> QED BY <1>4, <1>5, <1>8, ListsStay

\* Death ends in one of the ways the type allows.
LEMMA DeathKeepsLocks ==
    ASSUME LockInv, CountInv', NEW how \in {"aborted", "hung", "undefined", "destroyed"}, Die(how)
    PROVE  LockInv'
  BY DyingKeepsLocks DEF Die

\* A request is granted, waits, or dies on a list that was damaged.
LEMMA LockKeepsLocks ==
    ASSUME LockInv, CountInv', NEW i \in Tx, NEW r \in Resource, NEW type \in Requested,
           Lock(i, r, type)
    PROVE  LockInv'
  <1>1. CASE Die("undefined") \/ Die("hung")
    BY <1>1, DeathKeepsLocks
  <1>2. CASE ~(Die("undefined") \/ Die("hung"))
    <2>1. /\ Len(node) < MaxLocks
          /\ Seen(next, head, Rivals(i, r, type)) \cap Rivals(i, r, type) = {}
          /\ ~Cyclic(next, head) /\ txLocks[i] \notin freed
          /\ node' = Append(node, [tx |-> i, res |-> r, type |-> type])
          /\ next' = Linked(i, Len(node) + 1)
          /\ txLocks' = [txLocks EXCEPT ![i] = IF @ = 0 THEN Len(node) + 1 ELSE @]
          /\ head' = IF head = 0 THEN Len(node) + 1 ELSE head
          /\ granted' = granted \cup {[tx |-> i, res |-> r, type |-> type]}
          /\ UNCHANGED <<txs, active, logs, freed, now, proc>>
      BY <1>2 DEF Lock
    <2> QED BY <2>1, LockGrants
  <1> QED BY <1>1, <1>2

\* Whatever node an unlock takes off another transaction, and its own second.
LEMMA UnlockKeepsLocks ==
    ASSUME LockInv, CountInv', NEW i \in Tx, NEW r \in Resource, Unlock(i, r)
    PROVE  LockInv'
  <1> DEFINE N == Len(node)
             t == txLocks[i]
             hits == {n \in Node : node[n].res = r}
             seen == Seen(next, t, hits)
             own == {n \in hits : node[n].tx = i}
  <1>1. /\ N \in Nat /\ Node = 1..N /\ Links(next, N) /\ t \in 0..N /\ head \in 0..N
        /\ freed \subseteq Node /\ next \in [Node -> 0..N]
        /\ On(next, head) = (Node \ freed) \cup IF Looped THEN {N} ELSE {}
        /\ head = IF N = 0 THEN 0 ELSE 1
    BY LockTypes DEF LockInv, Listed
  <1>2. ASSUME NEW how, how \in {"aborted", "hung", "undefined", "destroyed"}, Die(how)
        PROVE  LockInv'
    BY <1>2, DeathKeepsLocks
  <1>3. t # 0
    BY DEF Unlock
  <1>4. 0 \notin hits /\ own \subseteq hits /\ hits \subseteq Node
    BY <1>1
  <1>5. seen \subseteq On(next, t) /\ t \in seen
    <2> HIDE DEF hits, t
    <2> QED BY <1>1, <1>3, <1>4, SeenOnList
  <1>6. CASE seen \cap freed # {}
    <2>1. Die("undefined")
      BY <1>6 DEF Unlock
    <2> QED BY <1>2, <2>1
  <1>7. CASE seen \cap freed = {} /\ seen \cap hits = {}
    <2>1. Die("hung")
      BY <1>7 DEF Unlock
    <2> QED BY <1>2, <2>1
  <1>8. CASE seen \cap freed = {} /\ seen \cap hits # {} /\ seen \cap own # {}
    <2>1. UnlockOwn(own)
      BY <1>8 DEF Unlock
    <2>2. \E how \in {"aborted", "undefined"} : Die(how)
      BY <2>1 DEF UnlockOwn
    <2> QED BY <1>2, <2>2
  <1>9. CASE seen \cap freed = {} /\ seen \cap hits # {} /\ seen \cap own = {}
    <2>1. PICK n \in seen \cap hits, p \in seen \ hits : next[p] = n /\ UnlockOther(n, p, own)
      BY <1>9 DEF Unlock
    <2> DEFINE cut == [next EXCEPT ![p] = next[n]]
               later == Seen(cut, head, own)
               C == On(next, head)
    <2>2. t \in C /\ head = 1 /\ 1 \in 1..N
      BY <1>1, <1>3, <1>5, <1>9
    <2>3. n \in C /\ p \in C /\ p # n /\ n \notin own
      <3>1. On(next, t) \subseteq C
        <4> HIDE DEF t
        <4> QED BY <1>1, <2>2, OnWithin
      <3> QED BY <1>5, <1>9, <3>1
    <2>4. /\ Links(cut, N) /\ n \in 1..N /\ p \in 1..N /\ p < n /\ 1 # n
          /\ cut[N] = next[N] /\ \A k \in 1..N : k # p => cut[k] = next[k]
          /\ On(cut, 1) = IF next[n] = n THEN C ELSE C \ {n}
          /\ next[n] = n => n = N
      <3>1. n \in On(next, 1) /\ p \in On(next, 1) /\ p # n /\ next[p] = n /\ C = On(next, 1)
        BY <2>1, <2>2, <2>3
      <3>2. cut = [next EXCEPT ![p] = next[n]]
        OBVIOUS
      <3>3. Unlinked(cut, next, N, 1, n, p)
        BY <1>1, <2>2, <3>1, <3>2 DEF Unlinked
      <3> HIDE DEF t, hits, seen, own, C, cut
      <3> QED BY <3>1, <3>3, CutLinks
    <2>5. Looped <=> next[N] = N
      BY <2>2, <1>1 DEF Looped
    <2>6. On(cut, 1) = (Node \ (freed \cup {n})) \cup IF Looped THEN {N} ELSE {}
      <3> HIDE DEF cut
      <3>1. CASE next[n] = n
        BY <1>1, <2>4, <2>5, <3>1
      <3>2. CASE next[n] # n /\ Looped
        <4>1. n # N
          BY <2>5, <3>2
        <4> QED BY <1>1, <2>2, <2>4, <3>2, <4>1
      <3>3. CASE next[n] # n /\ ~Looped
        BY <1>1, <2>2, <2>4, <3>3
      <3> QED BY <3>1, <3>2, <3>3
    <2>7. CASE later \cap freed # {}
      <3>1. Die("undefined")
        BY <2>1, <2>7 DEF UnlockOther
      <3> QED BY <1>2, <3>1
    <2>8. CASE later \cap freed = {} /\ later \cap own # {}
      <3>1. PICK m \in later \cap own, q \in later \ own :
               /\ cut[q] = m
               /\ next' = [cut EXCEPT ![q] = cut[m]]
               /\ freed' = freed \cup {n, m}
               /\ granted' = granted \ {node[m]}
               /\ UNCHANGED <<txs, active, logs, txLocks, head, node, now, proc>>
        BY <2>1, <2>8 DEF UnlockOther
      <3>2. m \in Node /\ node[m].tx = i /\ t # m /\ m # p
        BY <1>4, <1>5, <1>9, <2>1
      <3>3. t \in Node /\ node[t].tx = i /\ t <= m
        BY <1>3, <3>2 DEF LockInv, Owned
      <3>4. t < m
        BY <1>1, <3>2, <3>3
      <3>5. m = N /\ Looped /\ next[N] = N
        BY <2>5, <3>2, <3>3, <3>4 DEF LockInv, Owned
      <3>6. cut[m] = m
        BY <2>4, <3>5
      <3>7. next' = cut
        <4>1. next' = [cut EXCEPT ![q] = cut[q]]
          BY <3>1, <3>6
        <4> QED BY <4>1
      <3> HIDE DEF cut, later, own, hits, seen, t
      <3>8. /\ {n, m} \in SUBSET Node /\ 1 \notin {n, m}
        BY <1>1, <2>4, <3>2, <3>3, <3>4
      <3>9. On(next', head) = (Node \ (freed \cup {n, m})) \cup IF Looped THEN {N} ELSE {}
        BY <2>2, <2>6, <3>5, <3>7
      <3> QED BY <2>4, <3>1, <3>7, <3>8, <3>9, UnlinkKeepsLocks
    <2>9. CASE later \cap freed = {} /\ later \cap own = {}
      <3>1. CASE Cyclic(cut, head)
        <4>1. Die("hung")
          BY <2>1, <2>9, <3>1 DEF UnlockOther
        <4> QED BY <1>2, <4>1
      <3>2. CASE ~Cyclic(cut, head)
        <4>1. /\ next' = cut /\ freed' = freed \cup {n}
              /\ UNCHANGED <<txs, active, logs, txLocks, head, node, granted, now, proc>>
          BY <2>1, <2>9, <3>2 DEF UnlockOther
        <4> HIDE DEF cut, later, own, hits, seen, t
        <4>2. {n} \in SUBSET Node /\ 1 \notin {n}
          BY <1>1, <2>4
        <4>3. On(next', head) = (Node \ (freed \cup {n})) \cup IF Looped THEN {N} ELSE {}
          BY <2>2, <2>6, <4>1
        <4> QED BY <2>4, <4>1, <4>2, <4>3, UnlinkKeepsLocks
      <3> QED BY <3>1, <3>2
    <2> QED BY <2>7, <2>8, <2>9
  <1> QED BY <1>6, <1>7, <1>8, <1>9

\* A rollback releases nothing, or dies.
LEMMA RollbackKeepsLocks ==
    ASSUME LockInv, CountInv', NEW i \in Tx, Rollback(i)
    PROVE  LockInv'
  <1>1. CASE txLocks[i] = 0
    <2>1. i \in Active
      BY DEF Rollback, LockInv, CountInv, Active
    <2>2. End({i}, "ROLLED_BACK")
      BY <1>1 DEF Rollback
    <2> QED BY <2>1, <2>2, EndKeepsLocks
  <1>2. CASE txLocks[i] # 0
    <2>1. \E how \in {"aborted", "undefined"} : Die(how)
      BY <1>2 DEF Rollback, ReleaseFault
    <2> QED BY <2>1, DeathKeepsLocks
  <1> QED BY <1>1, <1>2

\* Every step keeps the invariant of the locks.
LEMMA NextKeepsLocks == LockInv /\ [Next]_vars => LockInv'
  <1> SUFFICES ASSUME LockInv, [Next]_vars PROVE LockInv'
    OBVIOUS
  <1>0. CountInv'
    BY NextKeepsCount DEF LockInv
  <1>1. ASSUME NEW level \in Isolation, Begin(level) PROVE LockInv'
    BY <1>0, <1>1, BeginKeepsLocks
  <1>2. ASSUME NEW i \in Tx, Commit(i) PROVE LockInv'
    <2>1. CASE txLocks[i] = 0
      <3>1. i \in Active /\ End({i}, "COMMITTED")
        BY <1>2, <2>1 DEF Commit, Active
      <3> QED BY <1>0, <3>1, EndKeepsLocks
    <2>2. CASE txLocks[i] # 0
      <3>1. \E how \in {"aborted", "undefined"} : Die(how)
        BY <1>2, <2>2 DEF Commit, ReleaseFault
      <3> QED BY <1>0, <3>1, DeathKeepsLocks
    <2> QED BY <2>1, <2>2
  <1>3. ASSUME NEW i \in Tx, Rollback(i) PROVE LockInv'
    BY <1>0, <1>3, RollbackKeepsLocks
  <1>4. ASSUME NEW i \in Tx, NEW which \in LogKind, Log(i, which) PROVE LockInv'
    <2>1. UNCHANGED <<txs, active, txLocks, head, node, next, freed, granted, now, proc>>
      BY <1>4 DEF Log, heapVars
    <2>2. logs' \in [Tx -> SUBSET {"undo", "redo"}] /\ Tx' = Tx /\ Node' = Node
      <3>1. which \in {"undo", "redo"}
        BY TransactionAssumption
      <3> QED BY <1>4, <2>1, <3>1 DEF Log, LockInv, TypeOK, Tx, Node
    <2>3. TypeOK'
      BY <2>1, <2>2 DEF LockInv, TypeOK
    <2> QED BY <1>0, <2>1, <2>2, <2>3, ListsStay
  <1>5. ASSUME NEW i \in Tx, NEW r \in Resource, NEW type \in Requested, Lock(i, r, type)
        PROVE  LockInv'
    BY <1>0, <1>5, LockKeepsLocks
  <1>6. ASSUME NEW i \in Tx, NEW r \in Resource, Unlock(i, r) PROVE LockInv'
    BY <1>0, <1>6, UnlockKeepsLocks
  <1>7. CASE HandleDeadlock
    <2>1. PICK i \in Active : Rollback(i)
      BY <1>7 DEF HandleDeadlock
    <2>2. i \in Tx
      BY DEF Active
    <2> QED BY <1>0, <2>1, <2>2, RollbackKeepsLocks
  <1>8. CASE CleanupTimeout
    <2>1. CASE End(TimedOut, "ROLLED_BACK")
      BY <1>0, <2>1, EndKeepsLocks DEF TimedOut
    <2>2. ASSUME NEW j, Die(ReleaseFault(j)) PROVE LockInv'
      <3>1. \E how \in {"aborted", "undefined"} : Die(how)
        BY <2>2 DEF ReleaseFault
      <3> QED BY <1>0, <3>1, DeathKeepsLocks
    <2> QED BY <1>8, <2>1, <2>2 DEF CleanupTimeout
  <1>9. CASE Destroy
    <2>1. \E how \in {"aborted", "destroyed"} : Die(how)
      BY <1>9 DEF Destroy
    <2> QED BY <1>0, <2>1, DeathKeepsLocks
  <1>10. CASE Tick
    <2>1. UNCHANGED <<txs, active, logs, txLocks, head, node, next, freed, granted, proc>>
      BY <1>10 DEF Tick, heapVars
    <2>2. now' \in 0..MaxTime
      BY <1>10, TransactionAssumption DEF Tick, LockInv, TypeOK
    <2>3. Tx' = Tx /\ Node' = Node
      BY <2>1 DEF Tx, Node
    <2>4. TypeOK'
      BY <2>1, <2>2, <2>3 DEF LockInv, TypeOK
    <2> QED BY <1>0, <2>1, <2>3, <2>4, ListsStay
  <1>11. CASE UNCHANGED vars
    <2>1. UNCHANGED <<txs, active, logs, heapVars, now, proc>>
      BY <1>11 DEF vars
    <2> QED BY <1>0, <2>1, DyingKeepsLocks DEF LockInv, TypeOK
  <1> QED BY <1>1, <1>2, <1>3, <1>4, <1>5, <1>6, <1>7, <1>8, <1>9, <1>10, <1>11 DEF Next

\* There are no locks at first.
LEMMA InitLocks == Init => LockInv
  <1> SUFFICES ASSUME Init PROVE LockInv
    OBVIOUS
  <1>1. /\ txs = <<>> /\ active = 0 /\ txLocks = <<>> /\ logs = <<>> /\ head = 0 /\ node = <<>>
        /\ next = <<>> /\ freed = {} /\ granted = {} /\ now = 0 /\ proc = "ok"
        /\ MaxLocks \in Nat /\ MaxBegins \in Nat /\ MaxTime \in Nat
    BY TransactionAssumption DEF Init
  <1>2. Tx = {} /\ Node = {} /\ Active = {} /\ Len(node) = 0 /\ Len(txs) = 0
    BY <1>1 DEF Tx, Node, Active
  <1>3. CountInv
    BY <1>1, <1>2, FS_EmptySet, TransactionAssumption DEF CountInv
  <1>4. TypeOK
    BY <1>1, <1>2 DEF TypeOK
  <1>5. Links(next, 0)
    BY <1>1 DEF Links
  <1>6. On(next, 0) = {}
    BY <1>5, OnIsChain DEF IsChain
  <1>7. Listed /\ Owned /\ ListedLocksCompatible
    BY <1>1, <1>2, <1>5, <1>6 DEF Listed, Owned, ListedLocksCompatible, Looped
  <1> QED BY <1>3, <1>4, <1>7 DEF LockInv

\* The invariant of the locks holds in every reachable state.
LEMMA LocksHold == Spec => []LockInv
  BY InitLocks, NextKeepsLocks, PTL DEF Spec

\* The state of transactions and locks is of its type, for every limit and any
\* callers: no link leads out of the nodes that were allocated.
THEOREM TypeCorrect == Spec => []TypeOK
  BY LocksHold, PTL DEF LockInv

\* No two locks on the manager's list are incompatible, whichever transactions
\* lock, unlock and end in whatever order (transaction.c:229-342).
THEOREM ListedCompatible == Spec => []ListedLocksCompatible
  BY LocksHold, PTL DEF LockInv

\* What the release loop relies on, that a transaction's first node is also the
\* manager's, holds whatever other transactions unlock (transaction.c:117-148).
THEOREM OwnListed == Spec => []OwnLocksAreListed
  <1>1. LockInv => OwnLocksAreListed
    <2> SUFFICES ASSUME LockInv, NEW i \in Tx, txLocks[i] # 0
                 PROVE  /\ node[txLocks[i]].tx = i
                        /\ txLocks[i] \in freed \cup On(next, head)
                        /\ \A n \in Node : node[n] = node[txLocks[i]] => txLocks[i] <= n
      BY DEF OwnLocksAreListed
    <2>1. txLocks[i] \in Node /\ node[txLocks[i]].tx = i
      BY DEF LockInv, Owned
    <2>2. Node \ freed \subseteq On(next, head)
      BY DEF LockInv, Listed
    <2>3. \A n \in Node : node[n].tx = i => txLocks[i] <= n
      BY DEF LockInv, Owned
    <2> QED BY <2>1, <2>2, <2>3
  <1> QED BY <1>1, LocksHold, PTL

\* Only a second lock of one transaction damages the lists: while each has taken
\* at most one, the manager's list has an end and no freed node (transaction.c:253-342).
THEOREM SingleLocksSound == Spec => []SingleLocksKeepListSound
  <1>1. LockInv => SingleLocksKeepListSound
    <2> SUFFICES ASSUME LockInv, \A m, n \in Node : m # n => node[m].tx # node[n].tx
                 PROVE  ~Cyclic(next, head) /\ On(next, head) \cap freed = {}
      BY DEF SingleLocksKeepListSound
    <2>1. Node = 1..Len(node) /\ Len(node) \in Nat /\ head \in 0..Len(node)
          /\ Links(next, Len(node))
      BY LockTypes DEF LockInv, Listed
    <2>2. ~Looped
      <3> SUFFICES ASSUME Looped PROVE FALSE
        OBVIOUS
      <3>1. PICK m \in Node : m # Len(node) /\ node[m].tx = node[Len(node)].tx
        BY DEF LockInv, Owned
      <3>2. Len(node) \in Node
        BY <2>1 DEF Looped
      <3> QED BY <3>1, <3>2
    <2>3. On(next, head) = Node \ freed
      BY <2>2 DEF LockInv, Listed
    <2>4. ~Cyclic(next, head)
      <3>1. Cyclic(next, head) <=> Len(node) \in On(next, head) /\ next[Len(node)] = Len(node)
        BY <2>1, CyclicLoops
      <3> QED BY <2>1, <2>2, <2>3, <3>1 DEF Looped
    <2> QED BY <2>3, <2>4
  <1> QED BY <1>1, LocksHold, PTL
=============================================================================
