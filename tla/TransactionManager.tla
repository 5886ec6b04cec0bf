------------------------- MODULE TransactionManager -------------------------
(****************************************************************************)
(* transaction/transaction.c: transactions, their locks and the lists that  *)
(* hold them.                                                               *)
(*                                                                          *)
(* A lock node has ONE `next' field and is threaded through two lists with  *)
(* it: the list of its transaction (tx->locks) and the list of the manager  *)
(* (manager->locks).  The heap is therefore modelled node by node: `node'   *)
(* holds the allocated nodes in the order of their allocation, `next' their *)
(* link (0 is NULL), `freed' those given back.  An address is not reused,   *)
(* so that a use of freed memory shows.  What C leaves undefined ends the   *)
(* run: freeing a node twice in a row aborts in the C library ("aborted"),  *)
(* a walk over a cyclic list never ends ("hung"), reading a freed node is   *)
(* "undefined".                                                             *)
(****************************************************************************)
EXTENDS Integers, Sequences, FiniteSets

CONSTANTS
    Resource,         \* resource_id values
    Isolation,        \* the isolation levels a caller asks for
    Requested,        \* the lock types a caller asks for
    LogKind,          \* the logs a caller writes, of "undo" and "redo"
    MaxTransactions,  \* manager->max_transactions
    Timeout,          \* default transaction_timeout, in seconds
    MaxBegins,        \* bound: transactions begun in a run
    MaxLocks,         \* bound: lock nodes allocated in a run
    MaxTime           \* bound: seconds a run lasts

ASSUME TransactionAssumption ==
    /\ MaxTransactions \in Nat \ {0}
    /\ Timeout \in Nat
    /\ MaxBegins \in Nat /\ MaxLocks \in Nat /\ MaxTime \in Nat
    /\ Isolation \subseteq {"READ_UNCOMMITTED", "READ_COMMITTED",
                            "REPEATABLE_READ", "SERIALIZABLE"}
    /\ Requested \subseteq {"SHARED", "EXCLUSIVE", "INTENT_SHARED", "INTENT_EXCLUSIVE"}
    /\ LogKind \subseteq {"undo", "redo"}

LockType == {"SHARED", "EXCLUSIVE", "INTENT_SHARED", "INTENT_EXCLUSIVE"}
TxState == {"ACTIVE", "COMMITTED", "ROLLED_BACK", "PREPARED", "FAILED"}

VARIABLES
    txs,      \* manager->transactions; a transaction's id is its position
    active,   \* manager->active_transactions
    txLocks,  \* tx->locks, the first node of the transaction's list
    logs,     \* which of undo_log and redo_log the transaction holds
    head,     \* manager->locks
    node,     \* node[n]: what lock node n holds
    next,     \* next[n]: its link
    freed,    \* the nodes given back to the allocator
    granted,  \* history: locks granted and not released by their own transaction
    now,      \* time(NULL)
    proc      \* how the process is doing

heapVars == <<txLocks, head, node, next, freed, granted>>
vars == <<txs, active, logs, heapVars, now, proc>>

Tx == DOMAIN txs
Node == 1..Len(node)
Grant == [tx : 1..MaxBegins, res : Resource, type : LockType]

TypeOK ==
    /\ txs \in Seq([state : TxState, start : 0..MaxTime,
                    isolation : Isolation \cup {"REPEATABLE_READ"}])
    /\ Len(txs) <= MaxBegins
    /\ active \in Nat
    /\ txLocks \in [Tx -> 0..Len(node)]
    /\ logs \in [Tx -> SUBSET {"undo", "redo"}]
    /\ head \in 0..Len(node)
    /\ node \in Seq(Grant) /\ Len(node) <= MaxLocks
    /\ next \in [Node -> 0..Len(node)]
    /\ freed \subseteq Node
    /\ granted \subseteq Grant
    /\ now \in 0..MaxTime
    /\ proc \in {"ok", "aborted", "hung", "undefined", "destroyed"}

Init ==
    /\ txs = <<>> /\ active = 0 /\ txLocks = <<>> /\ logs = <<>>
    /\ head = 0 /\ node = <<>> /\ next = <<>> /\ freed = {} /\ granted = {}
    /\ now = 0 /\ proc = "ok"

-----------------------------------------------------------------------------
(* Lists.                                                                   *)

\* The node reached from h in j links over the links nx, 0 past the end.
Walk(nx, h) ==
    LET w[j \in 0..MaxLocks] ==
          IF j = 0 THEN h ELSE IF w[j - 1] = 0 THEN 0 ELSE nx[w[j - 1]]
    IN  w

\* The nodes on the list that starts at h.
On(nx, h) == LET w == Walk(nx, h) IN {w[j] : j \in 0..MaxLocks} \ {0}

\* A walk to the end of the list never gets there.
Cyclic(nx, h) == Walk(nx, h)[MaxLocks] # 0

\* The nodes a walk from h reads until it meets one of the nodes `hits'.
Seen(nx, h, hits) ==
    LET w == Walk(nx, h)
    IN  {w[j] : j \in {m \in 0..MaxLocks : \A l \in 0..(m - 1) : w[l] \notin hits}} \ {0}

\* The last node of a non-empty list that has an end.
LastNode(nx, h) == CHOOSE n \in On(nx, h) : nx[n] = 0

-----------------------------------------------------------------------------
(* Transactions.                                                            *)

\* The id of the new transaction is next_transaction_id; level 0, which is
\* READ_UNCOMMITTED, stands for the default.
Begin(level) ==
    /\ proc = "ok"
    /\ active < MaxTransactions
    /\ Len(txs) < MaxBegins
    /\ txs' = Append(txs, [state |-> "ACTIVE", start |-> now,
                           isolation |-> IF level = "READ_UNCOMMITTED"
                                           THEN "REPEATABLE_READ" ELSE level])
    /\ active' = active + 1
    /\ txLocks' = Append(txLocks, 0)
    /\ logs' = Append(logs, {})
    /\ UNCHANGED <<head, node, next, freed, granted, now, proc>>

\* The loop that releases locks finds the node also on the manager's list and
\* frees it there, then frees it again.
ReleaseFault(i) ==
    LET same == {n \in Node : node[n].tx = i /\ node[n].res = node[txLocks[i]].res}
    IN  IF (Seen(next, head, same) \cup {txLocks[i]}) \cap freed = {}
          THEN "aborted" ELSE "undefined"

Die(how) ==
    /\ proc' = how
    /\ UNCHANGED <<txs, active, logs, heapVars, now>>

\* Slip: the counter is not decremented when a transaction ends.
EndUncounted(S, outcome) ==
    /\ txs' = [i \in Tx |-> IF i \in S THEN [txs[i] EXCEPT !.state = outcome] ELSE txs[i]]
    /\ logs' = [i \in Tx |-> IF i \in S THEN {} ELSE logs[i]]
    /\ UNCHANGED <<active, heapVars, now, proc>>

\* Slip: the caller decrements the counter once more.
EndCountedTwice(S, outcome) ==
    /\ txs' = [i \in Tx |-> IF i \in S THEN [txs[i] EXCEPT !.state = outcome] ELSE txs[i]]
    /\ logs' = [i \in Tx |-> IF i \in S THEN {} ELSE logs[i]]
    /\ active' = active - Cardinality(S) - 1
    /\ UNCHANGED <<heapVars, now, proc>>

\* The end of the transactions S, which hold no locks.
End(S, outcome) ==
    /\ txs' = [i \in Tx |-> IF i \in S THEN [txs[i] EXCEPT !.state = outcome] ELSE txs[i]]
    /\ logs' = [i \in Tx |-> IF i \in S THEN {} ELSE logs[i]]
    /\ active' = active - Cardinality(S)
    /\ UNCHANGED <<heapVars, now, proc>>

Commit(i) ==
    /\ proc = "ok"
    /\ txs[i].state = "ACTIVE"
    /\ IF txLocks[i] = 0 THEN End({i}, "COMMITTED") ELSE Die(ReleaseFault(i))

Rollback(i) ==
    /\ proc = "ok"
    /\ txs[i].state \in {"ACTIVE", "PREPARED"}
    /\ IF txLocks[i] = 0 THEN End({i}, "ROLLED_BACK") ELSE Die(ReleaseFault(i))

Active == {i \in Tx : txs[i].state = "ACTIVE"}

\* Slip: the comparison of the start times is the wrong way round.
Youngest(i) == \A j \in Active : txs[i].start >= txs[j].start

\* The victim is the first of the transactions with the least start_time.
Oldest(i) == \A j \in Active : \/ txs[i].start < txs[j].start
                               \/ txs[i].start = txs[j].start /\ i <= j

HandleDeadlock == \E i \in Active : Oldest(i) /\ Rollback(i)

\* Every transaction is measured against the default timeout.
TimedOut == {i \in Active : now - txs[i].start > Timeout}

CleanupTimeout ==
    /\ proc = "ok"
    /\ TimedOut # {}
    /\ LET holders == {i \in TimedOut : txLocks[i] # 0}
       IN  IF holders = {} THEN End(TimedOut, "ROLLED_BACK")
           ELSE Die(ReleaseFault(CHOOSE i \in holders : \A j \in holders : i <= j))

\* transaction_log_undo and transaction_log_redo, at any time.
Log(i, which) ==
    /\ proc = "ok"
    /\ logs' = [logs EXCEPT ![i] = @ \cup {which}]
    /\ UNCHANGED <<txs, active, heapVars, now, proc>>

-----------------------------------------------------------------------------
(* Locks.                                                                   *)

\* Slip: a shared request is not compared with exclusive locks.
ConflictsExclusiveOnly(type, other) == type = "EXCLUSIVE"

\* check_lock_conflict for one lock of another transaction: an intention
\* request conflicts with nothing.
Conflicts(type, other) ==
    \/ type = "EXCLUSIVE"
    \/ type = "SHARED" /\ other = "EXCLUSIVE"

Rivals(i, r, type) ==
    {n \in Node : node[n].res = r /\ node[n].tx # i /\ Conflicts(type, node[n].type)}

\* Slip: the new node is not added to a manager's list that is not empty.
LinkedToOwnOnly(i, n) ==
    LET fresh == Append(next, 0)
    IN  IF txLocks[i] = 0 THEN fresh
        ELSE [fresh EXCEPT ![LastNode(fresh, txLocks[i])] = n]

\* The new node goes to the end of the transaction's list, then to the end of
\* the manager's list as that is after the first link was written.
Linked(i, n) ==
    LET fresh == Append(next, 0)
        own == IF txLocks[i] = 0 THEN fresh
               ELSE [fresh EXCEPT ![LastNode(fresh, txLocks[i])] = n]
    IN  IF head = 0 THEN own ELSE [own EXCEPT ![LastNode(own, head)] = n]

Lock(i, r, type) ==
    LET seen == Seen(next, head, Rivals(i, r, type))
        n == Len(node) + 1
        g == [tx |-> i, res |-> r, type |-> type]
    IN  /\ proc = "ok"
        /\ txs[i].state = "ACTIVE"
        /\ Len(node) < MaxLocks
        /\ IF seen \cap freed # {} THEN Die("undefined")
           ELSE /\ seen \cap Rivals(i, r, type) = {}
                /\ IF Cyclic(next, head) THEN Die("hung")
                   ELSE IF txLocks[i] \in freed THEN Die("undefined")
                   ELSE /\ node' = Append(node, g)
                        /\ next' = Linked(i, n)
                        /\ txLocks' = [txLocks EXCEPT ![i] = IF @ = 0 THEN n ELSE @]
                        /\ head' = IF head = 0 THEN n ELSE head
                        /\ granted' = granted \cup {g}
                        /\ UNCHANGED <<txs, active, logs, freed, now, proc>>

\* Slip: the node is freed where it is linked.
UnlockLeavesLink(i, r) ==
    /\ proc = "ok"
    /\ txLocks[i] # 0
    /\ \E n \in On(next, txLocks[i]) : node[n].res = r /\ freed' = freed \cup {n}
    /\ UNCHANGED <<txs, active, logs, txLocks, head, node, next, granted, now, proc>>

\* The transaction's own node n, which has just been freed as the manager's
\* too, is freed again.
UnlockOwn(own) ==
    Die(IF Seen(next, head, own) \cap freed = {} THEN "aborted" ELSE "undefined")

\* Node n of another transaction, found after node p, is unlinked and freed.
\* The search of the manager's list looks at the owner: a node it finds is
\* unlinked from there and freed as well.
UnlockOther(n, p, own) ==
    LET cut == [next EXCEPT ![p] = next[n]]
        seen == Seen(cut, head, own)
    IN  IF seen \cap freed # {} THEN Die("undefined")
        ELSE IF seen \cap own # {}
          THEN \E m \in seen \cap own, q \in seen \ own :
                  /\ cut[q] = m
                  /\ next' = [cut EXCEPT ![q] = cut[m]]
                  /\ freed' = freed \cup {n, m}
                  /\ granted' = granted \ {node[m]}
                  /\ UNCHANGED <<txs, active, logs, txLocks, head, node, now, proc>>
        ELSE IF Cyclic(cut, head) THEN Die("hung")
        ELSE /\ next' = cut
             /\ freed' = freed \cup {n}
             /\ UNCHANGED <<txs, active, logs, txLocks, head, node, granted, now, proc>>

\* Whatever the state of the transaction.  The walk goes on, over the shared
\* links, to nodes of other transactions and does not look at their owner.
Unlock(i, r) ==
    LET hits == {n \in Node : node[n].res = r}
        seen == Seen(next, txLocks[i], hits)
        own == {n \in hits : node[n].tx = i}
    IN  /\ proc = "ok"
        /\ txLocks[i] # 0
        /\ IF seen \cap freed # {} THEN Die("undefined")
           ELSE IF seen \cap hits = {} THEN Cyclic(next, txLocks[i]) /\ Die("hung")
           ELSE IF seen \cap own # {} THEN UnlockOwn(own)
           ELSE \E n \in seen \cap hits, p \in seen \ hits :
                   next[p] = n /\ UnlockOther(n, p, own)

\* transaction_manager_destroy frees the transactions' lists, then the
\* manager's list.
Destroy ==
    /\ proc = "ok"
    /\ Die(IF head = 0 THEN "destroyed" ELSE "aborted")

Tick ==
    /\ proc = "ok"
    /\ now < MaxTime
    /\ now' = now + 1
    /\ UNCHANGED <<txs, active, logs, heapVars, proc>>

Next ==
    \/ \E level \in Isolation : Begin(level)
    \/ \E i \in Tx : Commit(i) \/ Rollback(i)
    \/ \E i \in Tx, which \in LogKind : Log(i, which)
    \/ \E i \in Tx, r \in Resource, type \in Requested : Lock(i, r, type)
    \/ \E i \in Tx, r \in Resource : Unlock(i, r)
    \/ HandleDeadlock \/ CleanupTimeout \/ Destroy \/ Tick

Spec == Init /\ [][Next]_vars

-----------------------------------------------------------------------------
(* Properties.                                                              *)

\* The counter that admits transactions is the number of active ones, however
\* they end, and stays within max_transactions (transaction.c:79, 111, 161, 215).
ActiveCountExact == active = Cardinality(Active) /\ active <= MaxTransactions

\* No two transactions have, both on the manager's list, an exclusive lock and
\* a shared or exclusive lock on one resource (transaction.c:237-250).
ListedLocksCompatible ==
    \A m, n \in On(next, head) \ freed :
       /\ node[m].res = node[n].res
       /\ node[m].tx # node[n].tx
       /\ node[m].type = "EXCLUSIVE"
       => node[n].type \notin {"SHARED", "EXCLUSIVE"}

\* What the release loop relies on: the list of a transaction starts with a
\* node of its own that the manager's list has too, before any other node for
\* the same transaction and resource, unless another transaction freed it.
OwnLocksAreListed ==
    \A i \in Tx : txLocks[i] # 0 =>
       /\ node[txLocks[i]].tx = i
       /\ txLocks[i] \in freed \cup On(next, head)
       /\ \A n \in Node : node[n] = node[txLocks[i]] => txLocks[i] <= n

\* The lists are damaged only by transactions that take a second lock: while
\* each has taken at most one, the manager's list has an end and holds no freed
\* memory, whichever transaction unlocks what (transaction.c:253-342).
SingleLocksKeepListSound ==
    (\A m, n \in Node : m # n => node[m].tx # node[n].tx)
    => ~Cyclic(next, head) /\ On(next, head) \cap freed = {}

\* A transaction that handle_deadlock or cleanup_timeout rolls back is never
\* younger than one that the same call leaves active (transaction.c:360-421).
RollsBackOldestFirst ==
    [][\A i, j \in Tx :
          /\ txs[i].state = "ACTIVE" /\ txs'[i].state = "ROLLED_BACK"
          /\ txs'[j].state = "ACTIVE"
          /\ HandleDeadlock \/ CleanupTimeout
          => txs[i].start <= txs[j].start]_vars

\* "行级锁" (ARCHITECTURE.md:169), "检查锁冲突" (transaction.c:236): an exclusive
\* lock keeps the others off the resource until its own transaction gives it up.
GrantedLocksCompatible ==
    \A g, h \in granted :
       g.res = h.res /\ g.tx # h.tx /\ g.type = "EXCLUSIVE"
       => h.type \notin {"SHARED", "EXCLUSIVE"}

=============================================================================
