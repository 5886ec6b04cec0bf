---------------------------- MODULE MemoryEngine ----------------------------
(****************************************************************************)
(* One table of the memory engine (storage/memory_engine.c): a hash table   *)
(* of doubly linked chains.  A node is known by the id of its row; 0 is     *)
(* NULL.  The arrays of links are indexed by id, and a slot that no node    *)
(* uses any more keeps its last value.                                      *)
(*                                                                          *)
(* An allocation may fail: of the new bucket array, which leaves the table  *)
(* as it is, or of a node, after the id was taken and, in a batch, after    *)
(* earlier rows were linked.                                                *)
(****************************************************************************)
EXTENDS Integers, Sequences, FiniteSets, SequencesExt

CONSTANTS
    Value,     \* contents of a row
    Gone,      \* what a select answers when there is no row
    InitCap,   \* the capacity of a new table and the least one: 1024
    MaxBatch,  \* bound: rows of one insertion
    MaxRows,   \* bound: ids given in a run
    Wrap       \* the values of a size_t, 2^64

MemoryAssumption ==
    /\ InitCap \in Nat \ {0} /\ MaxBatch \in Nat \ {0} /\ MaxRows \in Nat
    /\ Wrap \in Nat /\ Wrap > 4 * (MaxRows + InitCap)
    /\ Gone \notin Value

VARIABLES
    head,       \* head[h]: table_data->rows[h]
    nxt, prv,   \* the links of the nodes
    val,        \* the rows of the nodes; Gone when the node is freed
    rowCount,   \* table_data->row_count
    nextRowId,  \* table_data->next_row_id
    uncounted   \* history: rows linked by batches that then failed

vars == <<head, nxt, prv, val, rowCount, nextRowId, uncounted>>

Cap(hd) == Len(hd)
Id == 1..(nextRowId - 1)
Linked == {id \in Id : val[id] # Gone}

\* memory_engine_hash; bucket numbers count from 1 here.
Bucket(id, cap) == (id % cap) + 1

TypeOK ==
    /\ head \in Seq(0..MaxRows)
    /\ nxt \in [Id -> 0..MaxRows] /\ prv \in [Id -> 0..MaxRows]
    /\ val \in [Id -> Value \cup {Gone}]
    /\ rowCount \in 0..(Wrap - 1)
    /\ nextRowId \in 1..(MaxRows + 1)
    /\ uncounted \in 0..MaxRows

Empty(cap) == [h \in 1..cap |-> 0]

Init ==
    /\ head = Empty(InitCap)
    /\ nxt = <<>> /\ prv = <<>> /\ val = <<>>
    /\ rowCount = 0 /\ nextRowId = 1 /\ uncounted = 0

\* The chain that starts at node n.
Chain(n, nx) ==
    LET c[j \in 0..MaxRows] ==   \* after j links
          IF j = 0 THEN IF n = 0 THEN <<>> ELSE <<n>>
          ELSE LET so == c[j - 1]
               IN  IF so = <<>> \/ nx[Last(so)] = 0 THEN so ELSE Append(so, nx[Last(so)])
    IN  c[MaxRows]

\* Slip: the former head does not learn of its predecessor.
PushOneWay(t, id) ==
    LET h == Bucket(id, Cap(t.head))
    IN  [head |-> [t.head EXCEPT ![h] = id],
         nxt |-> [t.nxt EXCEPT ![id] = t.head[h]],
         prv |-> [t.prv EXCEPT ![id] = 0]]

\* Put a node at the head of its bucket (insert, batch_insert and the loop of
\* expand do it alike).
Push(t, id) ==
    LET h == Bucket(id, Cap(t.head))
        first == t.head[h]
        alone == [t.prv EXCEPT ![id] = 0]
    IN  [head |-> [t.head EXCEPT ![h] = id],
         nxt |-> [t.nxt EXCEPT ![id] = first],
         prv |-> IF first = 0 THEN alone ELSE [alone EXCEPT ![first] = id]]

Pushed(t, ids) ==
    LET p[i \in 0..Len(ids)] ==
          IF i = 0 THEN t ELSE LET so == p[i - 1] IN Push(so, ids[i])
    IN  p[Len(ids)]

\* memory_engine_expand_table to a greater capacity: the chains are read
\* bucket by bucket and every node is put at the head of its new bucket.
Rehashed(cap) ==
    LET order[h \in 0..Cap(head)] ==
          IF h = 0 THEN <<>> ELSE order[h - 1] \o Chain(head[h], nxt)
    IN  Pushed([head |-> Empty(cap), nxt |-> nxt, prv |-> prv], order[Cap(head)])

\* The load at which the table grows: row_count >= capacity * 0.75.
Full(count, cap) == 4 * count >= 3 * cap

\* The capacity of an insertion that begins with `full' and needs room for
\* `count' rows.
Grown(full, count) ==
    LET doubled[j \in 0..(MaxRows + 1)] ==
          IF j = 0 THEN 2 * Cap(head) ELSE 2 * doubled[j - 1]
        Enough(j) == ~Full(count, doubled[j])
    IN  IF ~full THEN Cap(head)
        ELSE doubled[CHOOSE j \in 0..(MaxRows + 1) :
                       Enough(j) /\ \A i \in 0..(j - 1) : ~Enough(i)]

\* The rows of `stored' get nodes; with `failed' one more id is taken, for
\* which there is no node.
Store(cap, stored, failed) ==
    LET ids == [i \in 1..Len(stored) |-> nextRowId + i - 1]
        more == stored \o IF failed THEN <<Gone>> ELSE <<>>
        old == IF cap = Cap(head) THEN [head |-> head, nxt |-> nxt, prv |-> prv]
               ELSE Rehashed(cap)
        zeros == [i \in 1..Len(more) |-> 0]
        new == Pushed([old EXCEPT !.nxt = @ \o zeros, !.prv = @ \o zeros], ids)
    IN  /\ nextRowId + Len(more) <= MaxRows + 1
        /\ head' = new.head /\ nxt' = new.nxt /\ prv' = new.prv
        /\ val' = val \o more
        /\ nextRowId' = nextRowId + Len(more)
    
\* The capacity is doubled once, whatever the load after it.  A bucket array
\* beyond the bound is one that cannot be allocated.
Insert(v) ==
    LET cap == IF Full(rowCount, Cap(head)) THEN 2 * Cap(head) ELSE Cap(head)
    IN  /\ cap <= 4 * (MaxRows + InitCap)
        /\ \/ /\ Store(cap, <<v>>, FALSE)
              /\ rowCount' = (rowCount + 1) % Wrap
           \/ /\ Store(cap, <<>>, TRUE)
              /\ UNCHANGED rowCount
        /\ UNCHANGED uncounted

\* The capacity is doubled until the load is low enough.  After a count that went
\* round below zero no capacity is: new_capacity itself goes round to 0 and the loop
\* never ends (memory_engine.c:303-306).  The caller does not come back, so that such
\* a batch is no step.
BatchInsert(batch) ==
    LET sum == (rowCount + Len(batch)) % Wrap
        cap == Grown(Full(sum, Cap(head)), sum)
    IN  /\ sum <= 2 * MaxRows
        /\ \/ /\ Store(cap, batch, FALSE)
              /\ rowCount' = sum
              /\ UNCHANGED uncounted
           \/ \E n \in 0..(Len(batch) - 1) :
                 /\ Store(cap, SubSeq(batch, 1, n), TRUE)
                 /\ uncounted' = uncounted + n
                 /\ UNCHANGED rowCount

\* The search along the chain of the bucket.
Found(id) == id \in ToSet(Chain(head[Bucket(id, Cap(head))], nxt))

Update(id, v) ==
    /\ Found(id)
    /\ val' = [val EXCEPT ![id] = v]
    /\ UNCHANGED <<head, nxt, prv, rowCount, nextRowId, uncounted>>

\* Slip: only the row is freed, the count stays.
DeleteUncounted(id) ==
    /\ Found(id)
    /\ nxt' = IF prv[id] # 0 THEN [nxt EXCEPT ![prv[id]] = nxt[id]] ELSE nxt
    /\ head' = IF prv[id] = 0
                 THEN [head EXCEPT ![Bucket(id, Cap(head))] = nxt[id]] ELSE head
    /\ prv' = IF nxt[id] # 0 THEN [prv EXCEPT ![nxt[id]] = prv[id]] ELSE prv
    /\ val' = [val EXCEPT ![id] = Gone]
    /\ UNCHANGED <<rowCount, nextRowId, uncounted>>

\* Slip: the count is a signed number.
DeleteSigned(id) ==
    /\ Found(id)
    /\ nxt' = IF prv[id] # 0 THEN [nxt EXCEPT ![prv[id]] = nxt[id]] ELSE nxt
    /\ head' = IF prv[id] = 0
                 THEN [head EXCEPT ![Bucket(id, Cap(head))] = nxt[id]] ELSE head
    /\ prv' = IF nxt[id] # 0 THEN [prv EXCEPT ![nxt[id]] = prv[id]] ELSE prv
    /\ val' = [val EXCEPT ![id] = Gone]
    /\ rowCount' = rowCount - 1
    /\ UNCHANGED <<nextRowId, uncounted>>

Delete(id) ==
    /\ Found(id)
    /\ IF prv[id] # 0
         THEN nxt' = [nxt EXCEPT ![prv[id]] = nxt[id]] /\ UNCHANGED head
         ELSE head' = [head EXCEPT ![Bucket(id, Cap(head))] = nxt[id]] /\ UNCHANGED nxt
    /\ prv' = IF nxt[id] # 0 THEN [prv EXCEPT ![nxt[id]] = prv[id]] ELSE prv
    /\ val' = [val EXCEPT ![id] = Gone]
    /\ rowCount' = (rowCount - 1) % Wrap
    /\ UNCHANGED <<nextRowId, uncounted>>

\* The smaller capacity is handed to expand, which accepts greater ones only.
Optimize ==
    /\ LET least == IF Cap(head) \div 2 < InitCap THEN InitCap ELSE Cap(head) \div 2
       IN  IF 4 * rowCount < Cap(head) /\ least > Cap(head)
             THEN LET t == Rehashed(least)
                  IN  head' = t.head /\ nxt' = t.nxt /\ prv' = t.prv
             ELSE UNCHANGED <<head, nxt, prv>>
    /\ UNCHANGED <<val, rowCount, nextRowId, uncounted>>

Next ==
    \/ \E v \in Value : Insert(v)
    \/ \E n \in 1..MaxBatch : \E batch \in [1..n -> Value] : BatchInsert(batch)
    \/ \E id \in Id : Delete(id) \/ \E v \in Value : Update(id, v)
    \/ Optimize

Spec == Init /\ [][Next]_vars

-----------------------------------------------------------------------------
(* Properties.                                                              *)

\* The chains are well formed through insertion, unlinking and rehashing:
\* every node that is not freed is on the chain of its bucket, exactly once,
\* no freed node is on any, and prev is the inverse of next
\* (memory_engine.c:83-100, 270-276, 417-425).
ChainsSound ==
    \A h \in DOMAIN head :
       LET chain == Chain(head[h], nxt)
       IN  /\ ToSet(chain) = {id \in Linked : Bucket(id, Cap(head)) = h}
           /\ IsInjective(chain)
           /\ \A i \in DOMAIN chain :
                 prv[chain[i]] = IF i = 1 THEN 0 ELSE chain[i - 1]

\* row_count is the number of the rows linked, but for those that a batch
\* linked before it failed; as a size_t it goes round below zero when those
\* are deleted (memory_engine.c:312-334, 431).
CountLaw == (rowCount + uncounted) % Wrap = Cardinality(Linked) % Wrap

\* The table keeps the promise of TableStore: whatever chains a row moves
\* through, its id finds it until it is deleted.
Content == [id \in Id |-> IF Found(id) THEN val[id] ELSE Gone]

=============================================================================
