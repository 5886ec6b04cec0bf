---------------------------- MODULE MemoryCache ----------------------------
(****************************************************************************)
(* memory/memory_cache.c: a cache with a list of its items, the last one    *)
(* used first, and an eviction by access count and access time.  The list   *)
(* is a sequence from head to tail.  memory_pool_free does nothing, so what *)
(* is freed keeps its content; an allocation from the pool may fail.  That  *)
(* the pool may move its region under the items is left out.                *)
(* An item's size stands for CACHE_ITEM_OVERHEAD + key_size + value_size.   *)
(****************************************************************************)
EXTENDS Integers, Sequences, SequencesExt

CONSTANTS
    Key,       \* keys
    Value,     \* values
    SizeOf,    \* SizeOf[v]: size of an item with value v
    Capacity,  \* cache->capacity
    MaxItems,  \* cache->max_item_count
    MaxCount,  \* bound: accesses of one item
    MaxTime    \* bound: seconds a run lasts

CacheAssumption ==
    /\ SizeOf \in [Value -> Nat \ {0}]
    /\ Capacity \in Nat \ {0} /\ MaxItems \in Nat \ {0}
    /\ MaxCount \in Nat \ {0} /\ MaxTime \in Nat

VARIABLES
    items,   \* the list, head first
    used,    \* cache->used
    count,   \* cache->item_count
    now,     \* cache->current_time
    latest   \* history: the value last stored under each key, {} when deleted

vars == <<items, used, count, now, latest>>

Item == [key : Key, val : Value, hits : 1..MaxCount, time : 0..MaxTime]

TypeOK ==
    /\ items \in Seq(Item)
    /\ used \in Nat /\ count \in Nat
    /\ now \in 0..MaxTime
    /\ latest \in [Key -> SUBSET Value]

Init ==
    /\ items = <<>> /\ used = 0 /\ count = 0 /\ now = 0
    /\ latest = [k \in Key |-> {}]

Size(item) == SizeOf[item.val]

Position(list, k) == SelectInSeq(list, LAMBDA m : m.key = k)

\* Fewer hits, or as many and an earlier access.
Colder(a, b) == a.hits < b.hits \/ (a.hits = b.hits /\ a.time < b.time)

\* Slip: the tail is taken, whatever the counts.
VictimAtTail(list) == Len(list)

\* memory_cache_evict looks from the tail on for the first of the coldest.
Victim(list) ==
    CHOOSE i \in DOMAIN list :
       /\ \A j \in DOMAIN list : ~Colder(list[j], list[i])
       /\ \A j \in DOMAIN list : j > i => Colder(list[i], list[j])

\* The list, the used size and the number of items after n evictions.
Evicted(n) ==
    LET e[i \in 0..n] ==
          IF i = 0 THEN [items |-> items, used |-> used, count |-> count]
          ELSE LET so == e[i - 1]
                   v == Victim(so.items)
               IN  [items |-> RemoveAt(so.items, v),
                    used |-> so.used - Size(so.items[v]),
                    count |-> so.count - 1]
    IN  e[n]

\* Slip: the item to come is not counted.
FitsOneMore(c, size) == c.used + size <= Capacity /\ c.count <= MaxItems

Fits(c, size) == c.used + size <= Capacity /\ c.count < MaxItems

\* The evictions memory_cache_set makes for an item of the size: as many as it
\* takes, or all.
Evictions(size) ==
    LET enough == {n \in 0..Len(items) : Fits(Evicted(n), size)}
    IN  IF enough = {} THEN Len(items) ELSE Min(enough)

\* Slip: the item is not unlinked before it becomes the head.
TouchedLinkedTwice(list, i, time) ==
    <<[list[i] EXCEPT !.hits = @ + 1, !.time = time]>> \o list

\* memory_cache_update_access
Touched(list, i, time) ==
    <<[list[i] EXCEPT !.hits = @ + 1, !.time = time]>> \o RemoveAt(list, i)

\* Room is made before the key is looked up, also for an update, and even if
\* the allocations then fail.
Set(k, v) ==
    LET c == Evicted(Evictions(SizeOf[v]))
        i == Position(c.items, k)
        Fail == items' = c.items /\ used' = c.used /\ count' = c.count /\ UNCHANGED latest
    IN  /\ i # 0 => c.items[i].hits < MaxCount
        /\ \/ Fail
           \/ /\ Fits(c, SizeOf[v])
              /\ i # 0
              /\ items' = Touched([c.items EXCEPT ![i].val = v], i, now)
              /\ used' = c.used - Size(c.items[i]) + SizeOf[v]
              /\ count' = c.count
              /\ latest' = [latest EXCEPT ![k] = {v}]
           \/ /\ Fits(c, SizeOf[v])
              /\ i = 0
              /\ items' = <<[key |-> k, val |-> v, hits |-> 1, time |-> now]>> \o c.items
              /\ used' = c.used + SizeOf[v]
              /\ count' = c.count + 1
              /\ latest' = [latest EXCEPT ![k] = {v}]
        /\ UNCHANGED now

\* The clock is read here only.
Get(k) ==
    /\ \E t \in now..MaxTime :
          /\ now' = t
          /\ LET i == Position(items, k)
             IN  IF i = 0 THEN UNCHANGED items
                 ELSE items[i].hits < MaxCount /\ items' = Touched(items, i, t)
    /\ UNCHANGED <<used, count, latest>>

\* Slip: what freeing the key and the value gives back is subtracted once more.
DeleteTwice(k) ==
    LET i == Position(items, k)
    IN  /\ i # 0
        /\ items' = RemoveAt(items, i)
        /\ used' = used - 2 * Size(items[i])
        /\ count' = count - 1
        /\ latest' = [latest EXCEPT ![k] = {}]
        /\ UNCHANGED now

Delete(k) ==
    LET i == Position(items, k)
    IN  /\ i # 0
        /\ items' = RemoveAt(items, i)
        /\ used' = used - Size(items[i])
        /\ count' = count - 1
        /\ latest' = [latest EXCEPT ![k] = {}]
        /\ UNCHANGED now

Clear ==
    /\ items' = <<>> /\ used' = 0 /\ count' = 0
    /\ latest' = [k \in Key |-> {}]
    /\ UNCHANGED now

Next ==
    \/ \E k \in Key, v \in Value : Set(k, v)
    \/ \E k \in Key : Get(k) \/ Delete(k)
    \/ Clear

Spec == Init /\ [][Next]_vars

-----------------------------------------------------------------------------
(* Properties.                                                              *)

\* The sizes and the number of the items are accounted for through evictions,
\* updates that change a size, and sets that fail midway, and stay within the
\* limits (memory_cache.c:128-130, 203-204, 257-259, 335-337).
AccountsExact ==
    /\ used = FoldSeq(LAMBDA m, s : s + Size(m), 0, items)
    /\ count = Len(items)
    /\ used <= Capacity /\ count <= MaxItems

\* A key has at most one item, with the value last stored under it: an update
\* that fails does not lose or mix values (memory_cache.c:184-213).
ServesLatestValue ==
    \A i \in DOMAIN items :
       /\ latest[items[i].key] = {items[i].val}
       /\ \A j \in DOMAIN items : items[i].key = items[j].key => i = j

\* "首先尝试淘汰访问计数最低的项" (memory_cache.c:82): what a set evicts was used
\* no more often than anything it keeps.
EvictsLeastUsed ==
    [][\A k \in Key, v \in Value : Set(k, v) =>
          LET kept == ToSet([i \in DOMAIN items' |-> items'[i].key])
          IN  \A i, j \in DOMAIN items :
                 /\ items[i].key \notin kept
                 /\ items[j].key \in kept \ {k}
                 => items[i].hits <= items[j].hits]_vars
=============================================================================
