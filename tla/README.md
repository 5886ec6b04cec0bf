# A TLA+ model of MicroMeowDB

MicroMeowDB is a small database server in C.  This directory holds TLA+ modules
that model its stateful parts, TLC configurations that check them on small
instances, and proofs, checked by TLAPS, of what matters most for instances of
every size.  Paths below are relative to the repository; `system.c:145` is
`src/system/system.c`, line 145.

The repository's own sources do not compile as they stand on Linux: several
files miss an include, a type or the declaration of a name they use
(`LOCK_TYPE_NONE` in `transaction.c`, `OBJECT_STATUS_DELETED` in `metadata.c`;
`index_manager_init` and `security_init` are called and nowhere defined).  The
models read each line with the evidently intended declaration.

## 1. Inventory

One process, one thread.  `main()` creates the system manager, starts the
subsystems in a fixed order, and waits in `pause()` for a signal.  Concurrency
comes from signal handlers that run on top of `main()` or of one another;
everything else is sequential, and what makes it hard is allocation or file
operations that fail between two writes, structures that two owners share, and
long sequences of legal calls.

| component | state | operations | talks to | hard behaviour | what makes it correct |
|---|---|---|---|---|---|
| server process, system manager (`main.c`, `system/`) | state, per subsystem initialized / started / instance, global pointer, signal dispositions, PID file | start, shutdown, destroy, signal handler | hands each subsystem's instance to later ones | handlers interrupt any step and nest; creations fail | RUNNING means complete; stop in reverse order of dependencies; no use after free; a signal ends the process |
| transactions (`transaction/`) | transactions, counter of active ones, lock nodes on two lists through one link, logs | begin, commit, rollback, lock, unlock, deadlock, timeout | none call it yet | the shared link; two owners of a node | counter exact, conflicting locks not granted, lists sound |
| row engine (`storage/row_engine.c`) | array of rows, counts | insert, batch insert, update, delete, select, optimize, transaction flags | counts also kept by the manager | in-place compaction, growth and shrinking | no live row lost, slots inside the array |
| memory engine (`storage/memory_engine.c`) | hash table of doubly linked chains, counts | the same | the same | a batch that fails midway; rehashing | chains sound, counts |
| column engine (`storage/column_engine.c`) | one array and null mask per column | the same | the same | failure between two columns | columns aligned |
| storage manager (`storage/storage_engine.c`) | directory of tables, engines and their lists | create, drop, get, forwarded calls, destroy | engines | second of two writes fails; two owners of a table's data | directory and engine lists agree |
| memory pool (`memory/memory_pool.c`) | region, block descriptors, statistics | alloc, realloc, free (empty), defragment (empty) | cache | enlargement, failure after it | blocks disjoint, statistics add up |
| memory cache (`memory/memory_cache.c`) | items in a hash table and an LRU list, size accounts | set, get, delete, clear | pool | eviction at two limits, allocation failing mid-update | accounts exact, latest value served, right victim |
| LSM tree (`index/lsm_tree.c`) | active and immutable memtable, SSTable files | insert, delete, get, flush, compact (empty) | files | flush that fails at each point and is tried again | nothing accepted is lost, reads find the newest |
| hash index (`index/hash_index.c`) | buckets of chained nodes, a count | insert, get, delete | none calls it | keys that share a chain | answers with the value stored last, counts the keys |
| bloom filter (`index/bloom_filter.c`) | bits, count of additions | add, contains, reset | none | hashes derived from two others | what was added is contained |
| bitmap index (`index/bitmap_index.c`) | values, each with a bitmap of rows | insert, query, and / or / not | none | all bitmaps are enlarged, and it may fail midway | a query has the rows of its value |
| R tree (`index/r_tree.c`) | nodes with boxes of their own and of their children | insert, query, delete (empty) | none | splits up to the root, allocations that fail in them | no item lost, leaves equally deep, queries complete |
| B+ tree (`index/b_plus_tree.c`) | leaves and inner nodes | insert, get, delete, range | none | splits; the root's capacity is read before it is set | keys ascending, agrees with an ordered map |
| replication (`replication/`) | binlog files, current file, ids, sockets of slaves | start, stop, write event, rotate, prune | files | rotation that fails, names by the second, restart | events in order, pruning takes the oldest |
| metadata (`metadata/`) | objects with status and data, a file for each | create, drop, rename, clone, update, save | files | multi-step drops and renames; aliasing of data | names unique, drops complete, files agree |
| network (`network/network.c`) | listening socket, list of connections and their count; of a client its socket | create, start, stop, accept, close, destroy; connect, disconnect | the kernel's sockets | count, list and descriptors are kept apart; a server started while it runs | the three agree, so that the limit admits what it should |
| client (`client/`) | configuration, command history | connect, run commands | network | – | – |
| authentication (`security/authentication.c`) | users with status, records of failed logins | create, delete, set status, change password, authenticate, reset | authorization | the record outlives the user it is about; the lockout duration is never read | an account closed by failures stays closed for the lockout duration unless it is reopened |
| authorization (`security/authorization.c`) | roles, roles of users, records of privileges | create, drop, grant, revoke, check | users of authentication | records refer by name to what may be gone; merged and unlinked; a scope may have no name | one record of a user and a scope, with what was granted and not revoked |
| error queue (`error/`) | list, head, tail, count | record, last, clear | – | the oldest gives way at the limit | the list is the end of what was recorded |
| audit (`audit/`) | configuration, current file | log an event, rotate, configure, destroy | files | rotation that fails, names by the second, restart | events in order, none missing |
| logging (`logging/`) | level, target, current file, size, number of renamed files | write, rotate, configure, destroy | files | rename and open may fail, names by the second | each line in one file, once |
| backup (`backup/`) | list of backups, directory | create, delete, verify, scan | files | the file goes before its entry; `realloc` that fails | a file found stays listed, and verifies unless it is empty |
| configuration (`config/`) | items with typed values, a file of text | set, get, load, save, defaults | all read it | the type is not saved but guessed | an item keeps its value |
| monitoring (`monitoring/`) | list of statistics of three kinds | register, increment, set, record, collect, reset, switch | – | kinds share a union; recording stops while it is off | a statistic sums up what was measured |
| procedures (`procedure/`) | two arrays of slots | create, drop, get, destroy; execute and fire (only log) | – | optional parts are assigned only when given, slots keep old pointers | a slot's pointers are its object's, searches find it |
| resource control, optimizer, path utilities | tables of limits, statistics | set, get | – | – | – |

The hazards of this code, each at its line with the properties aimed at it, are
listed in `PROJECT.json`.

## 2. Plan

In order of importance; all of it is in this directory.

1. `SystemLifecycle`: the process under signals, with proofs of its safety.
2. `TransactionManager`: counters and lock lists, node by node; proofs of the
   counter and of the choice of victims.
3. `TableStore`, the promise of a table, and the three engines that keep it:
   `RowEngine` (proved to implement it), `MemoryEngine`, `ColumnEngine`; the
   directory `StorageManager`.
4. The indexes in memory: `HashIndex`, `BloomFilter`, `BitmapIndex`, `RTree`,
   `BPlusTree`; `MCIndexes` puts them together, and `MCStorage` all of storage.
5. `MemoryPool`, `MemoryCache`, `NetworkServer`, `Authentication`,
   `Authorization` on top of it, `ErrorQueue`, `Monitoring`, `Procedures`: what the
   server process keeps in memory; `MCServer` puts them together.
6. What reaches a file: `LsmTree`, `Binlog`, `Metadata`, `AuditLog`, `LogFile`,
   `BackupCatalogue`, `ConfigStore`; `MCFiles` puts them together.

7. The proofs, module by module: section 5.

What remains worth doing: the directory composed with the engines, so that a drop
reaches the rows.

## 3. Modules and code

| module | models | its variables in the code |
|---|---|---|
| `SystemLifecycle` | `main.c`, `system/system.c` | `state`, `initialized`, `started`, `instance` are the fields of `mm_system_manager` and its `subsystems[]`; `global` is `global_mm_system`; `pc`, `k` say where `main()` is; `stack` the handler invocations on top of it; `disposition`, `pid` are the kernel's |
| `TransactionManager` | `transaction/transaction.c` | `txs`, `active`, `logs` are the transactions; `node`, `next`, `head`, `txLocks` the lock nodes, their single `next` field and the two lists threaded through it; `freed` what the allocator has back |
| `TableStore` | the interface in `storage/storage_engine.h` | `content`: row numbers to rows; the abstract specification |
| `RowEngine` | `storage/row_engine.c` | `rows` the array, `rowCount`, `nextRowId`, `inTx`; `scan`, `kept` the two indexes of the compaction loop |
| `MemoryEngine` | `storage/memory_engine.c` | `head`, `nxt`, `prv`, `val`: the buckets and the links |
| `ColumnEngine` | `storage/column_engine.c` | `cells[c][i]`: values and null mask, with the row each came from; `capacity`, `rowCount` |
| `StorageManager` | `storage/storage_engine.c` | `tables` the directory, `lists` the list each engine keeps |
| `MemoryPool` | `memory/memory_pool.c` | `size`, `offset` the region, `used`, `free` the statistics, `blocks` the descriptors |
| `MemoryCache` | `memory/memory_cache.c` | the LRU list, accounts, access counts |
| `NetworkServer` | `network/network.c` | `exists`, `listen`, `running`, `conns`, `count` are the fields of the server; `open`, `bound`, `pending` are the kernel's |
| `Authentication` | `security/authentication.c` | `status`, `password` of the users, `recorded`, `failed`, `lastFailed` the login attempts, `clock` the time |
| `Authorization` | `security/authorization.c` | extends the former; `roles`, `userRoles`, `privileges` the three lists; a scope has a level and a name, which may be `NoName` |
| `ErrorQueue` | `error/error.c` | `queue`, `errorCount` |
| `Monitoring` | `monitoring/monitoring.c` | `enabled`, `stats` the list |
| `Procedures` | `procedure/procedure.c` | `slots`, `inUse` the two arrays and their counts; `liveSchemas`, `liveParts` what the allocator has given out; a pointer is known by the object it was allocated for |
| `HashIndex`, `BloomFilter` | `index/hash_index.c`, `index/bloom_filter.c` | `chains`, `itemCount`; `bits`, `added`; the hash functions are constants |
| `BitmapIndex` | `index/bitmap_index.c` | `items`: values with the set bits and the size of their bitmaps; `maxBit` |
| `RTree` | `index/r_tree.c` | `root`, a nested record, with the box a node has and the box its parent believes it has; `height`, `itemCount`; the recursion over nodes is the way down to a leaf (`Way`) and what each node on the way back does with the outcome below it |
| `BPlusTree` | `index/b_plus_tree.c` | `leaf`, `capacity`: the tree up to its first split |
| `LsmTree` | `index/lsm_tree.c` | `active`, `immutable` the memtables, `listed` the SSTables, `file` the files with the bytes the device took of each; entries have sizes, and a search of a file whose bytes end inside an entry may answer anything (`Torn`) |
| `Binlog` | `replication/replication.c` | `role`, `running`, `state`, the current file `cur`, the list `binlogs` (`unlisted` when realloc lost it), `nextId`, the files `disk` |
| `Metadata` | `metadata/metadata.c` | `cat.objects` the list, `cat.data` the heap of what the objects point to, `files` |
| `AuditLog` | `audit/audit.c` | `config`, `file`, `contents` of the files |
| `LogFile` | `logging/logging.c` | `minLevel`, `toFile`, `rotation`, `isOpen`, `fileCount`, `size`; `current` and `archived` the files |
| `BackupCatalogue` | `backup/backup.c` | `list`, `isNull` the array of backups, `onDisk` the files, `empty` those of no bytes |
| `ConfigStore` | `config/config.c` | `settings` the items, `lines`, `onFile` the file; `Cuts` what may be left of a text when a save ends inside its line |

Each public function that changes state is one action; what it calls is part of
that action.  Two are cut into steps, where something can come between: the
start and the shutdown of the system, which signals interrupt, and the
compaction of the row engine, whose loop invariant is the point.  `map` in
`PROJECT.json` gives the lines of every definition.  Variables commented
`history` are not in the code; properties speak of the past through them.

Undefined behaviour ends a run: the modules with a heap (`TransactionManager`,
`Metadata`, `StorageManager`, `LsmTree`, `Binlog`, `Procedures`) say in a variable
(`proc`, `process`) how the process is doing, which leaves `"ok"` when
freed memory is read, a block is freed twice or a walk goes round for ever.
Properties of the state say what holds up to there.

Definitions whose comment begins with *Slip* are faulty versions of the
definition that follows, of the kind a slip of the pen produces.  Nothing uses
them; put in the place of the original they break the property that
`PROJECT.json` names under `mutants`, which shows that the property depends on
that line.

**Composition.**  `SystemLifecycle` hands instances from subsystem to subsystem,
in `init_order`, as `Uses` and `Derefs`.  `MCStorage` starts a table in one of
the engines or in the directory, with the row counters shared, because the code
reaches exactly one engine through a table's pointer; all three engines must
refine `TableStore` through the refinement mapping `TableContent`, and the row
engine is checked as the manager drives it (`ViaManager`).  `Authorization`
extends `Authentication`: one state, and each of its steps is one of either.
`MCIndexes`, `MCServer` and `MCFiles` put parts side by side that do not call
one another: a variable (`index`, `subject`) picks the part in the initial
state, so that the set of behaviours is the union, not the product.  `MCStorage`
has the engines, the directory and, as one more subject, `MCIndexes`.

**External parts.**  The kernel's sockets are modelled as far as the calls in
`network.c` observe them: descriptors, one bound port, a queue of connections.
A file is a sequence of what was written, which survives a restart of the part
that owns it; opening, renaming and removing may fail where the code looks at
the result.  `time(NULL)` is `now`, in seconds.

## 4. Runs

Deadlock is not checked: every process ends (exit, destroy, undefined
behaviour), and every history has a bound.

| run | shows | bounds, and why they are enough |
|---|---|---|
| `SystemLifecycle` | a RUNNING system is complete; handlers never touch a freed manager; it is destroyed stopped; stop order; a signal in `pause()` ends the process; a shutdown that began finishes | 4 subsystems, dependencies of two levels, two creations that dereference what they are handed; two shutdown signals, so that handlers nest, and one of the others; handlers are one-shot (`ResetHand = TRUE`), as `signal()` is under the Makefile's `-std=c99`; the proofs cover both kinds |
| `Transactions` | counter exact; listed locks compatible; the release loop's assumption; lists sound with one lock each; the oldest is rolled back | 2 resources, 3 transactions of which 2 at once, 3 lock nodes: the shared link does its damage with two nodes, the third is the bystander |
| `Storage` | rows: slots in the array, order, compaction at each iteration; chains, counts, aligned columns, directory; every engine refines `TableStore`; each index has what was put into it, the R tree is well formed | rows: initial capacity 2, batches up to 3 and 6 rows, so two growths, a batch greater than a doubling, and shrinking; hash table: 5 rows cross two rehashings; 2 columns, 3 rows in them, since what can go wrong is between two columns; `Wrap` = 64 stands for 2^64; 3 names, 3 engines, 4 creations. Indexes: 4 keys in 2 buckets (`BucketCount`), 7 bits with 4 hashes (the fourth is derived); rows 0 to 4 in blocks of 2 bits, which are three sizes of a bitmap; R tree: nodes of 2 and 6 insertions split leaves, inner nodes and the root; B+ tree: leaf capacities 0 to 4 |
| `Server` | pool sound; cache: accounts, latest value, victim; connections, counter and descriptors agree; an account is closed for the lockout duration; records have what was granted; the list of errors; statistics sum up what was measured; objects of whole parts are found and own their pointers | a region of 4 that may become 16, block sizes 1, 2, 4, requests up to 9: one doubles the region, one needs more than that; a cache for 3 units and 2 items, and a value of 4 that never fits; 2 clients that connect twice, a limit of 2 connections and 3 descriptors, so that either limit is met first; one user, lock after 2 failures, records up to 3, a duration of one second and a clock that passes it; one role, two privileges, 2 records, a global scope, a database with and without a name, and a table, so that records are merged, unlinked and taken for one another; accounts and privileges are examined one after the other, since a grant asks of an account only whether there is one; a list of 2 errors, 5 recorded; 2 statistics of 3 values each; arrays of 2 slots, 3 objects created with 2 names in 2 schemas or none, so that a slot is used again after a drop |
| `Files` | LSM tree (`EntriesKept`): nothing accepted is lost, a value found was accepted; binary log: order, pruning, index; catalogue: names, files, complete drops; audit log, log, settings: kept; backups stay listed | LSM: a memtable of 3 bytes, of which a search of a file reads 2, entries of 1, 2 and 4 bytes, so that memtables are turned out before they are full, one entry fits in none and reads end between and inside entries; 4 entries, 2 files, two seconds, so that two flushes meet one file name; binary log: a file of one event, 2 files, 5 events, 3 seconds; catalogue: 2 tables, 1 column, an index and its clone, 4 objects, 1 renaming (one is enough for objects to share data); the file of one index may fail to be written or removed. An index that is itself a clone is not cloned again. Tables are symmetric. Audit: files of one event, 4 events; log: rotation after 2 of 4 lines, two seconds, so that a name comes twice; backups: 2 types, 2 directories, lists of 2, files with and without bytes; settings: 2 keys, one with a default that is NULL, 3 values set, nine values among which are strings that read as a number and a double that prints as 0, texts cut in their middle |

The three great runs have 229,030, 177,944 and 1,037,692 distinct states.

A `violation` run checks one statement of a comment or a document that the code
does not keep:

| run | statement | what happens |
|---|---|---|
| `SystemLifecycleLostSignal` | the wait loop waits for a signal (`main.c:331`) | a signal during the start, or between the test of the state and `pause()`, is handled and the process waits for ever; fairness is assumed, so that it is not merely slow |
| `TransactionGranted` | conflicts are checked (`transaction.c:236`) | an unlock follows the shared link into another transaction's nodes and frees one: the caller is granted a resource the other still counts on |
| `RowEngineIds` | row ids are contiguous (`row_engine.c:299`) | after `optimize` an id reaches another row |
| `ColumnExpand` | room is made when needed (`column_engine.c:307`) | after an expansion that failed when a column was already enlarged, every insertion into the full table is refused, until `optimize` or a batch that needs more |
| `LsmReads` | the newest place is searched first (`lsm_tree.c:251`) | a key inserted twice reads as its first value |
| `MetadataDrop` | a table is dropped with its columns and indexes (`metadata.c:995`) | a renamed column or index stays |
| `RTreeQuery` | a query finds what lies in its range (`r_tree.c:398`) | after a split the parent keeps the old box of the child that stayed (`r_tree.c:245`), which insertions outgrow: an item is not found by a query for its own box |

Fairness appears in `SystemLifecycle` only: weak fairness of `Main` and of
`Handler`, which says that the kernel schedules the process.  Nobody has to send
a signal.  Everything else is called from outside, and promises no progress.

## 5. Proofs

TLAPS checks what follows for every value of the constants that satisfies the
assumptions of the modules, which TLC evaluates for the instances it runs.  The
proofs are in eight modules; each theorem that states a property of a run names the
very definition the run checks.

* `SystemLifecycleProofs` (assumption `LifecycleAssumption`: a subsystem is
  listed in `init_order` after what it is handed).  `TypeCorrect`,
  `RunningComplete`, `HandlersSafe`, `StoppedFirst`, `ReverseOrder` and
  `DependencyOrder`.  The inductive invariant `IInv` adds to the type what
  connects the three parts of the state: where `main()` is with what the manager
  holds (`ManagerInv`), the loop counter with the subsystems started so far
  (`StartInv`), and each handler invocation with what lies below it
  (`HandlerInv`: only a system that was started gets a handler past its guard, a
  frame in its stop loop has stopped all from its counter up, and while the state
  is SHUTTING_DOWN some frame is still stopping).  The last is what makes nested
  stop loops harmless, and it is needed because handlers nest to any depth.
* `TransactionManagerProofs` (`TransactionAssumption`).  `CountExact`: the
  counter equals the number of active transactions and is within the limit.
  `OldestFirst`, a property of steps: whom a deadlock or a timeout rolls back is
  never younger than one the same call leaves active.  `TypeCorrect`,
  `ListedCompatible`, `OwnListed` and `SingleLocksSound` speak of the lock lists and
  rest on `LockInv`: a head, a transaction's list or a link leads to a node that was
  allocated, a link to one allocated later, only the last
  node may be linked to itself, and what a walk from the head of a list meets
  is what was allocated and not freed.  The walks of the code are loops over links
  that may go round for ever; `IsChain` characterises the sequence a walk gives
  without them, and the lemmas on it are proved by the length of the walk.
* `IndexProofs` (`IndexAssumption`), about the parts of `MCIndexes`.
  * `IndexCompleteness`, `IndexTypes`, by `IndexInv`, both of the indexes but the R
    tree.  A chain of the hash index holds
    the keys of its bucket, each once, and the count is the sum of the lengths
    (`HashInv`); every bit of the Bloom filter is a position of a key (`BloomInv`); every
    bitmap has at least `maxBit` bits, also where an enlargement was cut short, and
    those set are the rows of its value (`BitmapInv`); the leaf is sorted and holds what
    was put (`LeafInv`), from which the search by halves finds a key where it is or
    where it belongs.
  * The R tree, by `TreeInv`, from which `StorageProofs` has `TreeStaysSound`: the root is a tree of some height, among the trees whose
    nodes are not too full, whose leaves are equally deep and which have no item
    twice.  Nodes are records nested to any depth, so the trees of each height and the
    items of each are given by a recursive function of the height (`Forest`).  What an
    insertion comes to at a node (`Placed`: the item is added, the node is split in
    two that share nothing, or a part is lost when an allocation fails) is shown for
    the leaf and carried back node by node to the root (`InsertedPlaced`); that the
    levels of the tree together have what the root has (`LevelIs`) gives the items
    `TreeSound` counts.
* `EngineProofs` (`RowAssumption`, `NullAssumption`, `ColumnAssumption`,
  `DirectoryAssumption`).
  * The row engine: `SlotSafety`, `InsertionOrder`, `CompactionSound`,
    `OptimizeSound`.  The invariant `Inv` strengthens the properties by `ScanInv`, the
    loop invariant of the compaction: what is below `kept` is live, and the ids of
    the rows kept and of those still to be read increase; without it the order of
    rows is not preserved by a step of the loop that copies a row down.
    `Implementation`: the row engine implements `TableStore`.  The mapping is
    `Content`, what `select` answers for each row number; the steps of the loop are
    stutters, and its end is the one `Optimize` of the abstract table.  The point of
    the proof is that the row at position `i` was the one with exactly `i` live rows
    up to it, a count that is carried through the loop by `Inv`.
  * The directory, by `DirectoryInv`: no name is twice in a list, and what the
    directory lists its engine lists; lists of engines may have more, from creations
    that failed in between.  The columns, by `ColumnInv`: until an expansion frees what
    a column still points to, every column has room up to the capacity and at each
    index below the count the cell of one row, and rows ascend.
* `StorageProofs` (the two above, `MemoryAssumption` and `StorageAssumption`), about the
  engines and indexes as they run together in `MCStorage`.  `StorageInv` is the conjunction of the
  invariants of the parts.
  * `ChainsStaySound`, by `MemoryInv`: there are sequences of nodes, one for each bucket,
    that the links spell out in both directions, without repetition, and that hold
    exactly the linked rows of the bucket (`Sound`).  The code walks the links; that a
    walk gives the sequence is proved once (`Chain`), and each operation is then one on
    sequences.  `CountIs` says what `row_count` is when it has gone round: the number of
    linked rows without those that failed batches left uncounted, modulo `Wrap`, which
    `MemoryAssumption` takes large enough for doubled sizes not to go round too.
  * `ColumnsStayAligned`, `DirectoryStaysInAgreement`, `TreeStaysSound`, `StorageTypes`.
  * `EnginesImplement`: every engine implements `TableStore`.  For the columns and the
    hash table each step is one of four on the content (`Keeping`): rows are added at
    the end, one row changes or goes, the live rows are left, or nothing changes; and
    each of these is a step of `TableStore` or a stutter (`PromiseKept`).  That a failed
    insertion, a failed expansion or a rehashing is the last is where the invariants
    of the chains and the columns are used.
* `ServerProofs` (`MCServer`'s assumptions), about the parts as they run together in
  `MCServer`; `ServerInv` is the conjunction of the parts' invariants, and a step of
  one part leaves the variables of the others alone.
  * `ServerTypes`: every part keeps its type.
  * `Lockout` (`AuthorizationAssumption`): `LockInv` adds that the record counts at
    least the failures since the account was reopened or created.  What is proved is
    the least a lockout duration promises; that the code keeps the account closed
    after it, too, is not stated as a property.  `Grants`: `GrantInv` says that
    the records give exactly what was granted and not revoked, and that there is one
    record for a user and a scope, without which unlinking one would leave another
    behind, for the users and levels of which no call without a name has taken the
    record of a name (`Kept`): after that the records are no longer what the calls
    say.  The assumption leaves none of these calls out.
  * `PoolIsSound`: every block ends at or before `offset`, so that the next begins
    after all of them.
  * `CacheIsSound` and `EvictionIsFair`, by `CacheInv`: `used` is the sum of the sizes
    of the items, keys are apart and every item has the value its key was last
    set to.  Eviction is a loop; what is proved of each turn is that what is gone was
    used no more often than what stays, which is kept until the loop ends.
  * `SocketsAgree` adds `SessionsPast`, a connection that waits or is listed is of an
    earlier session of its client, and `NoneWithout`, no connection outlives its
    server; a descriptor that is newly given out would otherwise not be known to be
    unlisted.
  * `LastErrors`: the list is a suffix of what was recorded.
  * `RegistersAreSound`: a statistic is what its measurements add up to (`MonitorInv`),
    and procedures created with all their parts own what their slots point to
    (`ProcInv`: slots in the order of creation, parts of their own, no name and
    schema twice).
* `FilesProofs` (`FilesAssumption`, `LsmAssumption`), about the parts of `MCFiles`.
  * `EventsStayInOrder`, `PruningKeeps`, by `BinlogInv`: files are listed in the order of
    their seconds, events ascend from file to file, nothing was written to a file
    later than the current one, and while no two files got one name each file has only
    events between its `first` and `last`.
  * `CatalogueIsSound`, `DropsTakeParts`, by `CatalogueInv`: the objects have names apart
    and in their type's range, what they point to is in the heap, named, and shared
    only by objects of one type, and the files are those of the active objects.
    The loops of the code over columns and indexes are folds; the relations `Fades`
    (a drop), `Retains` (a rename, an update) and `Extends` (a creation, a clone) say what
    every turn of one keeps.  A part that is dropped is looked up by its name again:
    that the search finds the part itself, and not another of that name, holds because
    names are apart and, for `DropsTakeParts`, because nothing was renamed.
  * `RecordsStay`, `EntriesStay`, `BackupsStay`, by the invariants `AuditInv`, `LinesInv`,
    `TreeInv`, `BackupInv` and `ConfigInv`: records ascend over the files and none is in
    two of them; the memtables flushed and those in memory have what was accepted in
    its order, and every file, of which any number of bytes may be there and be read,
    has one of the memtables, so that an entry found in it was accepted unless the
    bytes end inside an entry; a backup that was seen is on the list before any other
    of its name; a line of the settings has a text that is guessed to be what was
    printed if that lasts, or belongs to the one item of which nothing is known any
    more, for whatever texts a cut line may be left with.
  * `FilesTypes`: every part keeps its type.
* `SequenceLemmas`: what `SelectSeq`, `SelectInSeq`, `RemoveAt`, `FlattenSeq`, `SetToSeq`, the folds
  over sequences and sets and recursive functions give, and sequences of entries that
  have sets of items, which the modules above cite.  The library's induction theorems have an operator for a parameter and cannot
  be used here; where a fact is needed of a recursive function or of a fold, it is
  proved about the set of the numbers for which it holds, which contains 0 and with
  every number the next one (`LeastStays`), so that the invariants of loops above are
  stated of sets, not of operators.

Only model checked: the liveness properties and everything under fairness, which
TLAPS cannot reason about, and the statements of the violation runs, which do not
hold.

## 6. Seen while modelling

Besides the violation runs, reading the code line by line showed these; the
models do what the code does.

* System: the health check answers yes although a subsystem was not created
  (`system.c:478`, 524-542).
* Transactions: intention locks conflict with nothing (`transaction.c:242`).
  Ending a transaction that holds a lock frees the node on both lists, twice
  (136, 143).  The second lock of a transaction makes the manager's list cyclic,
  and the next request does not return (283, 294).  Level 0, READ UNCOMMITTED,
  is replaced by the default (92).
* Storage: a rollback changes nothing in the row engine (`row_engine.c:451-457`)
  nor in the others.  Rows inserted through the manager are counted twice
  (`storage_engine.c:189`, 296).  A drop frees a table's data twice (140,
  519-540) and destruction uses freed tables (423-433).  A failed creation leaves
  a table with its engine (88-90).  The memory engine never shrinks
  (`memory_engine.c:574` against 69), and a batch inserted when the count of rows has
  gone round doubles the capacity until it is 0, for ever (304-306), a call that does
  not come back and so is no step of the model.  In the column engine a failed insertion
  uses up an id (`column_engine.c:316`), a row of NULLs looks deleted (749-755)
  and a failed update leaves a row half new (545).
* Memory pool: `realloc` may move the region under the pointers handed out
  (`memory_pool.c:85`, 141).
* LSM tree: a deletion is an empty value that is never found first
  (`lsm_tree.c:58`, 280), two flushes in one second write one file (74-86), and what
  the first wrote is gone.  A search reads 1 MB of a file that may have ten (142-148),
  and takes the entry in which the bytes end for a whole one: it copies key and value
  from beyond its buffer.  An entry larger than a memtable turns out the active one,
  however empty, and is refused after that (230-247).
* Binary log: a rotation that fails frees the file's name, which destruction frees
  again (`replication.c:533-536`, 430-432); a failed start leaves the manager
  running (134-143).  A rotation whose `realloc` fails loses the list while its count
  stays (521-524), and the next one takes names from memory that nobody wrote.
  `sync_binlog` is false by default (411), so that events reported as written may
  still be in the buffer of the C library; `Binlog` has it set.
* Metadata: a dropped name is never free again (`metadata.c:623-629`), and since
  names are unique over all tables the clone of a table gets no columns.
  `metadata_rename_table` answers false unless a table of the new name exists,
  whose data it then frees; saving clears `dirty` whatever failed (595-614).
  An update frees data that a clone or the old name may still refer to (685).
  The file of an object with a schema lies two directories down, of which `mkdir`
  makes the last one only (11-14, 49, 376): its save fails unless the upper one is
  there.
* LSM tree: nothing reads the SSTables that are there when a tree is
  created again on its directory (`lsm_tree.c:175`), so that the model of the tree
  ends with its destruction.
* Network: a server started while it runs replaces its listening socket, and the
  old one keeps the port until the process ends.  Closing lowers the count whether
  or not the connection was listed (`network.c:276-314`); the model closes
  connections that are listed, which is all the interface hands out.
* Authentication: a lockout is to last a number of seconds (`authentication.h:38`,
  five minutes by default, `authentication.c:123`, `config.c:457`), but neither that
  number nor the time of the last failure is ever read, so that it lasts until the
  account is reopened, and the count of failures stays even then, so that the next
  wrong password locks again.  A record of failures stays when its user is deleted
  and counts for the next of that name (`authentication.c:328`), as roles and grants do.
* Authorization: a grant or a revocation without a scope name takes the first record
  of the level, whatever its name; one with a name that comes to a record without a
  name calls `strcmp` with NULL (`authorization.c:268`, 312).
* Configuration: the type of an item is guessed from its text when it is loaded
  (`config.c:184`): the default `127.0.0.1` of an address, saved and loaded, comes
  back as a number.  The result of a save is not looked at (253), and on a full
  device the file may end inside a line, whose value is then read as another.  Eight
  defaults are strings given as NULL (512-566), which `config_set_string` hands to
  `strdup` (376, 393): where that returns NULL the model has a value for it, where it
  crashes `config_init` does not return.
* Backup: names have the resolution of a second (`backup.c:262`), no data is
  written; a `realloc` that fails loses the list while its count stays (194, 300, 413).
* Monitoring: behind the header fewer than 1024 bytes remain, so that the export doubles
  its buffer at the first statistic and goes on in the upper half; the text ends with
  the header (`monitoring.c:349-357`).
* Resource control: the limit of the disk, 100 GB, is computed in `int` and
  overflows (`resource.c:27`).
* Optimizer: statistics are appended and the first that fits is found, the oldest
  (`optimizer.c:304`, 314-321).
* Procedures: an object created without a schema, parameters or a return type has
  those of whatever was in its slot (`procedure.c:92-116`), which a drop may have freed or
  which another object has too; a drop or a search then uses freed memory.
  `PartsOwned` and `SearchesExact` speak of objects created with all their parts.
* R tree: an allocation that fails after a split destroys the half moved out
  (`r_tree.c:190`); `r_tree_delete` answers false and does nothing.
* B+ tree: the root is made before `node_capacity` is set (303-315); the first
  split of a leaf counts its new entries twice and leaves a key that is NULL.

## 7. Not modelled

* The client: every command but EXIT and QUIT leaves its text or its arguments
  unset and has both freed (`client.c:269-270`), so that its behaviour is undefined
  from the first on; the connection it has is `NetworkServer`'s.
* Resource control, a table that nothing in the repository consults or updates; the
  optimizer, cost formulas over a list that only grows; the path utilities.
* The B+ tree after its first split: the behaviour is undefined from there on, and
  a model of the merges would be of states no execution reaches in a defined way.
* Sending and receiving on connections, which change only `last_activity`, read by
  nothing; what is sent; the protocol, which the repository does not have.
* Layout and wording of log lines, audit records, errors and descriptions; salt and
  hash of passwords; contents of SQL.
* The moving of the memory pool's region by `realloc`, under pointers handed out
  (`memory_pool.c:85`): blocks are offsets in the model.  The data of a table that
  directory and engine list both own is modelled as a heap in `StorageManager` up
  to the first double free (`storage_engine.c:140`).
* Operations that are empty in the code: checkpoint of the row engine, compaction
  of the LSM tree, free and defragment of the pool, loading of the catalogue,
  sending and reading of binlog events, execution, loading and saving of procedures.
