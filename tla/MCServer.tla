------------------------------ MODULE MCServer ------------------------------
(****************************************************************************)
(* The services of the server process for TLC: the memory pool, the cache,  *)
(* the network, the users with their privileges, the list of errors, the    *)
(* statistics, and the stored procedures with the triggers.  None calls     *)
(* another, so that one run does for them: the initial states choose which  *)
(* is examined.  All the cache asks of the pool is that an allocation       *)
(* succeeds or fails, and MemoryCache lets each do either.  All that grants *)
(* ask of an account is whether there is one, so that the two are examined  *)
(* one at a time: privileges while users come and go, logins without them.  *)
(* Among the values of the cache are a small one, one that takes two thirds *)
(* of it and one that never fits; among the scopes are two of databases,    *)
(* one of them without a name.                                              *)
(****************************************************************************)
EXTENDS MemoryPool, NetworkServer, Authorization, ErrorQueue

CONSTANTS
    Key, Value, SizeOf, Capacity, MaxItems, MaxCount, MaxTime,  \* of MemoryCache
    Stat, CountName, Duration, MaxStats, MaxMeasured,           \* of Monitoring
    ObjectName, Schema, NoSchema, MaxObjects, MaxCreated        \* of Procedures

VARIABLES
    subject,                                    \* what is examined
    items, cacheUsed, itemCount, now, latest,   \* of MemoryCache
    enabled, stats, measured,                   \* of Monitoring
    slots, inUse, schemaOf, liveSchemas, liveParts, process,
    created, whole, there                       \* of Procedures

MCValue == {"small", "medium", "large"}
MCSizeOf == [v \in MCValue |-> CASE v = "small" -> 1 [] v = "medium" -> 2 [] OTHER -> 4]

MCLevel == 0..3
MCScope ==
    {[level |-> 0, name |-> "none"], [level |-> 1, name |-> "none"],
     [level |-> 1, name |-> "d"], [level |-> 2, name |-> "d.t"]}

Cache == INSTANCE MemoryCache WITH used <- cacheUsed, count <- itemCount

Monitor == INSTANCE Monitoring
Procs == INSTANCE Procedures

ASSUME ServerAssumption ==
       /\ Cache!CacheAssumption /\ PoolAssumption /\ NetworkAssumption
       /\ AuthorizationAssumption /\ ErrorAssumption
       /\ Monitor!MonitoringAssumption /\ Procs!ProceduresAssumption

cacheVars == <<items, cacheUsed, itemCount, now, latest>>
monitoringVars == <<enabled, stats, measured>>
procedureVars ==
    <<slots, inUse, schemaOf, liveSchemas, liveParts, process, created, whole, there>>
registerVars == <<monitoringVars, procedureVars>>

MCInit ==
    /\ subject \in {"pool", "cache", "network", "accounts", "privileges", "errors",
                   "monitoring", "procedures"}
    /\ Cache!Init /\ PoolInit /\ NetworkInit /\ Init /\ ErrorInit
    /\ Monitor!MonitoringInit /\ Procs!ProceduresInit
    /\ subject # "monitoring" => enabled
    /\ subject # "procedures" => slots["procedure"][1].schema = Procs!Null

MCNext ==
    \/ /\ subject = "cache" /\ Cache!Next
       /\ UNCHANGED <<subject, poolVars, networkVars, securityVars, errorVars, registerVars>>
    \/ /\ subject = "pool" /\ PoolNext
       /\ UNCHANGED <<subject, cacheVars, networkVars, securityVars, errorVars, registerVars>>
    \/ /\ subject = "network" /\ NetworkNext
       /\ UNCHANGED <<subject, cacheVars, poolVars, securityVars, errorVars, registerVars>>
    \/ /\ subject \in {"accounts", "privileges"} /\ Next
       /\ subject = "accounts" => UNCHANGED authzVars
       /\ subject = "privileges" =>
             UNCHANGED <<password, recorded, failed, lastFailed, clock, wrong>>
       /\ UNCHANGED <<subject, cacheVars, poolVars, networkVars, errorVars, registerVars>>
    \/ /\ subject = "errors" /\ ErrorNext
       /\ UNCHANGED <<subject, cacheVars, poolVars, networkVars, securityVars, registerVars>>
    \/ /\ subject = "monitoring" /\ Monitor!MonitoringNext
       /\ UNCHANGED <<subject, cacheVars, poolVars, networkVars, securityVars, errorVars,
                      procedureVars>>
    \/ /\ subject = "procedures" /\ Procs!ProceduresNext
       /\ UNCHANGED <<subject, cacheVars, poolVars, networkVars, securityVars, errorVars,
                      monitoringVars>>

MCSpec ==
    MCInit
    /\ [][MCNext]_<<subject, cacheVars, poolVars, networkVars, securityVars, errorVars,
                    registerVars>>

-----------------------------------------------------------------------------
(* Properties.  PoolSound, SocketsAccounted, LockoutHolds, GrantsKept and   *)
(* LastErrorsKept are stated in their modules.                              *)

\* The state of each part is of its type.
ServerTypeOK ==
    /\ Cache!TypeOK /\ PoolTypeOK /\ NetworkTypeOK /\ TypeOK /\ ErrorTypeOK
    /\ Monitor!MonitoringTypeOK /\ Procs!ProceduresTypeOK

\* MemoryCache: sizes and number of the items are accounted for, and a key has
\* the value last stored, through evictions and sets that fail midway
\* (memory_cache.c:128-130, 184-213, 257-259, 335-337).
CacheSound == Cache!AccountsExact /\ Cache!ServesLatestValue

\* MemoryCache: what a set evicts was used no more often than anything it keeps
\* (memory_cache.c:76-133).
EvictsLeastUsed == Cache!EvictsLeastUsed

\* Monitoring: a statistic sums up what was measured since its registration or a
\* reset (monitoring.c:131-275, 387-411).  Procedures: as long as every object is
\* created with all its parts, no pointer left in a slot is used, and a search finds
\* what was created and not dropped (procedure.c:74-239).
RegistersSound == Monitor!StatisticsExact /\ Procs!PartsOwned /\ Procs!SearchesExact
=============================================================================
