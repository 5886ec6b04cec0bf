----------------------------- MODULE Monitoring -----------------------------
(****************************************************************************)
(* monitoring/monitoring.c: counters, gauges and timers, each under a name. *)
(* The average of a timer is its sum over its count at every assignment and *)
(* is left out, with it uptime and what is printed.  A registration whose   *)
(* allocation fails leaves everything as it is, and is not seen.            *)
(****************************************************************************)
EXTENDS Integers, Sequences, SequencesExt, FiniteSetsExt

CONSTANTS
    Stat,         \* names
    CountName,    \* "system.stats_count"
    Duration,     \* what is added, set or measured
    MaxStats,     \* max_stats
    MaxMeasured   \* bound: values of one statistic

MonitoringAssumption ==
    /\ CountName \in Stat /\ Duration \subseteq Nat
    /\ MaxStats \in Nat \ {0} /\ MaxMeasured \in Nat

VARIABLES
    enabled,
    stats,     \* the list, in the order of registration
    measured   \* history: the values of each name since it was registered or reset

monitoringVars == <<enabled, stats, measured>>

Kind == {"counter", "gauge", "timer"}

\* What a statistic of a kind starts with: sum is counter's and gauge's value too.
Zero == [sum |-> 0, count |-> 0, least |-> 0, most |-> 0]

MonitoringTypeOK ==
    /\ enabled \in BOOLEAN
    /\ stats \in Seq([name : Stat, kind : Kind, value : [DOMAIN Zero -> Nat]])
    /\ measured \in [Stat -> Seq(Nat)]

\* find_stat, 0 when there is none.
FindStat(n) == SelectInSeq(stats, LAMBDA s : s.name = n)

\* monitoring_init: of the core metrics the one that collecting needs.
MonitoringInit ==
    /\ enabled \in BOOLEAN
    /\ stats = IF enabled THEN <<[name |-> CountName, kind |-> "gauge", value |-> Zero]>>
               ELSE <<>>
    /\ measured = [n \in Stat |-> <<>>]

RegisterStat(n, kind) ==
    /\ enabled
    /\ FindStat(n) = 0 /\ Len(stats) < MaxStats
    /\ stats' = Append(stats, [name |-> n, kind |-> kind, value |-> Zero])
    /\ measured' = [measured EXCEPT ![n] = <<>>]
    /\ UNCHANGED enabled

\* Slip: a timer's first value is not told from the others.
AddedPlain(kind, old, v) ==
    CASE kind = "counter" -> [old EXCEPT !.sum = @ + v]
      [] kind = "gauge" -> [old EXCEPT !.sum = v]
      [] kind = "timer" ->
           [sum |-> old.sum + v, count |-> old.count + 1,
            least |-> IF v < old.least THEN v ELSE old.least,
            most |-> IF v > old.most THEN v ELSE old.most]

\* monitoring_increment_counter, _set_gauge and _record_timer.
Added(kind, old, v) ==
    CASE kind = "counter" -> [old EXCEPT !.sum = @ + v]
      [] kind = "gauge" -> [old EXCEPT !.sum = v]
      [] kind = "timer" ->
           [sum |-> old.sum + v, count |-> old.count + 1,
            least |-> IF old.count = 0 \/ v < old.least THEN v ELSE old.least,
            most |-> IF v > old.most THEN v ELSE old.most]

\* Each of the three finds the name and leaves a statistic of another kind alone.
Measure(n, kind, v) ==
    LET i == FindStat(n)
    IN  /\ enabled
        /\ i # 0 /\ stats[i].kind = kind
        /\ Len(measured[n]) < MaxMeasured
        /\ stats' = [stats EXCEPT ![i].value = Added(kind, @, v)]
        /\ measured' = [measured EXCEPT ![n] = Append(@, v)]
        /\ UNCHANGED enabled

\* monitoring_collect, for the number of the statistics.
Collect == Measure(CountName, "gauge", Len(stats))

ResetStats ==
    /\ enabled
    /\ stats' = [i \in DOMAIN stats |-> [stats[i] EXCEPT !.value = Zero]]
    /\ measured' = [n \in Stat |-> <<>>]
    /\ UNCHANGED enabled

\* monitoring_enable, monitoring_disable
SwitchMonitoring == enabled' \in BOOLEAN /\ UNCHANGED <<stats, measured>>

MonitoringNext ==
    \/ \E n \in Stat, kind \in Kind : RegisterStat(n, kind)
    \/ \E n \in Stat, kind \in Kind, v \in Duration : Measure(n, kind, v)
    \/ Collect \/ ResetStats \/ SwitchMonitoring

MonitoringSpec == MonitoringInit /\ [][MonitoringNext]_monitoringVars

-----------------------------------------------------------------------------
(* Properties.                                                              *)

Total(values) == FoldLeft(LAMBDA sum, v : sum + v, 0, values)

\* No name is registered twice, also not as another kind, and a statistic sums up
\* what was measured since it was registered or reset, through resets between two
\* values and times in which nothing is recorded (monitoring.c:131-275, 387-411).
StatisticsExact ==
    /\ \A i, j \in DOMAIN stats : stats[i].name = stats[j].name => i = j
    /\ Len(stats) <= MaxStats
    /\ \A i \in DOMAIN stats :
         LET values == measured[stats[i].name]
             value == stats[i].value
         IN  CASE stats[i].kind = "counter" -> value.sum = Total(values)
               [] stats[i].kind = "gauge" ->
                    value.sum = IF values = <<>> THEN 0 ELSE Last(values)
               [] stats[i].kind = "timer" ->
                    /\ value.count = Len(values) /\ value.sum = Total(values)
                    /\ values # <<>> => /\ value.least = Min(ToSet(values))
                                        /\ value.most = Max(ToSet(values))
=============================================================================
