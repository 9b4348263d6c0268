------------------------------ MODULE Registry ------------------------------
(***************************************************************************)
(* The metrics registry (src/metrics/registry.rs): one map of named        *)
(* counters and one of gauges for the process, filled by whichever caller  *)
(* asks for a name first. counter() and gauge() are the same code over     *)
(* different maps; the map's own calls are atomic. An Arc is the number of *)
(* its allocation.                                                         *)
(***************************************************************************)
EXTENDS Naturals, Sequences, FiniteSets

CONSTANTS Threads, Metrics,
          MaxIncs      \* bound: increments

RegistryAssumption == Metrics # {}

VARIABLES counters,    \* the map: metric -> Arc, 0 when absent
          value,       \* the value behind each Arc, in order of allocation
          phase,       \* thread -> where its call is
          metric_of,   \* thread -> the metric of its call
          arc,         \* thread -> the Arc it holds, 0 for none
          counted      \* the increments so far, with their metric (ghost)

regVars == <<counters, value, phase, metric_of, arc, counted>>

Init ==
    /\ counters = [n \in Metrics |-> 0] /\ value = <<>>
    /\ phase = [t \in Threads |-> "idle"]
    /\ metric_of = [t \in Threads |-> CHOOSE n \in Metrics : TRUE]
    /\ arc = [t \in Threads |-> 0] /\ counted = <<>>

(* The fast path finds the entry; else the caller allocates one of its own. *)
counter(t, n) ==
    /\ phase[t] = "idle" /\ Len(counted) < MaxIncs
    /\ metric_of' = [metric_of EXCEPT ![t] = n]
    /\ \/ /\ counters[n] # 0
          /\ arc' = [arc EXCEPT ![t] = counters[n]]
          /\ phase' = [phase EXCEPT ![t] = "has"] /\ UNCHANGED value
       \/ /\ counters[n] = 0
          /\ value' = Append(value, 0)
          /\ arc' = [arc EXCEPT ![t] = Len(value')]
          /\ phase' = [phase EXCEPT ![t] = "insert"]
    /\ UNCHANGED <<counters, counted>>

(* An entry that is there already stays. *)
or_insert(t) ==
    /\ phase[t] = "insert"
    /\ counters' = IF counters[metric_of[t]] = 0
                   THEN [counters EXCEPT ![metric_of[t]] = arc[t]] ELSE counters
    /\ phase' = [phase EXCEPT ![t] = "get"]
    /\ UNCHANGED <<value, metric_of, arc, counted>>

(* The caller takes what the map holds now. *)
get(t) ==
    /\ phase[t] = "get"
    /\ arc' = [arc EXCEPT ![t] = counters[metric_of[t]]]
    /\ phase' = [phase EXCEPT ![t] = "has"]
    /\ UNCHANGED <<counters, value, metric_of, counted>>

inc(t) ==
    /\ phase[t] = "has"
    /\ value' = [value EXCEPT ![arc[t]] = @ + 1]
    /\ counted' = Append(counted, metric_of[t])
    /\ phase' = [phase EXCEPT ![t] = "idle"] /\ arc' = [arc EXCEPT ![t] = 0]
    /\ UNCHANGED <<counters, metric_of>>

Next ==
    \/ \E t \in Threads :
        \/ \E n \in Metrics : counter(t, n)
        \/ or_insert(t) \/ get(t) \/ inc(t)
    \/ Len(counted) >= MaxIncs /\ UNCHANGED regVars

Spec == Init /\ [][Next]_regVars

TypeOK ==
    /\ counters \in [Metrics -> 0 .. Len(value)]
    /\ phase \in [Threads -> {"idle", "insert", "get", "has"}]
    /\ arc \in [Threads -> 0 .. Len(value)]

\* Callers that race to create a metric end up with one counter: every
\* increment is in the value the registry holds for its name, and a caller
\* past counter() holds that counter (counter, gauge, Counter::inc).
OneCounter ==
    /\ \A t \in Threads : phase[t] = "has" => arc[t] = counters[metric_of[t]]
    /\ \A n \in Metrics :
          Cardinality({i \in DOMAIN counted : counted[i] = n}) =
              IF counters[n] = 0 THEN 0 ELSE value[counters[n]]
=============================================================================
