-------------------------- MODULE MCClientContext --------------------------
(***************************************************************************)
(* What a client has running, for TLC: MasterInquire (finding the primary), *)
(* ClientContext (connect, the background tasks, close), ConfigRefresher   *)
(* (the switches those tasks keep current), WorkerRouter (the shared       *)
(* router, the readers' views of it and the writers' choice),              *)
(* FailedWorkers (the marks of failed workers and their counter),          *)
(* BlockReader (one read stream) and Registry (the metrics).  Each         *)
(* behaviour runs one of them, named by on; the others stay in one of      *)
(* their initial states or are off.                                        *)
(***************************************************************************)
EXTENDS MasterInquire

CONSTANTS Closers, MaxCount, MaxChanges, MaxFaults, MAX_RPC_RETRIES,
          Askers, Task, MaxEdits,
          Bytes, ChunkBytes, prefetch_window, buffer_messages, ack_interval_bytes,
          ack_interval_chunks, RequestCap, MaxEmpty, MaxTrouble,
          Workers, Host, LocalNames, Interfaces, Points, VNodes, Targets, Lists,
          Locations, Count, CheckCount, Replicas, MinReplicas, Readers,
          Marked, Shard, Users, Wrap,
          Threads, Metrics, MaxIncs

VARIABLES on,
          api, closed, task, handles, flush, pushClosed, closer, workers, metric,
          beat, changes, faults,
          file, switch, expired, owner, step, seen, read, edits,
          source, at, received, request_tx, acks, since, wire, chan, drainer,
          worker, outcome, empties, troubles,
          master, list_changes, ids, hash_ring, local_worker_id, refreshing,
          fresh, view, failed_workers, reading, tried, chosen,
          failed, stale, failed_count, marker, doing, removed,
          counters, value, phase, metric_of, arc, counted

context == INSTANCE ClientContext
switches == INSTANCE ConfigRefresher WITH Callers <- Askers, pc <- step
reader == INSTANCE BlockReader WITH task <- drainer
router == INSTANCE WorkerRouter
    WITH changes <- list_changes, workers <- ids, refresher <- refreshing, pc <- reading
marks == INSTANCE FailedWorkers
    WITH Addresses <- Marked, expired <- stale, owner <- marker, at <- doing
metrics == INSTANCE Registry

contextVars == <<api, closed, task, handles, flush, pushClosed, closer, workers,
                 metric, beat, changes, faults>>
refresherVars == <<file, switch, expired, owner, step, seen, read, edits>>
readVars == <<source, at, received, request_tx, acks, since, wire, chan, drainer,
              worker, outcome, empties, troubles>>
routerVars == <<master, list_changes, ids, hash_ring, local_worker_id, refreshing,
                fresh, view, failed_workers, reading, tried, chosen>>
marksVars == <<failed, stale, failed_count, marker, doing, removed>>
metricsVars == <<counters, value, phase, metric_of, arc, counted>>
routing == <<routerVars, marksVars, metricsVars>>
all == <<on, vars, contextVars, refresherVars, readVars, routing>>

\* The values of its variables while BlockReader does not run.
readOff ==
    /\ source = 0 /\ at = 0 /\ received = 0 /\ request_tx = 0 /\ acks = 0
    /\ since = 0 /\ wire = 0 /\ chan = 0 /\ drainer = 0 /\ worker = 0
    /\ outcome = 0 /\ empties = 0 /\ troubles = 0

\* The values of its variables while WorkerRouter does not run.
routerOff ==
    /\ master = 0 /\ list_changes = 0 /\ ids = 0 /\ hash_ring = 0
    /\ local_worker_id = 0 /\ refreshing = 0 /\ fresh = 0 /\ view = 0
    /\ failed_workers = 0 /\ reading = 0 /\ tried = 0 /\ chosen = 0

\* The values of its variables while FailedWorkers does not run.
marksOff ==
    /\ failed = 0 /\ stale = 0 /\ failed_count = 0 /\ marker = 0 /\ doing = 0
    /\ removed = 0

\* The values of its variables while Registry does not run.
metricsOff ==
    /\ counters = 0 /\ value = 0 /\ phase = 0 /\ metric_of = 0 /\ arc = 0
    /\ counted = 0

ASSUME ClientAssumption ==
    /\ context!ContextAssumption /\ switches!RefresherAssumption
    /\ reader!ReaderAssumption /\ metrics!RegistryAssumption
    /\ router!RouterAssumption /\ marks!MarksAssumption

(* Workers 1 and 2 share a host; worker 3 is on this machine. *)
TwoHosts == [w \in 1 .. 3 |-> IF w = 3 THEN "here" ELSE "there"]
TwoShards == [a \in {"a1", "a2", "a3"} |-> IF a = "a3" THEN "second" ELSE "first"]
Ring == [w \in 1 .. 3 |-> CASE w = 1 -> {0, 3} [] w = 2 -> {1, 3} [] w = 3 -> {2}]
(* The attempts reach every worker, the last one late. *)
Falls == <<3, 3, 2, 1, 0>>
SomeLists == {<<>>, <<1, 2, 3>>, <<1, 3>>}
SomeLocations == {<<>>, <<2, 1>>}

SuiteInit ==
    /\ on \in {"inquire", "context", "refresher", "reader", "router", "marks", "metrics"}
    /\ Init /\ (on # "inquire" => primary = 1)
    /\ context!Init
    /\ switches!Init
    /\ on # "refresher" => file = switch /\ file.enabled /\ file.cosranger
    /\ IF on = "reader" THEN reader!Init ELSE readOff
    /\ IF on = "router" THEN router!Init ELSE routerOff
    /\ IF on = "marks" THEN marks!Init ELSE marksOff
    /\ IF on = "metrics" THEN metrics!Init ELSE metricsOff

\* A context that was dropped or never connected does nothing more.
Rest == on = "context" /\ api \in {"failed", "dropped"} /\ UNCHANGED all

SuiteNext ==
    \/ on = "inquire" /\ Next /\ UNCHANGED <<on, contextVars, refresherVars, readVars, routing>>
    \/ on = "context" /\ context!Next /\ UNCHANGED <<on, vars, refresherVars, readVars, routing>>
    \/ on = "refresher" /\ switches!Next /\ UNCHANGED <<on, vars, contextVars, readVars, routing>>
    \/ on = "reader" /\ reader!Next /\ UNCHANGED <<on, vars, contextVars, refresherVars, routing>>
    \/ on = "router" /\ router!Next
       /\ UNCHANGED <<on, vars, contextVars, refresherVars, readVars, marksVars, metricsVars>>
    \/ on = "marks" /\ marks!Next
       /\ UNCHANGED <<on, vars, contextVars, refresherVars, readVars, routerVars, metricsVars>>
    \/ on = "metrics" /\ metrics!Next
       /\ UNCHANGED <<on, vars, contextVars, refresherVars, readVars, routerVars, marksVars>>
    \/ Rest

\* The fairness of each component; the refresher's timer would run in every
\* state, so its conditions name the behaviours it is part of.
SuiteSpec ==
    /\ SuiteInit /\ [][SuiteNext]_all
    /\ Fairness
    /\ context!Fairness
    /\ WF_refresherVars(on = "refresher" /\ switches!Expire)
    /\ WF_refresherVars(on = "refresher" /\ switches!Step(Task))
    /\ \A c \in Askers \ {Task} : WF_refresherVars(on = "refresher" /\ switches!Reload(c))
    /\ WF_readVars(on = "reader" /\ reader!ClientStep)
    /\ WF_readVars(on = "reader" /\ reader!drain)
    /\ WF_readVars(on = "reader" /\ reader!WorkerStep)
    /\ WF_routerVars(on = "router" /\ router!Refresher)
    /\ SF_routerVars(on = "router" /\ router!RefreshWorkers)

----------------------------------------------------------------------------
\* Type correctness, and: every increment of a metrics counter is in exactly
\* one heartbeat (ClientContext), and callers that race to create a counter
\* count in one (Registry); one caller reloads the switches per expiry and
\* none beside another (ConfigRefresher).
CountersConserved ==
    /\ context!TypeOK /\ context!CountersConserved
    /\ on = "metrics" => metrics!TypeOK /\ metrics!OneCounter
    /\ switches!TypeOK /\ switches!OneReload

\* The background tasks leave after close, drop or a failed connect, the push
\* loop comes to rest once it is told to stop, and every call of close()
\* returns (ClientContext).
ContextCloses == context!TasksEnd /\ context!PushEnds /\ context!CloseReturns

\* What a counter shows reaches the master while calls succeed, and the
\* router's worker list follows the cluster's (ClientContext).
NewsArrives == context!EventuallyReported /\ context!RouterFollowsCluster

\* A read is whole or fails, and the end is never taken from a dead drain task
\* (BlockReader).
NeverShort == on = "reader" => reader!TypeOK /\ reader!NeverShort

\* Every call on a read stream returns, and a reader that is gone leaves the
\* block unlocked, however it went (BlockReader); a change of the worker list
\* that lasts reaches list and ring of the router (WorkerRouter); and an edit
\* of the properties file reaches both switches (ConfigRefresher).
Settled ==
    /\ on = "reader" => reader!Settled
    /\ on = "router" => router!Followed
    /\ on = "refresher" => switches!Follows
Settles == (~Settled) ~> Settled

\* Between two refreshes the parts of the router belong together; a chosen
\* worker is in the list, and failed only if the attempts reach no other; the
\* replicas of a block are on different hosts; after a failed connection a
\* reader turns to a worker that has not failed; and a block is read from a
\* worker known to hold it (WorkerRouter).  A failure mark lasts for its TTL,
\* and the counter of the marks is exact whenever no call is under way
\* (FailedWorkers).
RoutesSound ==
    /\ [](on = "router" => /\ router!TypeOK /\ router!RouterPublished
                           /\ router!SelectedIsListed /\ router!ReplicasApart)
    /\ [][on = "router" => router!TurnsElsewhere /\ router!FromHolder]_routerVars
    /\ [](on = "marks" => marks!TypeOK /\ marks!CountExact)
    /\ [][on = "marks" => marks!MarkedUntilExpired]_marksVars
=============================================================================
