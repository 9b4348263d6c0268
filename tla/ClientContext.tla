--------------------------- MODULE ClientContext ---------------------------
(***************************************************************************)
(* FileSystemContext (src/context.rs): connect, the four background tasks  *)
(* it starts (worker-list refresh, configuration refresh, metrics          *)
(* heartbeat, Pushgateway push), close by several callers, and drop.       *)
(*                                                                         *)
(* One step is the code between two awaits.  The process-global metrics    *)
(* registry is one counter; the cluster's worker list is a version number. *)
(* A failed call, an elapsed join timeout and a disabled feature are       *)
(* choices of the step they happen in.                                     *)
(***************************************************************************)
EXTENDS Integers

CONSTANTS Closers,          \* the tasks that call close()
          MaxCount,         \* bound: increments of the metrics counter
          MaxChanges,         \* bound: changes of the cluster's worker list
          MaxFaults,        \* bound: failed or timed-out calls
          MAX_RPC_RETRIES   \* metrics_master.rs

ContextAssumption ==
    MaxCount \in Nat /\ MaxFaults \in Nat /\ MAX_RPC_RETRIES \in Nat

VARIABLES api,       \* where connect() is; then "open", "failed" or "dropped"
          closed,    \* the flag shared by the context and its tasks
          task,      \* the program counter of every background task
          handles,   \* the tasks whose handle the context still holds
          flush,     \* the one-slot flush channels of the heartbeat and push tasks
          pushClosed,\* PushgatewayTask.closed
          closer,    \* where each caller of close() is
          workers,   \* the worker list: the cluster's and the router's version
          metric,    \* the counter, the reporter's baseline, the master's total
          beat,      \* the payload of the beat in flight and its attempt
          changes,     \* worker-list changes so far
          faults     \* failures so far

vars == <<api, closed, task, handles, flush, pushClosed, closer, workers,
          metric, beat, changes, faults>>

ctxVars == <<api, closed, task, handles, flush, pushClosed, closer>>

Tasks == {"worker", "config", "beat", "push"}
NoBeat == [payload |-> 0, attempt |-> 0]

\* A call may fail while the failure budget lasts.
Fault == faults < MaxFaults /\ faults' = faults + 1

Init ==
    /\ api = "new" /\ closed = FALSE /\ pushClosed = FALSE
    /\ task = [t \in Tasks |-> "none"] /\ handles = {}
    /\ flush = [t \in {"beat", "push"} |-> 0]
    /\ closer = [c \in Closers |-> "idle"]
    /\ workers = [cluster |-> 1, router |-> 0]
    /\ metric = [count |-> 0, base |-> 0, master |-> 0]
    /\ beat = NoBeat
    /\ changes = 0 /\ faults = 0

----------------------------------------------------------------------------
(* connect *)

\* WorkerManagerClient::connect_with_inquire, its first list call or the
\* list's contents fail: the worker manager is dropped for good.
no_worker_manager == api' = "noWorkers" /\ Fault /\ UNCHANGED workers

\* The master pool is required.
connect ==
    /\ api = "new"
    /\ \/ api' = "failed" /\ Fault /\ UNCHANGED workers
       \/ no_worker_manager
       \/ /\ api' = "tasks"
          /\ workers' = [workers EXCEPT !.router = workers.cluster]
          /\ UNCHANGED faults
    /\ UNCHANGED <<closed, task, handles, flush, pushClosed, closer, metric, beat, changes>>

\* start_worker_refresh_task: skipped without a worker manager.
start_worker_refresh_task ==
    /\ api \in {"tasks", "noWorkers"}
    /\ api' = "config"
    /\ IF api = "tasks"
       THEN /\ task' = [task EXCEPT !["worker"] = "sleep"]
            /\ handles' = handles \cup {"worker"}
       ELSE UNCHANGED <<task, handles>>
    /\ UNCHANGED <<closed, flush, pushClosed, closer, workers, metric,
                   beat, changes, faults>>

start_config_refresh_task ==
    /\ api = "config"
    /\ api' = "beat"
    /\ task' = [task EXCEPT !["config"] = "eager"]
    /\ handles' = handles \cup {"config"}
    /\ UNCHANGED <<closed, flush, pushClosed, closer, workers, metric,
                   beat, changes, faults>>

\* abort() of the refresh tasks whose handles are held: each is suspended at
\* an await, where it is dropped.
Aborted(t) == [t EXCEPT !["worker"] = IF "worker" \in handles THEN "exited" ELSE @,
                        !["config"] = IF "config" \in handles THEN "exited" ELSE @]

\* Drop of the context, with the drops of the heartbeat and push tasks that
\* are still its own: the flags are set and one flush is left in each channel.
Drop ==
    /\ closed' = TRUE
    /\ task' = Aborted(task)
    /\ pushClosed' = (pushClosed \/ "push" \in handles)
    /\ flush' = [t \in {"beat", "push"} |-> IF t \in handles THEN 1 ELSE flush[t]]
    /\ handles' = {}

\* MetricsMasterClient::connect_with_inquire: discovery, the channel or the
\* handshake fails; connect() returns the error and drops the context.
connect_with_inquire == api' = "failed" /\ Drop /\ Fault

\* The heartbeat: off when metrics are disabled.
start_metrics_heartbeat_task ==
    /\ api = "beat"
    /\ \/ api' = "push" /\ UNCHANGED <<closed, task, handles, flush, pushClosed, faults>>
       \/ /\ api' = "push"
          /\ task' = [task EXCEPT !["beat"] = "select"]
          /\ handles' = handles \cup {"beat"}
          /\ UNCHANGED <<closed, flush, pushClosed, faults>>
       \/ connect_with_inquire
    /\ UNCHANGED <<closer, workers, metric, beat, changes>>

start_pushgateway_task ==
    /\ api = "push"
    /\ api' = "open"
    /\ \/ UNCHANGED <<task, handles>>
       \/ /\ task' = [task EXCEPT !["push"] = "select"]
          /\ handles' = handles \cup {"push"}
    /\ UNCHANGED <<closed, flush, pushClosed, closer, workers, metric,
                   beat, changes, faults>>

----------------------------------------------------------------------------
(* The worker-list refresh task *)

WorkerWake ==
    /\ task["worker"] = "sleep"
    /\ task' = [task EXCEPT !["worker"] = IF closed THEN "exited" ELSE "list"]
    /\ UNCHANGED <<api, closed, handles, flush, pushClosed, closer, workers,
                   metric, beat, changes, faults>>

\* The answer of get_worker_info_list replaces the router's list; a failed
\* call keeps the stale one.
refresh_workers ==
    /\ task["worker"] = "list"
    /\ task' = [task EXCEPT !["worker"] = "sleep"]
    /\ \/ workers' = [workers EXCEPT !.router = workers.cluster] /\ UNCHANGED faults
       \/ Fault /\ UNCHANGED workers
    /\ UNCHANGED <<api, closed, handles, flush, pushClosed, closer, metric, beat, changes>>

----------------------------------------------------------------------------
(* The configuration refresh task: an eager call of the ConfigRefresher,     *)
(* then one per wake (module ConfigRefresher)                               *)

ConfigWake ==
    /\ task["config"] \in {"eager", "sleep"}
    /\ task' = [task EXCEPT !["config"] =
                   IF task["config"] = "sleep" /\ closed THEN "exited" ELSE "sleep"]
    /\ UNCHANGED <<api, closed, handles, flush, pushClosed, closer, workers,
                   metric, beat, changes, faults>>

----------------------------------------------------------------------------
(* The heartbeat task *)

\* Mutant: the loop leaves only on a flush signal.
AfterBeatFlushed == IF closed /\ flush["beat"] = 1 THEN "exited" ELSE "select"

\* A beat ends: the loop exits when the flag is set, otherwise it waits.
AfterBeat == IF closed THEN "exited" ELSE "select"

\* Mutant: the baseline stays where it was.
snapshotKept ==
    /\ beat' = [payload |-> metric.count - metric.base, attempt |-> 0]
    /\ UNCHANGED metric

\* ClientMetricsReporter::snapshot: the difference to the baseline, which it
\* moves to the value read.
snapshot ==
    /\ metric' = [metric EXCEPT !.base = metric.count]
    /\ beat' = [payload |-> metric.count - metric.base, attempt |-> 0]

\* Mutant: the select has no tick.
do_heartbeatSignalled ==
    /\ task["beat"] = "select" /\ flush["beat"] = 1
    /\ flush' = [flush EXCEPT !["beat"] = 0]
    /\ snapshot
    /\ task' = [task EXCEPT !["beat"] = "rpc"]
    /\ UNCHANGED <<api, closed, handles, pushClosed, closer, workers, changes, faults>>

\* The select wakes on a flush signal or on a tick, whatever the flag says;
\* a beat with no difference and no gauge skips the call.
do_heartbeat ==
    /\ task["beat"] = "select"
    /\ flush' = [flush EXCEPT !["beat"] = 0]
    /\ \/ /\ metric.count = metric.base
          /\ task' = [task EXCEPT !["beat"] = AfterBeat]
          /\ UNCHANGED <<metric, beat>>
       \/ /\ snapshot
          /\ task' = [task EXCEPT !["beat"] = "rpc"]
    /\ UNCHANGED <<api, closed, handles, pushClosed, closer, workers, changes, faults>>

\* One attempt of with_retry: accepted; refused; or unanswered, applied by
\* the master or not, and retried after a reconnect while attempts are left.
\* rpc_timeout ends the whole beat.
with_retry ==
    /\ task["beat"] = "rpc"
    /\ \E applied \in BOOLEAN, end \in {"ok", "refused", "retriable", "timeout"} :
          /\ applied <=> end = "ok" \/ (applied /\ end \in {"retriable", "timeout"})
          /\ metric' = [metric EXCEPT !.master = @ + IF applied THEN beat.payload ELSE 0]
          /\ IF end = "ok" THEN UNCHANGED faults ELSE Fault
          /\ IF end = "retriable" /\ beat.attempt < MAX_RPC_RETRIES
             THEN /\ task' = [task EXCEPT !["beat"] = "reconnect"]
                  /\ beat' = [beat EXCEPT !.attempt = @ + 1]
             ELSE /\ task' = [task EXCEPT !["beat"] = AfterBeat]
                  /\ beat' = NoBeat
    /\ UNCHANGED <<api, closed, handles, flush, pushClosed, closer, workers,
                   changes>>

\* A failed reconnect uses up the attempt without sending; after the last
\* attempt, or when rpc_timeout elapses, the beat is over.
reconnect ==
    /\ task["beat"] = "reconnect"
    /\ \/ task' = [task EXCEPT !["beat"] = "rpc"] /\ UNCHANGED <<beat, faults>>
       \/ /\ Fault
          /\ \/ /\ beat.attempt < MAX_RPC_RETRIES
                /\ beat' = [beat EXCEPT !.attempt = @ + 1]
                /\ UNCHANGED task
             \/ task' = [task EXCEPT !["beat"] = AfterBeat] /\ beat' = NoBeat
    /\ UNCHANGED <<api, closed, handles, flush, pushClosed, closer, workers,
                   metric, changes>>

----------------------------------------------------------------------------
(* The push task: cumulative values, its own flag, no time limit on the POST *)

AfterPush == IF pushClosed THEN "exited" ELSE "select"

\* What a push sends: every counter and gauge, nothing while there is none.
collect_metrics_text == IF metric.count = 0 THEN {"empty", "text"} ELSE {"text"}

PushWake ==
    /\ task["push"] = "select"
    /\ flush' = [flush EXCEPT !["push"] = 0]
    /\ \E body \in collect_metrics_text :
          task' = [task EXCEPT !["push"] = IF body = "empty" THEN AfterPush ELSE "post"]
    /\ UNCHANGED <<api, closed, handles, pushClosed, closer, workers, metric, beat, changes, faults>>

PushAnswer ==
    /\ task["push"] = "post"
    /\ task' = [task EXCEPT !["push"] = AfterPush]
    /\ UNCHANGED <<api, closed, handles, flush, pushClosed, closer, workers,
                   metric, beat, changes, faults>>

----------------------------------------------------------------------------
(* close and drop *)

\* Only the caller that flips the flag shuts anything down; the refresh
\* tasks are aborted first.
close(c) ==
    /\ api = "open" /\ closer[c] = "idle"
    /\ closed' = TRUE
    /\ IF closed
       THEN closer' = [closer EXCEPT ![c] = "done"] /\ UNCHANGED <<task, handles>>
       ELSE /\ closer' = [closer EXCEPT ![c] = "beat"]
            /\ task' = Aborted(task)
            /\ handles' = handles \ {"worker", "config"}
    /\ UNCHANGED <<api, flush, pushClosed, workers, metric, beat, changes, faults>>

\* shutdown() of the heartbeat and then of the push task: flag, flush signal,
\* and a wait for the task that a timeout bounds (join).
Shutdown(c, t, next) ==
    /\ closer[c] = t
    /\ IF t \in handles
       THEN /\ closer' = [closer EXCEPT ![c] = "join"]
            /\ flush' = [flush EXCEPT ![t] = 1]
            /\ handles' = handles \ {t}
       ELSE closer' = [closer EXCEPT ![c] = next] /\ UNCHANGED <<flush, handles>>

shutdown(c) ==
    /\ \/ Shutdown(c, "beat", "push") /\ UNCHANGED pushClosed
       \/ Shutdown(c, "push", "done") /\ pushClosed' = (pushClosed \/ "push" \in handles)
    /\ UNCHANGED <<api, closed, task, workers, metric, beat, changes, faults>>

\* The wait ends when the task has exited or its 3 s (5 s) are over; what is
\* joined is the heartbeat until the push task has been signalled.
Join(c) ==
    /\ closer[c] = "join"
    /\ closer' = [closer EXCEPT ![c] = IF pushClosed THEN "done" ELSE "push"]
    /\ UNCHANGED <<api, closed, task, handles, flush, pushClosed, workers, metric, beat, changes, faults>>

\* The last reference goes away outside any call of close().
drop ==
    /\ api = "open" /\ \A c \in Closers : closer[c] \in {"idle", "done"}
    /\ api' = "dropped"
    /\ Drop
    /\ UNCHANGED <<closer, workers, metric, beat, changes, faults>>

----------------------------------------------------------------------------
(* The rest of the process, the cluster *)

\* An operation increments a counter of the registry.
inc ==
    /\ api = "open" /\ metric.count < MaxCount
    /\ metric' = [metric EXCEPT !.count = @ + 1]
    /\ UNCHANGED <<ctxVars, workers, beat, changes, faults>>

Membership ==
    /\ changes < MaxChanges
    /\ changes' = changes + 1
    /\ workers' = [workers EXCEPT !.cluster = @ + 1]
    /\ UNCHANGED <<ctxVars, metric, beat, faults>>
----------------------------------------------------------------------------
Background ==
    \/ WorkerWake \/ refresh_workers
    \/ ConfigWake
    \/ do_heartbeat \/ with_retry \/ reconnect
    \/ PushWake \/ PushAnswer

Next ==
    \/ connect \/ start_worker_refresh_task \/ start_config_refresh_task
    \/ start_metrics_heartbeat_task \/ start_pushgateway_task
    \/ Background
    \/ \E c \in Closers : close(c) \/ shutdown(c) \/ Join(c)
    \/ drop \/ inc \/ Membership

Spec == Init /\ [][Next]_vars

\* Timers fire, the runtime polls a task that is ready, and request_timeout
\* or rpc_timeout ends every master call.  The POST of the push task has no
\* time limit, so its answer is not assumed to come.
Fairness ==
    /\ WF_vars(WorkerWake \/ refresh_workers)
    /\ WF_vars(ConfigWake)
    /\ WF_vars(do_heartbeat \/ with_retry \/ reconnect)
    /\ WF_vars(PushWake)
    /\ \A c \in Closers : WF_vars(shutdown(c) \/ Join(c))

----------------------------------------------------------------------------
TypeOK ==
    /\ api \in {"new", "noWorkers", "tasks", "config", "beat", "push", "open",
                "failed", "dropped"}
    /\ closed \in BOOLEAN /\ pushClosed \in BOOLEAN
    /\ task \in [Tasks -> {"none", "eager", "sleep", "list", "select", "rpc",
                           "reconnect", "post", "exited"}]
    /\ handles \subseteq Tasks
    /\ flush \in [{"beat", "push"} -> 0..1]
    /\ closer \in [Closers -> {"idle", "beat", "push", "join", "done"}]
    /\ beat \in [payload : 0..MaxCount, attempt : 0..MAX_RPC_RETRIES]

\* Every increment of a counter is in exactly one beat: the master's total
\* and the beat in flight add up to the reporter's baseline as long as no
\* call has failed, and a baseline is never ahead of its counter.
CountersConserved ==
    /\ metric.base <= metric.count
    /\ faults = 0 => metric.master + beat.payload = metric.base

\* A refresh task outlives neither close() nor drop nor a failed connect, and
\* the heartbeat loop leaves at the end of a beat.
TasksEnd == closed ~> \A t \in {"worker", "config", "beat"} : task[t] \in {"none", "exited"}

\* Once it is told to stop, the push loop comes to rest: it has left, or it
\* waits for ever for the answer of a POST.
PushEnds == pushClosed ~> [](task["push"] \in {"none", "exited", "post"})

\* Every call of close() returns, a gateway that never answers included.
CloseReturns ==
    (\E c \in Closers : closer[c] \notin {"idle", "done"})
        ~> (\A c \in Closers : closer[c] \in {"idle", "done"})

\* While the context is open and calls succeed, what a counter shows reaches
\* the master.
EventuallyReported ==
    (metric.count > metric.master /\ task["beat"] \notin {"none", "exited"})
        ~> (metric.count = metric.master \/ faults > 0 \/ closed)

\* A change of the cluster's worker list reaches the router of an open
\* context that found a worker manager when it connected.
RouterFollowsCluster ==
    (workers.router # workers.cluster /\ task["worker"] # "none")
        ~> (workers.router = workers.cluster \/ closed)
============================================================================
