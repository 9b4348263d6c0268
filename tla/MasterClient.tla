---------------------------- MODULE MasterClient ----------------------------
(***************************************************************************)
(* MasterClientPool and MasterClient (src/client/master.rs): every RPC     *)
(* picks a channel of the pool and runs in with_retry, which reconnects    *)
(* before each retry and publishes the new authenticated session for all   *)
(* users of the channel.  A session is a connection to one master together *)
(* with the SASL stream that keeps it authenticated; it is open while an   *)
(* AuthedState holds it.  Masters fail over at any time, answers get lost, *)
(* a request that timed out may still reach the master later, and a caller *)
(* may drop its future at any await.                                       *)
(***************************************************************************)
EXTENDS Integers, FiniteSets, FiniteSetsExt, Functions, Sequences, SequencesExt

CONSTANTS
    Tasks,      \* tasks that call the master
    Masters,    \* addresses of the masters
    Size,       \* master_connection_pool_size
    Root,       \* the directory a recursive listing starts from
    Listing     \* external: the directories the listing of each one returns

ASSUME MasterAssumption ==
    /\ IsFiniteSet(Tasks) /\ IsFiniteSet(DOMAIN Listing)
    /\ Size \in Nat \ {0}
    /\ Root \in DOMAIN Listing
    /\ Listing \in [DOMAIN Listing -> SUBSET DOMAIN Listing]

MAX_RPC_RETRIES == 2
Clients == 0 .. Size - 1

VARIABLES
    primary,    \* external: the master that serves RPCs
    journal,    \* external: operation ids the masters applied for a call
    late,       \* external: tasks whose timed-out mutating request is under way
    state,      \* the AuthedState of each client: the master of its session
    inflight,   \* in-flight RPCs of each client
    schedule,   \* MasterPoolSchedule of the pool
    rr,         \* round-robin cursor
    pc,         \* where each task is
    client,     \* the client a task picked
    attempt,    \* of with_retry
    closed,     \* tasks the session of whose request has been replaced
    failed,     \* ghost: tasks whose last attempt failed on the session in state
    op_id,      \* the operation id in a task's request; 0 for none
    applied,    \* ghost: how often the masters applied a task's call
    queue,      \* of a recursive listing: the directories yet to list
    visited,
    listed      \* ghost: the directories listed so far, in order

world == <<journal, late, applied>>
pool == <<state, inflight, schedule, rr>>
link == <<closed, failed>>
walk == <<queue, visited, listed>>
vars == <<primary, world, pool, pc, client, attempt, link, op_id, walk>>

Idle == {"idle", "ok"}
Steps == Idle \cup {"send", "rpc", "reconnect"}

Goto(t, s) == pc' = [pc EXCEPT ![t] = s]
Leave(t) == inflight' = [inflight EXCEPT ![client[t]] = @ - 1]

(* with_retry is over for task t. *)
Finish(t, s) ==
    /\ Goto(t, s)
    /\ attempt' = [attempt EXCEPT ![t] = 0]
    /\ closed' = closed \ {t} /\ failed' = failed \ {t}

(* An error or a cancellation discards what a listing has found. *)
Discard(t) ==
    /\ queue' = [queue EXCEPT ![t] = <<>>]
    /\ visited' = [visited EXCEPT ![t] = {}]
    /\ listed' = [listed EXCEPT ![t] = <<>>]

Abort(t) == Finish(t, "idle") /\ Discard(t)

----------------------------------------------------------------------------
(* External: another master becomes primary. *)
Failover ==
    /\ primary' \in Masters \ {primary}
    /\ UNCHANGED <<world, pool, pc, client, attempt, link, op_id, walk>>

(* MasterClientPool::pick: the choices it may make. *)
pick ==
    CASE Size = 1 -> {0}
      [] Size > 1 /\ schedule = "RoundRobin" -> {rr}
      [] Size > 1 /\ schedule = "P2C" ->
           {IF inflight[p[1]] <= inflight[p[2]] THEN p[1] ELSE p[2] :
              p \in {q \in Clients \X Clients : q[1] # q[2]}}

(* A call: its operation id, if it has one, is drawn before with_retry. *)
Call(t, id, dirs) ==
    /\ pc[t] \in Idle
    /\ client' \in {[client EXCEPT ![t] = c] : c \in pick}
    /\ rr' = IF schedule = "P2C" THEN rr ELSE (rr + 1) % Size
    /\ op_id' = [op_id EXCEPT ![t] = id]
    /\ queue' = [queue EXCEPT ![t] = dirs]
    /\ visited' = [visited EXCEPT ![t] = ToSet(dirs)]
    /\ listed' = [listed EXCEPT ![t] = <<>>]
    /\ journal' = [journal EXCEPT ![t] = {}]
    /\ late' = late \ {t}
    /\ applied' = [applied EXCEPT ![t] = 0]
    /\ Goto(t, "send")
    /\ UNCHANGED <<primary, state, inflight, schedule, attempt, link>>

new_fs_op_id == 1

get_status(t) == Call(t, 0, <<>>)
list_status(t, recursive) == Call(t, 0, IF recursive THEN <<Root>> ELSE <<>>)
schedule_async_persistence(t) == Call(t, 0, <<>>)
commit_location(t) == Call(t, 0, <<>>)
remove_blocks(t) == Call(t, 0, <<>>)
create_file(t) == Call(t, new_fs_op_id, <<>>)
complete_file(t) == Call(t, new_fs_op_id, <<>>)
delete_with_options(t) == Call(t, new_fs_op_id, <<>>)
rename(t) == Call(t, new_fs_op_id, <<>>)
create_directory(t) == Call(t, new_fs_op_id, <<>>)

----------------------------------------------------------------------------
(* Mutant of Send: the operation id is drawn anew for every attempt. *)
SendNewId(t) ==
    /\ pc[t] = "send"
    /\ inflight' = [inflight EXCEPT ![client[t]] = @ + 1]
    /\ op_id' = [op_id EXCEPT ![t] = IF @ = 0 THEN 0 ELSE attempt[t] + 1]
    /\ Goto(t, "rpc")
    /\ UNCHANGED <<primary, world, state, schedule, rr, client, attempt, link,
                   walk>>

(* with_retry: load the client, count the RPC as in flight, send it. *)
Send(t) ==
    /\ pc[t] = "send"
    /\ inflight' = [inflight EXCEPT ![client[t]] = @ + 1]
    /\ Goto(t, "rpc")
    /\ UNCHANGED <<primary, world, state, schedule, rr, client, attempt, link,
                   op_id, walk>>

(* External: the primary executes a call unless it knows its operation id. *)
Execute(t) ==
    IF op_id[t] # 0 /\ op_id[t] \in journal[t]
    THEN UNCHANGED <<journal, applied>>
    ELSE /\ journal' = [journal EXCEPT ![t] = @ \cup ({op_id[t]} \ {0})]
         /\ applied' = [applied EXCEPT ![t] = IF op_id[t] = 0 THEN 1 ELSE @ + 1]

(* External: a request its caller has given up reaches the master after all. *)
ServeLate(t) ==
    /\ t \in late /\ late' = late \ {t}
    /\ Execute(t)
    /\ UNCHANGED <<primary, pool, pc, client, attempt, link, op_id, walk>>

(* Mutant of NewDirs: only the listed directory itself is left out. *)
NewDirsUnvisited(t, cur) == Listing[cur] \ {cur}

(* list_status_bfs_child_dir and the visited set *)
NewDirs(t, cur) == {d \in Listing[cur] : d # cur /\ d \notin visited[t]}

(* The call returns Ok, *)
Return(t) == queue[t] = <<>> /\ Finish(t, "ok") /\ UNCHANGED walk

(* ... or its answer was the listing of one directory, and list_status_bfs    *)
(* goes on with the next.                                                     *)
ListNext(t) ==
    LET cur == Head(queue[t])
        dirs == NewDirs(t, cur)
        rest == Tail(queue[t]) \o SetToSeq(dirs)
    IN  /\ queue[t] # <<>>
        /\ queue' = [queue EXCEPT ![t] = rest]
        /\ visited' = [visited EXCEPT ![t] = IF rest = <<>> THEN {} ELSE @ \cup dirs]
        /\ listed' = [listed EXCEPT ![t] = Append(@, cur)]
        /\ Finish(t, IF rest = <<>> THEN "ok" ELSE "send")

(* The primary serves the request of an authenticated session and answers Ok. *)
Reply(t) ==
    /\ pc[t] = "rpc"
    /\ state[client[t]] = primary
    /\ t \notin closed
    /\ Execute(t)
    /\ Leave(t)
    /\ Return(t) \/ ListNext(t)
    /\ UNCHANGED <<primary, late, state, schedule, rr, client, op_id>>

(* The next attempt begins with a reconnect; after the last one, Err. *)
NextAttempt(t) ==
    \/ /\ attempt[t] < MAX_RPC_RETRIES
       /\ attempt' = [attempt EXCEPT ![t] = @ + 1]
       /\ closed' = closed \ {t}
       /\ failed' = IF pc[t] = "rpc" THEN failed \cup ({t} \ closed) ELSE failed
       /\ Goto(t, "reconnect")
       /\ UNCHANGED walk
    \/ attempt[t] >= MAX_RPC_RETRIES /\ Abort(t)

(* A retriable error: the request is lost, the master is not the primary,   *)
(* or the session is not authenticated any more.                            *)
FailRetriable(t) ==
    /\ pc[t] = "rpc"
    /\ Leave(t)
    /\ NextAttempt(t)
    /\ UNCHANGED <<primary, world, state, schedule, rr, client, op_id>>

(* A retriable error with the request still under way, or its answer lost.  *)
(* What matters later is whether a mutating request may still be applied.   *)
TimeOut(t) ==
    /\ pc[t] = "rpc"
    /\ late' = IF op_id[t] # 0 THEN late \cup {t} ELSE late \ {t}
    /\ Leave(t)
    /\ NextAttempt(t)
    /\ UNCHANGED <<primary, journal, applied, state, schedule, rr, client, op_id>>

(* Any other error ends the call. *)
FailFatal(t) ==
    /\ pc[t] = "rpc"
    /\ Leave(t)
    /\ Abort(t)
    /\ UNCHANGED <<primary, world, state, schedule, rr, client, op_id>>

(* reconnect: the inquire client answers an address that was the primary's *)
(* when the poll it shares began (MasterInquire), build_authenticated_client *)
(* opens a session there, and the pair is published.  The old AuthedState,   *)
(* and with it the old SASL stream, is dropped.                              *)
Publish(t) ==
    /\ state' \in {[state EXCEPT ![client[t]] = m] : m \in Masters}
    /\ closed' = closed \cup {s \in Tasks : pc[s] = "rpc" /\ client[s] = client[t]}
    /\ failed' = {s \in failed : client[s] # client[t]}

(* Mutant of Reconnect: a successful reconnect restarts the count of attempts. *)
ReconnectAfresh(t) ==
    /\ pc[t] = "reconnect"
    /\ Publish(t)
    /\ attempt' = [attempt EXCEPT ![t] = 0]
    /\ Goto(t, "send")
    /\ UNCHANGED <<primary, world, inflight, schedule, rr, client, op_id, walk>>

Reconnect(t) ==
    /\ pc[t] = "reconnect"
    /\ Publish(t)
    /\ Goto(t, "send")
    /\ UNCHANGED <<primary, world, inflight, schedule, rr, client, attempt,
                   op_id, walk>>

(* The poll or the handshake fails: it costs the attempt. *)
ReconnectFails(t) ==
    /\ pc[t] = "reconnect"
    /\ NextAttempt(t)
    /\ UNCHANGED <<primary, world, pool, client, op_id>>

(* Mutant of Cancel: the count is taken back only on return. *)
CancelUncounted(t) ==
    /\ pc[t] \in {"rpc", "reconnect"}
    /\ Abort(t)
    /\ UNCHANGED <<primary, world, pool, client, op_id>>

(* The caller drops the future at an await; InflightGuard counts it out. *)
Cancel(t) ==
    /\ pc[t] \in {"rpc", "reconnect"}
    /\ IF pc[t] = "rpc" THEN Leave(t) ELSE UNCHANGED inflight
    /\ Abort(t)
    /\ UNCHANGED <<primary, world, state, schedule, rr, client, op_id>>

----------------------------------------------------------------------------
Init ==
    /\ primary \in Masters
    /\ state \in [Clients -> Masters]
    /\ inflight = [c \in Clients |-> 0]
    /\ schedule \in {"RoundRobin", "P2C"}
    /\ rr = 0
    /\ pc = [t \in Tasks |-> "idle"]
    /\ client = [t \in Tasks |-> 0]
    /\ attempt = [t \in Tasks |-> 0]
    /\ closed = {} /\ failed = {} /\ late = {}
    /\ op_id = [t \in Tasks |-> 0]
    /\ journal = [t \in Tasks |-> {}]
    /\ applied = [t \in Tasks |-> 0]
    /\ queue = [t \in Tasks |-> <<>>]
    /\ visited = [t \in Tasks |-> {}]
    /\ listed = [t \in Tasks |-> <<>>]

Begin(t) ==
    \/ get_status(t)
    \/ \E recursive \in BOOLEAN : list_status(t, recursive)
    \/ schedule_async_persistence(t)
    \/ commit_location(t)
    \/ remove_blocks(t)
    \/ create_file(t)
    \/ complete_file(t)
    \/ delete_with_options(t)
    \/ rename(t)
    \/ create_directory(t)

Step(t) ==
    \/ Send(t)
    \/ Reply(t)
    \/ FailRetriable(t)
    \/ TimeOut(t)
    \/ FailFatal(t)
    \/ ReconnectFails(t)
    \/ Reconnect(t)

Next ==
    \/ Failover
    \/ \E t \in Tasks : Begin(t) \/ Step(t) \/ ServeLate(t) \/ Cancel(t)

Spec == Init /\ [][Next]_vars

(* A runnable task runs, and an RPC, a poll and a handshake end within *)
(* their timeouts, with an answer or an error.                         *)
Fairness == \A t \in Tasks : WF_vars(Step(t))

----------------------------------------------------------------------------
TypeOK ==
    /\ primary \in Masters
    /\ state \in [Clients -> Masters]
    /\ inflight \in [Clients -> 0 .. Cardinality(Tasks)]
    /\ schedule \in {"RoundRobin", "P2C"} /\ rr \in Clients
    /\ pc \in [Tasks -> Steps]
    /\ client \in [Tasks -> Clients]
    /\ attempt \in [Tasks -> 0 .. MAX_RPC_RETRIES]
    /\ closed \subseteq Tasks /\ failed \subseteq Tasks /\ late \subseteq Tasks
    /\ op_id \in [Tasks -> Nat] /\ applied \in [Tasks -> Nat]
    /\ journal \in [Tasks -> SUBSET Nat]
    /\ visited \in [Tasks -> SUBSET DOMAIN Listing]
    /\ queue \in [Tasks -> Seq(DOMAIN Listing)]
    /\ listed \in [Tasks -> Seq(DOMAIN Listing)]

(* The in-flight count the P2C scheduler compares is exactly the number of  *)
(* RPCs under way on the client: no path out of with_retry, a cancelled     *)
(* future included, leaks or loses one.                                     *)
InflightExact ==
    \A c \in Clients :
      inflight[c] = Cardinality({t \in Tasks : client[t] = c /\ pc[t] = "rpc"})

(* A mutating call is applied at most once, and exactly once if it returns  *)
(* Ok, however many of its requests or answers are lost, repeated to        *)
(* another master or delivered late: all attempts carry one operation id.   *)
AppliedOnce ==
    \A t \in Tasks :
      /\ op_id[t] # 0 => applied[t] <= 1
      /\ pc[t] = "ok" /\ listed[t] = <<>> => applied[t] >= 1

(* A retry never goes out on the session its previous attempt failed on,    *)
(* whoever published the session it finds.                                  *)
RetryOnNewSession ==
    \A t \in Tasks : pc[t] = "rpc" /\ t \notin closed => t \notin failed

(* A mutating call is applied once however often it is sent, and a retry after *)
(* a failure uses a new session (with_retry, reconnect).                       *)
RetriesSafely == TypeOK /\ AppliedOnce /\ RetryOnNewSession

(* A recursive listing that returns Ok has listed every directory below the *)
(* root, and no listing visits a directory twice, even if the server echoes *)
(* the directory itself or an ancestor.                                     *)
Whole(dirs) == Root \in dirs /\ \A d \in dirs : Listing[d] \subseteq dirs
Below == {d \in DOMAIN Listing : \A dirs \in SUBSET DOMAIN Listing : Whole(dirs) => d \in dirs}

ListsTreeOnce ==
    \A t \in Tasks :
      /\ IsInjective(listed[t])
      /\ pc[t] = "ok" /\ listed[t] # <<>> =>
           ToSet(listed[t]) = Below

(* Every call returns, also while no master can be reached. *)
CallsReturn == \A t \in Tasks : pc[t] = "send" ~> pc[t] \in Idle

(* The old SASL stream is not closed while requests on the old channel are *)
(* still in flight.                                                        *)
GuardOutlivesRpc ==
    \A t \in Tasks : pc[t] = "rpc" => t \notin closed
============================================================================
