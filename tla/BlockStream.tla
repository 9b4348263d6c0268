----------------------------- MODULE BlockStream -----------------------------
(***************************************************************************)
(* One WriteBlock stream: GrpcBlockWriter (src/io/writer.rs) over the      *)
(* WriteBlockHandle of src/client/worker.rs.  The caller puts chunks and   *)
(* flush commands in a bounded channel that the gRPC call drains; a        *)
(* background task waits for the response headers, which the worker sends  *)
(* only on a flush or at the end of the requests, and forwards the         *)
(* responses through a second bounded channel.                             *)
(*                                                                         *)
(* The caller may give up a flush while it waits for the acknowledgement:  *)
(* its future is dropped and the stream stays usable.                      *)
(***************************************************************************)
EXTENDS Integers, Sequences

CONSTANTS RequestCap,    \* mpsc::channel(32) of the requests
          ResponseCap,   \* mpsc::channel(8) of the responses
          MaxWrites,     \* bound on chunks and flushes
          MaxGivenUp     \* bound on flushes given up

StreamAssumption ==
    /\ RequestCap \in Nat \ {0} /\ ResponseCap \in Nat \ {0}
    /\ MaxWrites \in Nat /\ MaxGivenUp \in Nat

VARIABLES
    caller,     \* where the caller is
    sending,    \* the request it is putting in the channel
    requests,   \* request_tx: the chunks in it by their number, 0 for a flush
    sender,     \* request_tx has not been dropped
    task,       \* where the background task is
    forward,    \* the response it is forwarding
    responses,  \* response_rx: what is in it
    worker,     \* external: chunks received, headers sent, responses under
                \* way, and how the stream ended there
    written,    \* bytes_written, in chunks
    failed,     \* a call on the stream has returned an error
    flushed,    \* ghost: chunks written before the last flush that returned
    used        \* chunks and flushes so far; flushes given up

vars == <<caller, sending, requests, sender, task, forward, responses, worker,
          written, failed, flushed, used>>
callerVars == <<caller, sending, sender, written, failed, flushed, used>>

Chunk == "chunk"
Flush == "flush"
Nothing == "nothing"
Err == -1                  \* Err(Status); an acknowledgement is the offset

NoTask == task \in {"finished", "aborted"}

----------------------------------------------------------------------------
(* The caller *)

(* write_block and GrpcBlockWriter::open: the initial command goes ahead of   *)
(* the channel, so that opening sends nothing that could block.               *)
Init ==
    /\ caller = "idle" /\ sending = Nothing
    /\ requests = <<>> /\ sender = TRUE
    /\ task = "call" /\ forward = Err /\ responses = <<>>
    /\ worker = [got |-> 0, headers |-> FALSE, out |-> <<>>, end |-> "open"]
    /\ written = 0 /\ failed = FALSE /\ flushed = 0
    /\ used = [writes |-> 0, givenUp |-> 0]

(* write_chunk and flush start with a send on the request channel. *)
Begin(request) ==
    /\ caller = "idle" /\ used.writes < MaxWrites
    /\ used' = [used EXCEPT !.writes = @ + 1]
    /\ caller' = "send" /\ sending' = request
    /\ UNCHANGED <<requests, sender, task, forward, responses, worker, written,
                   failed, flushed>>

write_chunk == Begin(Chunk)
flush == Begin(Flush)

(* The call drops its end of the request channel when it is over, and when    *)
(* the worker has ended the stream with an error.                             *)
NoReceiver == NoTask \/ worker.end = "error"

Request == IF sending = Chunk THEN written + 1 ELSE 0

(* The send waits for room; it fails once the call no longer takes requests. *)
Sent ==
    /\ caller = "send"
    /\ \/ /\ NoReceiver
          /\ caller' = "idle" /\ failed' = TRUE
          /\ UNCHANGED <<requests, written>>
       \/ /\ ~NoTask /\ Len(requests) < RequestCap
          /\ requests' = Append(requests, Request)
          /\ caller' = IF sending = Flush THEN "ack" ELSE "idle"
          /\ written' = written + IF sending = Chunk THEN 1 ELSE 0
          /\ UNCHANGED failed
    /\ sending' = Nothing
    /\ UNCHANGED <<sender, task, forward, responses, worker, flushed, used>>

(* recv_response in flush: an acknowledgement, the worker's error, or the end *)
(* of the stream, which is an error too.                                      *)
recv_response ==
    /\ caller = "ack"
    /\ \/ /\ responses # <<>>
          /\ responses' = Tail(responses)
          /\ failed' = (failed \/ Head(responses) = Err)
          /\ flushed' = IF Head(responses) = Err THEN flushed ELSE written
       \/ responses = <<>> /\ NoTask /\ failed' = TRUE /\ UNCHANGED <<responses, flushed>>
    /\ caller' = "idle"
    /\ UNCHANGED <<sending, requests, sender, task, forward, worker, written, used>>

GiveUp ==
    /\ caller \in {"send", "ack"} /\ used.givenUp < MaxGivenUp
    /\ used' = [used EXCEPT !.givenUp = @ + 1]
    /\ caller' = "idle" /\ sending' = Nothing
    /\ UNCHANGED <<requests, sender, task, forward, responses, worker, written,
                   failed, flushed>>

(* close: the sender is dropped, which ends the requests; then the responses  *)
(* are drained to their end or to an error, and the task is joined.           *)
close ==
    /\ caller = "idle"
    /\ sender' = FALSE /\ caller' = "drain"
    /\ UNCHANGED <<sending, requests, task, forward, responses, worker, written,
                   failed, flushed, used>>

(* Mutant of Drain: the responses are not waited for. *)
DrainAtOnce ==
    /\ caller = "drain"
    /\ caller' = "closed"
    /\ UNCHANGED <<sending, requests, sender, task, forward, responses, worker,
                   written, failed, flushed, used>>

Drain ==
    /\ caller = "drain"
    /\ \/ /\ responses # <<>>
          /\ responses' = Tail(responses)
          /\ caller' = IF Head(responses) = Err THEN "joinErr" ELSE "drain"
       \/ responses = <<>> /\ NoTask /\ caller' = "joinOk" /\ UNCHANGED responses
    /\ UNCHANGED <<sending, requests, sender, task, forward, worker, written, failed,
                   flushed, used>>

(* The join; its 5 s are not used up, since the task has no await left. *)
Joined ==
    /\ caller \in {"joinOk", "joinErr"} /\ NoTask
    /\ caller' = IF caller = "joinOk" THEN "closed" ELSE "closeErr"
    /\ UNCHANGED <<sending, requests, sender, task, forward, responses, worker,
                   written, failed, flushed, used>>

(* cancel, and the drop of a handle that was not closed: the task is aborted  *)
(* and with it the call; the caller may drop it during any await of its own.  *)
cancel ==
    /\ caller \in {"idle", "ack", "send", "drain"}
    /\ caller' = "cancelled" /\ sender' = FALSE /\ responses' = <<>>
    /\ sending' = Nothing
    /\ task' = IF task = "finished" THEN task ELSE "aborted"
    /\ UNCHANGED <<requests, forward, worker, written, failed, flushed, used>>

----------------------------------------------------------------------------
(* The background task *)

Ended(w) == w.end \in {"committed", "error"} /\ w.out = <<>>

(* client.write_block(..).await: the headers, or the failure of the call,     *)
(* which request_timeout brings about when the headers do not come in time.   *)
Headers ==
    /\ task = "call"
    /\ \/ worker.headers /\ task' = "message" /\ UNCHANGED forward
       \/ ~worker.headers /\ task' = "send" /\ forward' = Err
    /\ UNCHANGED <<callerVars, requests, responses, worker>>

(* stream.message().await: a response, the error or the end of the stream. *)
Message ==
    /\ task = "message"
    /\ \/ /\ worker.out # <<>>
          /\ forward' = Head(worker.out)
          /\ worker' = [worker EXCEPT !.out = Tail(@)]
          /\ task' = "send"
       \/ /\ Ended(worker)
          /\ forward' = Err
          /\ task' = IF worker.end = "error" THEN "send" ELSE "finished"
          /\ UNCHANGED worker
    /\ UNCHANGED <<callerVars, requests, responses>>

(* resp_tx.send; after an error the task is over, and so it is when the       *)
(* receiver is gone.                                                          *)
ForwardResponse ==
    /\ task = "send"
    /\ Len(responses) < ResponseCap
    /\ responses' = Append(responses, forward)
    /\ task' = IF forward = Err THEN "finished" ELSE "message"
    /\ UNCHANGED <<callerVars, requests, forward, worker>>

----------------------------------------------------------------------------
(* The worker *)

Receive ==
    /\ requests # <<>> /\ worker.end = "open" /\ ~NoTask
    /\ requests' = Tail(requests)
    /\ worker' = IF Head(requests) # 0 THEN [worker EXCEPT !.got = @ + 1]
                 ELSE [worker EXCEPT !.headers = TRUE, !.out = Append(@, worker.got)]
    /\ UNCHANGED <<callerVars, task, forward, responses>>

Commit ==
    /\ requests = <<>> /\ ~sender /\ worker.end = "open" /\ ~NoTask
    /\ worker' = [worker EXCEPT !.headers = TRUE, !.out = Append(@, worker.got),
                                !.end = "committed"]
    /\ UNCHANGED <<callerVars, requests, task, forward, responses>>

(* The stream breaks with an error, or the connection is half open and        *)
(* nothing more comes from the worker.                                        *)
WorkerFails ==
    /\ worker.end = "open"
    /\ \/ worker' = [worker EXCEPT !.end = "error", !.headers = TRUE]
       \/ worker' = [worker EXCEPT !.end = "silent"]
    /\ UNCHANGED <<callerVars, requests, task, forward, responses>>

Done == caller \in {"closed", "closeErr", "cancelled"} /\ NoTask /\ UNCHANGED vars

CallerStep == Sent \/ recv_response \/ Drain \/ Joined
TaskStep == Headers \/ Message \/ ForwardResponse
WorkerStep == Receive \/ Commit
Next ==
    \/ write_chunk \/ flush \/ GiveUp \/ close \/ cancel \/ CallerStep
    \/ TaskStep \/ WorkerStep \/ WorkerFails \/ Done

Spec == Init /\ [][Next]_vars

(* The runtime polls the caller and the task; a worker that is not silent   *)
(* takes its requests.                                                        *)
Fairness ==
    /\ WF_vars(CallerStep)
    /\ WF_vars(TaskStep)
    /\ WF_vars(WorkerStep)

----------------------------------------------------------------------------
TypeOK ==
    /\ caller \in {"idle", "send", "ack", "drain", "joinOk", "joinErr", "closed",
                   "closeErr", "cancelled"}
    /\ sending \in {Chunk, Flush, Nothing} /\ sender \in BOOLEAN /\ failed \in BOOLEAN
    /\ requests \in Seq(Nat) /\ Len(requests) <= RequestCap
    /\ responses \in Seq(Int) /\ Len(responses) <= ResponseCap
    /\ task \in {"call", "message", "send", "finished", "aborted"} /\ forward \in Int
    /\ worker \in [got : 0 .. MaxWrites, headers : BOOLEAN, out : Seq(Nat),
                   end : {"open", "committed", "error", "silent"}]
    /\ written \in 0 .. MaxWrites /\ flushed \in 0 .. MaxWrites
    /\ used \in [writes : 0 .. MaxWrites, givenUp : 0 .. MaxGivenUp]

(* A flush that returns an acknowledgement means that the worker has every    *)
(* chunk written before it, unless a flush was given up earlier on this       *)
(* stream: its acknowledgement is still to come and would be taken for this   *)
(* one's (flush, recv_response).                                              *)
FlushReachesWorker ==
    used.givenUp = 0 => flushed <= worker.got

(* close() reports success only for a block the worker has committed whole,   *)
(* as long as no call on the stream failed before (an error is delivered      *)
(* once: a close after a failed flush finds nothing left to report).          *)
CloseMeansCommitted ==
    caller = "closed" /\ ~failed => worker.end = "committed" /\ worker.got = written

(* Nothing is under way: no call waits, and a handle that is closed,          *)
(* cancelled or dropped has no task left.  A worker that falls silent after   *)
(* its response headers is the exception for the calls: the request timeout   *)
(* of the channel covers the call up to the headers only.                     *)
Gone == caller \in {"closed", "closeErr", "cancelled"}
Settled ==
    IF Gone THEN NoTask
    ELSE caller = "idle" \/ (worker.end = "silent" /\ worker.headers)

=============================================================================
