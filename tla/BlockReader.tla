---------------------------- MODULE BlockReader ----------------------------
(***************************************************************************)
(* GrpcBlockReader (src/io/reader.rs) over one ReadBlock stream of a       *)
(* worker: opened directly, for a positioned read, or with a drain task    *)
(* between the stream and the reader.                                      *)
(*                                                                         *)
(* The worker is external.  It locks the block when the request arrives    *)
(* and unlocks it when it sees the end of the request stream; it never     *)
(* unlocks it when the call is cancelled instead.  It sends data frames    *)
(* while fewer than its window are unacknowledged, and empty frames.       *)
(* A frame is its number of bytes, or End or Error at the end of the       *)
(* stream.                                                                 *)
(***************************************************************************)
EXTENDS Integers, Sequences, FiniteSets

CONSTANTS Bytes,            \* length of the range asked for
          ChunkBytes,       \* chunk_size
          prefetch_window,  \* ReadTuning of the sequential reader
          buffer_messages,
          ack_interval_bytes,
          ack_interval_chunks,
          RequestCap,       \* capacity of the request channel
          MaxEmpty,         \* bound: empty frames
          MaxTrouble        \* bound: failures of the worker, the network, the task

ReaderAssumption ==
    /\ Bytes \in Nat /\ ChunkBytes \in Nat
    /\ RequestCap \in Nat /\ buffer_messages \in Nat

VARIABLES source,     \* "none", or how the reader was opened
          at,         \* the caller: "new", "opening", "held", "recv", "all", "done"
          received,   \* bytes_received
          request_tx, \* the request stream is open
          acks,       \* offsets in it that the worker has not taken
          since,      \* bytes and chunks since the last acknowledgement
          wire,       \* frames on the response stream
          chan,       \* frames the drain task has passed on
          task,       \* the drain task: "none", "running", "gone"
          worker,     \* what it has sent, what of it is unacknowledged, its lock
          outcome,    \* how the last call ended
          empties, troubles

readerVars == <<source, at, received, request_tx, since, outcome>>
streamVars == <<acks, wire, chan, task, worker, empties>>
vars == <<readerVars, streamVars, troubles>>

Least(a, b) == IF a < b THEN a ELSE b
End == -1
Error == -2
NoWorker == [sent |-> 0, flight |-> {}, rpc |-> "none", lock |-> FALSE]
Direct == source \in {"open", "positioned_read"}

TypeOK ==
    /\ source \in {"none", "open", "open_sequential", "positioned_read"}
    /\ at \in {"new", "opening", "held", "recv", "all", "done"}
    /\ received \in 0 .. Bytes /\ request_tx \in BOOLEAN
    /\ Len(acks) <= RequestCap /\ Len(chan) <= buffer_messages
    /\ task \in {"none", "running", "gone"}
    /\ worker.rpc \in {"none", "open", "ended", "failed", "abandoned", "cancelled"}
    /\ outcome \in {"none", "chunk", "end", "whole", "error", "short"}

Init ==
    /\ source = "none" /\ at = "new" /\ received = 0 /\ request_tx = FALSE
    /\ acks = <<>> /\ since = [bytes |-> 0, chunks |-> 0] /\ wire = <<>> /\ chan = <<>>
    /\ task = "none" /\ worker = NoWorker /\ outcome = "none"
    /\ empties = 0 /\ troubles = 0

Trouble == troubles < MaxTrouble /\ troubles' = troubles + 1
Returns(how) == at' = IF how \in {"chunk", "end"} THEN "held" ELSE "done"

-----------------------------------------------------------------------------
(* The request is sent: its channel is new, so there is room for it. *)
Request(how) ==
    /\ at = "new"
    /\ source' = how /\ at' = "opening" /\ request_tx' = TRUE
    /\ worker' = [worker EXCEPT !.rpc = "open", !.lock = TRUE]
    /\ UNCHANGED <<received, since, outcome, acks, wire, chan, task, empties, troubles>>

read_block == \E how \in {"open", "open_sequential"} : Request(how)
read_block_positioned == Request("positioned_read")

(* ... and the headers of the response come back: the reader exists, *)
Headers(how, next) ==
    /\ at = "opening" /\ source = how /\ at' = next
    /\ UNCHANGED <<source, received, request_tx, since, outcome, acks, wire, chan, worker,
                   empties, troubles>>

open == Headers("open", "held") /\ UNCHANGED task
open_sequential == Headers("open_sequential", "held") /\ task' = "running"
positioned_read == Headers("positioned_read", "all") /\ UNCHANGED task

(* ... or an error, which the worker has answered, *)
open_fails ==
    /\ at = "opening" /\ Trouble
    /\ source' = "none" /\ at' = "done" /\ request_tx' = FALSE /\ outcome' = "error"
    /\ worker' = [worker EXCEPT !.rpc = "failed", !.lock = FALSE]
    /\ wire' = <<>> /\ acks' = <<>>
    /\ UNCHANGED <<received, since, chan, task, empties>>

(* ... or the caller drops the future, and with it the call. *)
open_dropped ==
    /\ at = "opening" /\ Trouble
    /\ source' = "none" /\ at' = "done" /\ request_tx' = FALSE
    /\ worker' = [worker EXCEPT !.rpc = "abandoned"] /\ wire' = <<>> /\ acks' = <<>>
    /\ UNCHANGED <<received, since, outcome, chan, task, empties>>

-----------------------------------------------------------------------------
(* The worker *)

SendData ==
    /\ worker.rpc = "open" /\ worker.sent < Bytes
    /\ Cardinality(worker.flight) < 1 + prefetch_window
    /\ \E k \in 1 .. Least(ChunkBytes, Bytes - worker.sent) :
          /\ wire' = Append(wire, k)
          /\ worker' = [worker EXCEPT !.sent = @ + k, !.flight = @ \cup {worker.sent + k}]
    /\ UNCHANGED <<readerVars, acks, chan, task, empties, troubles>>

SendEmpty ==
    /\ worker.rpc = "open" /\ empties < MaxEmpty /\ empties' = empties + 1
    /\ wire' = Append(wire, 0)
    /\ UNCHANGED <<readerVars, acks, chan, task, worker, troubles>>

(* The worker ends the call too early, or it fails; either way it unlocks. *)
SendEnd ==
    /\ worker.rpc = "open" /\ Trouble
    /\ \/ /\ wire' = Append(wire, End)
          /\ worker' = [worker EXCEPT !.rpc = "ended", !.lock = FALSE]
       \/ /\ wire' = Append(wire, Error)
          /\ worker' = [worker EXCEPT !.rpc = "failed", !.lock = FALSE]
    /\ UNCHANGED <<readerVars, acks, chan, task, empties>>

TakeAck ==
    /\ worker.rpc = "open" /\ acks # <<>>
    /\ worker' = [worker EXCEPT !.flight = {f \in @ : f > Head(acks)}]
    /\ acks' = Tail(acks)
    /\ UNCHANGED <<readerVars, wire, chan, task, empties, troubles>>

(* The end of the request stream unlocks the block. *)
Completed ==
    /\ worker.rpc = "open" /\ ~request_tx /\ acks = <<>> /\ worker.lock
    /\ worker' = [worker EXCEPT !.lock = FALSE]
    /\ UNCHANGED <<readerVars, acks, wire, chan, task, empties, troubles>>

-----------------------------------------------------------------------------
(* The drain task passes frames on, *)
drain ==
    /\ task = "running" /\ wire # <<>> /\ Len(chan) < buffer_messages
    /\ chan' = Append(chan, Head(wire)) /\ wire' = Tail(wire)
    /\ task' = IF Head(wire) \in {End, Error} THEN "gone" ELSE task
    /\ UNCHANGED <<readerVars, acks, worker, empties, troubles>>

(* ... or panics, which drops the response stream with the request open. *)
drain_dies ==
    /\ task = "running" /\ Trouble
    /\ task' = "gone" /\ wire' = <<>>
    /\ worker' = IF worker.rpc = "open" /\ request_tx
                 THEN [worker EXCEPT !.rpc = "abandoned"] ELSE worker
    /\ UNCHANGED <<readerVars, acks, chan, empties>>

-----------------------------------------------------------------------------
(* The frame read_chunk looks at: from the stream, or from the task's channel,
   where a channel that closed without "End" is an error. *)
recvLenient ==
    IF Direct THEN wire
    ELSE IF chan = <<>> /\ task = "gone" THEN <<End>> ELSE chan
recv ==
    IF Direct THEN wire
    ELSE IF chan = <<>> /\ task = "gone" THEN <<Error>> ELSE chan

(* An ended stream stays ended; the end is taken from the channel only once. *)
Take ==
    IF Direct THEN wire' = (IF Head(wire) = End THEN wire ELSE Tail(wire)) /\ UNCHANGED chan
    ELSE chan' = (IF chan = <<>> THEN chan ELSE Tail(chan)) /\ UNCHANGED wire

classify_response(frame) ==
    CASE frame = End -> "Eof"
      [] frame = Error -> "Error"
      [] frame = 0 -> "KeepReading"
      [] OTHER -> "Deliver"

should_send_ack(bytes, chunks, got) ==
    IF Direct THEN TRUE
    ELSE bytes >= ack_interval_bytes \/ chunks >= ack_interval_chunks \/ got >= Bytes

(* The acknowledgement is put off when the request channel is full. *)
maybe_send_ack(k) ==
    LET bytes == since.bytes + k
        chunks == since.chunks + 1
        sends == /\ should_send_ack(bytes, chunks, received + k)
                 /\ request_tx /\ Len(acks) < RequestCap
    IN  /\ acks' = IF sends THEN Append(acks, received + k) ELSE acks
        /\ since' = IF sends THEN [bytes |-> 0, chunks |-> 0]
                    ELSE [bytes |-> bytes, chunks |-> chunks]

read_chunk ==
    /\ at = "held" /\ source # "positioned_read"
    /\ at' \in {"recv"} \cup (IF source = "open" THEN {"all"} ELSE {})
    /\ outcome' = "none"
    /\ UNCHANGED <<source, received, request_tx, since, streamVars, troubles>>

(* Everything has been received: the request stream is closed, if it was not. *)
half_close ==
    /\ at = "recv" /\ received >= Bytes
    /\ request_tx' = FALSE /\ outcome' = "end" /\ Returns("end")
    /\ UNCHANGED <<source, received, since, streamVars, troubles>>

Deliver ==
    /\ at \in {"recv", "all"} /\ received < Bytes
    /\ recv # <<>> /\ classify_response(Head(recv)) = "Deliver"
    /\ Take /\ maybe_send_ack(Head(recv))
    /\ received' = received + Head(recv)
    /\ request_tx' = (request_tx /\ received' < Bytes)
    /\ IF at = "recv" THEN outcome' = "chunk" /\ Returns("chunk") ELSE UNCHANGED <<outcome, at>>
    /\ UNCHANGED <<source, task, worker, empties, troubles>>

KeepReading ==
    /\ at \in {"recv", "all"} /\ received < Bytes
    /\ recv # <<>> /\ classify_response(Head(recv)) = "KeepReading" /\ Take
    /\ UNCHANGED <<readerVars, acks, task, worker, empties, troubles>>

(* The worker half-closed: the end for read_chunk, to be checked by read_all. *)
Eof ==
    /\ at = "recv" /\ received < Bytes
    /\ recv # <<>> /\ classify_response(Head(recv)) = "Eof" /\ Take
    /\ outcome' = "end" /\ Returns("end")
    /\ UNCHANGED <<source, received, request_tx, since, acks, task, worker,
                   empties, troubles>>

(* The reader is dropped: the request stream ends before the response is dropped,
   so that the worker sees the end of the one and not the end of the other. *)
dropCancels ==
    /\ source' = "none" /\ request_tx' = FALSE /\ wire' = <<>> /\ chan' = <<>> /\ acks' = <<>>
    /\ task' = "none"
    /\ worker' = IF request_tx THEN [worker EXCEPT !.rpc = "cancelled"] ELSE worker
drop ==
    /\ source' = "none" /\ request_tx' = FALSE /\ wire' = <<>> /\ chan' = <<>>
    /\ task' = "none" /\ UNCHANGED <<acks, worker>>

(* read_chunk returns an error; the caller lets go of the reader. *)
read_fails ==
    /\ at \in {"recv", "all"} /\ received < Bytes
    /\ recv # <<>> /\ classify_response(Head(recv)) = "Error"
    /\ outcome' = "error" /\ at' = "done" /\ drop
    /\ UNCHANGED <<received, since, empties, troubles>>

check_positioned_read_complete == received >= Bytes

(* read_all: no more chunks.  Too few bytes are an error. *)
read_all ==
    /\ at = "all"
    /\ \/ received >= Bytes
       \/ recv # <<>> /\ classify_response(Head(recv)) = "Eof"
    /\ outcome' = IF check_positioned_read_complete THEN "whole" ELSE "short"
    /\ at' = "done" /\ drop
    /\ UNCHANGED <<received, since, empties, troubles>>

(* The caller drops the reader between two calls, or the future of a call. *)
Drop ==
    /\ at \in {"held", "recv", "all"}
    /\ at' = "done" /\ drop /\ outcome' = "none"
    /\ UNCHANGED <<received, since, empties, troubles>>

Over == at = "done" /\ UNCHANGED vars

WorkerStep == SendData \/ TakeAck \/ Completed
ReaderStep == half_close \/ Deliver \/ KeepReading \/ Eof \/ read_fails \/ read_all
ClientStep == open \/ open_sequential \/ positioned_read \/ ReaderStep
Next ==
    \/ read_block \/ read_block_positioned
    \/ open \/ open_sequential \/ positioned_read \/ open_fails \/ open_dropped \/ WorkerStep \/ SendEmpty \/ SendEnd
    \/ drain \/ drain_dies \/ read_chunk \/ ReaderStep \/ Drop \/ Over
Spec == Init /\ [][Next]_vars

\* The runtime polls the caller and the task, and the worker serves the call.
Fairness == WF_vars(WorkerStep) /\ WF_vars(drain) /\ WF_vars(ClientStep)

-----------------------------------------------------------------------------
(* read_all returns the whole range or an error, and a reader is told of the end
   only after all bytes or after the worker ended the call itself: the death of
   the drain task is never taken for the end. *)
NeverShort ==
    /\ outcome = "whole" => received = Bytes
    /\ outcome = "end" => received = Bytes \/ worker.rpc = "ended"

(* Every call on a reader returns: the thresholds of the acknowledgements never
   leave the worker waiting for one while the reader waits for data.  However and
   whenever the reader is let go of, the worker unlocks the block, unless the call
   was cancelled before there was a reader or by the death of the task. *)
Settled ==
    /\ at \notin {"opening", "recv", "all"}
    /\ at = "done" /\ worker.lock => worker.rpc = "abandoned"
=============================================================================
