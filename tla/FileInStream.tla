---------------------------- MODULE FileInStream ----------------------------
(***************************************************************************)
(* GoosefsFileInStream: a seekable reader of one file, made of blocks that *)
(* workers stream.  A byte is its offset in the file.  `pos' is the next   *)
(* byte the chunk reader will deliver; bytes pulled from the worker and    *)
(* not yet handed to the caller are parked in `carry_over', so the         *)
(* caller's position is pos() = pos - |carry_over|.                        *)
(*                                                                         *)
(* A block stream is a GrpcBlockReader with its background drain task: the *)
(* worker sends chunks while its window of unacknowledged ones allows,     *)
(* the drain task moves them into a bounded channel, read_chunk takes them *)
(* out and acknowledges.  The stream may end early or fail at any point.   *)
(*                                                                         *)
(* The caller owns the stream (&mut self), so its calls do not overlap;    *)
(* what interleaves is the worker, the drain task and the steps of a call. *)
(* A step is the code between two awaits.  Choosing and connecting a       *)
(* worker either succeeds or fails here (module WorkerRouter has the       *)
(* choice).                                                                *)
(***************************************************************************)
EXTENDS Integers, Sequences, FiniteSetsExt

CONSTANTS Length,         \* file_length
          BlockSize,      \* block_size_bytes
          ChunkSize,      \* chunk_size: the worker's largest chunk
          MaxBuf,         \* the largest buffer or range a caller asks for
          Threshold,      \* TRANSFER_POSITIONED_READ_THRESHOLD
          BufferMessages, \* depth of the drain task's channel
          Window,         \* prefetch_window, in chunks
          AckBytes,       \* ack_interval_bytes
          AckChunks,      \* ack_interval_chunks
          AckCap,         \* capacity of the request channel
          MaxFaults       \* bound on failures of the worker or the network,
                          \* and on seeks given up

(* The acknowledgements keep up with the worker's window, as the            *)
(* configuration's documentation demands of non-default values.             *)
StreamAssumption ==
    /\ Length \in Nat /\ BlockSize \in Nat \ {0} /\ ChunkSize \in Nat \ {0}
    /\ MaxBuf \in Nat \ {0} /\ Threshold \in Nat
    /\ BufferMessages \in Nat \ {0} /\ Window \in Nat /\ AckCap \in Nat \ {0}
    /\ AckBytes \in Nat /\ AckChunks \in Nat \ {0} /\ MaxFaults \in Nat
    /\ AckChunks <= 1 + Window \/ AckBytes = 0

VARIABLES
    pos,            \* next byte of the chunk reader
    carry_over,     \* parked bytes: the interval from .. to - 1
    stream,         \* block_in_stream, or NoStream
    cached,         \* sequential reads go through the page cache
    pc,             \* where the caller's call is
    arg,            \* read: the buffer's length; seek: target; read_at: end
    cur,            \* seek: bytes still to skip; read_at: next byte to fetch
    out,            \* what the last call returned
    faults,         \* failures so far
    dropped         \* ghost: a seek was given up while it skipped bytes
vars == <<pos, carry_over, stream, cached, pc, arg, cur, out, faults, dropped>>

NoStream == [block |-> -1]
Empty == [from |-> 0, to |-> 0]
Parked == carry_over.to - carry_over.from
(* pos(), the caller's position. *)
UserPos == pos - Parked

block_index_for_pos(offset) == offset \div BlockSize
block_start(idx) == idx * BlockSize
block_end(offset) == Min({block_start(block_index_for_pos(offset)) + BlockSize, Length})

(* What a call returns: `at' is where the caller asked from, from .. to - 1 *)
(* the bytes it got.                                                        *)
Nothing == [op |-> "none", at |-> 0, from |-> 0, to |-> 0]
Result(op, at, from, to) ==
    /\ out' = [op |-> op, at |-> at, from |-> from, to |-> to]
    /\ pc' = "idle" /\ arg' = 0 /\ cur' = 0
Fail == Result("error", 0, 0, 0)
Call(step, a, c) ==
    /\ pc' = step /\ arg' = a /\ cur' = c /\ out' = Nothing

TypeOK ==
    /\ pos \in 0 .. Length
    /\ carry_over \in [from : 0 .. Length, to : 0 .. Length] /\ Parked >= 0
    /\ \/ stream = NoStream
       \/ /\ 0 <= stream.start /\ stream.start <= stream.got
          /\ stream.got <= stream.sent /\ stream.sent <= stream.end
          /\ stream.flight \subseteq stream.start + 1 .. stream.sent
          /\ Cardinality(stream.flight) <= 1 + Window
          /\ Len(stream.chan) <= BufferMessages /\ Len(stream.acks) <= AckCap
          /\ stream.over \in {"open", "End", "Error", "closed"}
    /\ cached \in BOOLEAN
    /\ pc \in {"idle", "connect", "recv", "skip", "cached", "at"}
    /\ arg \in 0 .. Length + MaxBuf /\ cur \in 0 .. Length
    /\ out.op \in {"none", "error", "read", "seek", "read_at"}
    /\ faults \in 0 .. MaxFaults /\ dropped \in BOOLEAN

Init ==
    /\ pos = 0
    /\ carry_over = Empty
    /\ stream = NoStream
    /\ cached \in BOOLEAN
    /\ pc = "idle" /\ arg = 0 /\ cur = 0
    /\ out = Nothing
    /\ faults = 0 /\ dropped = FALSE

----------------------------------------------------------------------------
(* GrpcBlockReader *)

(* open_sequential: a stream of the rest of the block. *)
open_sequential(offset) ==
    [block |-> block_index_for_pos(offset), start |-> offset,
     end |-> block_end(offset), got |-> offset, sent |-> offset,
     chan |-> <<>>, over |-> "open", acks |-> <<>>, flight |-> {},
     bytes_since |-> 0, chunks_since |-> 0]

(* The worker sends its next chunk and the drain task puts it into the      *)
(* channel.                                                                  *)
Drain ==
    /\ stream # NoStream
    /\ stream.over = "open"
    /\ Len(stream.chan) < BufferMessages
    /\ Cardinality(stream.flight) < 1 + Window
    /\ \E k \in 1 .. Min({ChunkSize, stream.end - stream.sent}) :
         stream' = [stream EXCEPT !.sent = @ + k, !.chan = Append(@, k),
                                  !.flight = @ \cup {stream.sent + k}]
    /\ UNCHANGED <<pos, carry_over, cached, pc, arg, cur, out, faults, dropped>>

(* The worker closes its side: after the last byte, or before it. *)
HalfCloses(early) ==
    /\ stream # NoStream
    /\ stream.over = "open"
    /\ Len(stream.chan) < BufferMessages
    /\ early = (stream.sent < stream.end)
    /\ early => faults < MaxFaults
    /\ faults' = IF early THEN faults + 1 ELSE faults
    /\ stream' = [stream EXCEPT !.over = "End"]
    /\ UNCHANGED <<pos, carry_over, cached, pc, arg, cur, out, dropped>>

(* The transport fails. *)
Breaks ==
    /\ stream # NoStream
    /\ stream.over = "open"
    /\ Len(stream.chan) < BufferMessages
    /\ faults < MaxFaults
    /\ faults' = faults + 1
    /\ stream' = [stream EXCEPT !.over = "Error"]
    /\ UNCHANGED <<pos, carry_over, cached, pc, arg, cur, out, dropped>>

(* The worker takes an acknowledgement. *)
TakeAck ==
    /\ stream # NoStream
    /\ stream.acks # <<>>
    /\ stream' = [stream EXCEPT !.flight = {e \in @ : e > Head(stream.acks)},
                                !.acks = Tail(@)]
    /\ UNCHANGED <<pos, carry_over, cached, pc, arg, cur, out, faults, dropped>>

is_complete == stream.got >= stream.end
should_send_ack(bytes, chunks, got) ==
    bytes >= AckBytes \/ chunks >= AckChunks \/ got >= stream.end

(* maybe_send_ack: coalesced, and put off when the request channel is full. *)
maybe_send_ack(k) ==
    LET bytes == stream.bytes_since + k
        chunks == stream.chunks_since + 1
        got == stream.got + k
        sends == should_send_ack(bytes, chunks, got) /\ Len(stream.acks) < AckCap
    IN  [stream EXCEPT
           !.got = got,
           !.chan = Tail(@),
           !.acks = IF sends THEN Append(@, got) ELSE @,
           !.bytes_since = IF sends THEN 0 ELSE bytes,
           !.chunks_since = IF sends THEN 0 ELSE chunks]

(* read_chunk: what it returns next, and the reader after it. *)
ChunkReady == ~is_complete /\ stream.chan # <<>>
Exhausted ==
    is_complete \/ (stream.chan = <<>> /\ stream.over = "End")
Broken ==
    ~is_complete /\ stream.chan = <<>> /\ stream.over \in {"Error", "closed"}
Closed == [stream EXCEPT !.over = IF is_complete THEN @ ELSE "closed"]

----------------------------------------------------------------------------
(* read *)

(* Bytes parked by an earlier call are handed out first. *)
ReadParked(n) ==
    /\ pc = "idle"
    /\ Parked > 0
    /\ LET take == Min({Parked, n})
           to == carry_over.from + take
       IN  /\ Result("read", UserPos, carry_over.from, to)
           /\ carry_over' = IF take = Parked THEN Empty ELSE [carry_over EXCEPT !.from = to]
    /\ UNCHANGED <<pos, stream, cached, faults, dropped>>

ReadEof ==
    /\ pc = "idle"
    /\ Parked = 0
    /\ pos >= Length
    /\ Result("read", UserPos, pos, pos)
    /\ UNCHANGED <<pos, carry_over, stream, cached, faults, dropped>>

Read(n) ==
    /\ pc = "idle"
    /\ Parked = 0
    /\ pos < Length
    /\ CASE cached -> Call("cached", n, 0)
         [] ~cached /\ stream.block = block_index_for_pos(pos) -> Call("recv", n, 0)
         [] OTHER -> Call("connect", n, 0)
    /\ UNCHANGED <<pos, carry_over, stream, cached, faults, dropped>>

(* The sequential read goes through the page cache, or fails. *)
ReadCached ==
    /\ pc = "cached"
    /\ LET end == Min({pos + arg, Length})
       IN  /\ Result("read", UserPos, pos, end)
           /\ pos' = end
    /\ UNCHANGED <<carry_over, stream, cached, faults, dropped>>

(* A worker is connected and a stream opened, after one reconnect when the  *)
(* session had expired; the stream of the previous block is dropped.        *)
Connect ==
    /\ pc = "connect"
    /\ stream' = open_sequential(pos)
    /\ pc' = "recv"
    /\ UNCHANGED <<pos, carry_over, cached, arg, cur, out, faults, dropped>>

(* read_from_sequential_stream, with the chunk that read_chunk returns. *)
ReadChunk ==
    /\ pc = "recv"
    /\ ChunkReady
    /\ LET k == Head(stream.chan)
           n == Min({k, arg})
           at == stream.got
       IN  /\ Result("read", UserPos, at, at + n)
           /\ carry_over' = IF k > n THEN [from |-> at + n, to |-> at + k] ELSE Empty
           /\ pos' = pos + k
           /\ stream' = IF stream.got + k >= stream.end THEN NoStream ELSE maybe_send_ack(k)
    /\ UNCHANGED <<cached, faults, dropped>>

(* The block stream is exhausted: the call returns no bytes. *)
ReadExhausted ==
    /\ pc = "recv"
    /\ Exhausted
    /\ Result("read", UserPos, pos, pos)
    /\ stream' = NoStream
    /\ UNCHANGED <<pos, carry_over, cached, faults, dropped>>

ReadBroken ==
    /\ pc = "recv"
    /\ Broken
    /\ Fail
    /\ stream' = Closed
    /\ UNCHANGED <<pos, carry_over, cached, faults, dropped>>

----------------------------------------------------------------------------
(* seek *)

Clamp(p) == Max({0, Min({p, Length})})

(* seek_from: a target from the start, from the end or from where the       *)
(* caller is.                                                                *)
seek_from(whence, n) ==
    CASE whence = "Start" -> n [] whence = "End" -> Length + n [] OTHER -> UserPos + n

(* Mutant of SeekAway: a near seek backwards keeps the stream. *)
SeekAwayKeeping(target) ==
    LET dist == Max({target - pos, pos - target})
        near == /\ dist < Threshold
                /\ block_index_for_pos(target) = block_index_for_pos(pos)
    IN  /\ ~(near /\ stream # NoStream /\ target > pos)
        /\ stream' = IF near THEN stream ELSE NoStream
        /\ pos' = target
        /\ carry_over' = Empty
        /\ Result("seek", UserPos, target, target)

(* The target is reached without the stream: it is where the caller is, or  *)
(* the stream is dropped, or there is none.                                 *)
SeekAway(target) ==
    LET dist == Max({target - pos, pos - target})
        near == /\ dist < Threshold
                /\ block_index_for_pos(target) = block_index_for_pos(pos)
    IN  /\ ~(near /\ stream # NoStream /\ target > pos)
        /\ stream' = NoStream
        /\ pos' = target
        /\ carry_over' = Empty
        /\ Result("seek", UserPos, target, target)

(* A short way ahead in the block: skip_bytes drains the stream up to the   *)
(* target.                                                                   *)
SeekAhead(target) ==
    /\ target > pos
    /\ target - pos < Threshold
    /\ block_index_for_pos(target) = block_index_for_pos(pos)
    /\ stream # NoStream
    /\ carry_over' = Empty
    /\ Call("skip", target, target - pos)
    /\ UNCHANGED <<pos, stream>>

Seek(p) ==
    /\ pc = "idle"
    /\ LET target == Clamp(p)
       IN  \/ /\ target = UserPos
              /\ Result("seek", UserPos, target, target)
              /\ UNCHANGED <<pos, carry_over, stream>>
           \/ /\ target # UserPos
              /\ SeekAway(target) \/ SeekAhead(target)
    /\ UNCHANGED <<cached, faults, dropped>>

(* skip_bytes: chunks are dropped, the bytes beyond the target are parked,  *)
(* and the call returns with pos() at the target.                           *)
SkipChunk ==
    /\ pc = "skip"
    /\ ChunkReady
    /\ LET k == Head(stream.chan)
           at == stream.got
       IN  /\ IF k < cur
              THEN /\ cur' = cur - k
                   /\ UNCHANGED <<pos, carry_over, pc, arg, out>>
              ELSE /\ carry_over' = IF k > cur THEN [from |-> at + cur, to |-> at + k]
                                               ELSE Empty
                   /\ pos' = arg + (k - cur)
                   /\ Result("seek", arg, arg, arg)
           /\ stream' = maybe_send_ack(k)
    /\ UNCHANGED <<cached, faults, dropped>>

(* The stream ends before the target: the position is taken all the same. *)
SkipExhausted ==
    /\ pc = "skip"
    /\ Exhausted
    /\ pos' = arg
    /\ Result("seek", arg, arg, arg)
    /\ stream' = Closed
    /\ UNCHANGED <<carry_over, cached, faults, dropped>>

SkipBroken ==
    /\ pc = "skip"
    /\ Broken
    /\ Fail
    /\ stream' = Closed
    /\ UNCHANGED <<pos, carry_over, cached, faults, dropped>>

----------------------------------------------------------------------------
(* read_at: one positioned read per block, position unchanged.  `out.at'    *)
(* keeps the offset asked for.                                               *)
ReadAt(offset, n) ==
    /\ pc = "idle"
    /\ IF offset >= Length
       THEN Result("read_at", offset, offset, offset)
       ELSE /\ pc' = "at"
            /\ arg' = Min({offset + n, Length})
            /\ cur' = offset
            /\ out' = [Nothing EXCEPT !.at = offset, !.from = offset]
    /\ UNCHANGED <<pos, carry_over, stream, cached, faults, dropped>>

check_positioned_read_complete(got, length) == got >= length

(* read_external_range: a range within one block is returned as it came, a  *)
(* longer one is put together block by block.  The worker delivers `got'    *)
(* bytes of the part in the current block; too few are an error.            *)
ReadAtBlock(got) ==
    /\ pc = "at"
    /\ LET BlockEnd(p) == block_start(block_index_for_pos(p)) + BlockSize
           length == Min({arg, BlockEnd(cur)}) - cur
           single == arg <= BlockEnd(out.from)
           good == got > 0 /\ check_positioned_read_complete(got, length)
       IN  /\ got <= length
           /\ got < length => faults < MaxFaults
           /\ faults' = IF got < length THEN faults + 1 ELSE faults
           /\ \/ ~good /\ Fail
              \/ /\ good /\ (single \/ cur + got >= arg)
                 /\ Result("read_at", out.at, out.from, cur + got)
              \/ /\ good /\ ~single /\ cur + got < arg
                 /\ cur' = cur + got
                 /\ UNCHANGED <<pc, arg, out>>
    /\ UNCHANGED <<pos, carry_over, stream, cached, dropped>>

----------------------------------------------------------------------------
(* connect_worker fails on its second worker, or opening the stream does. *)
ConnectFails ==
    /\ pc = "connect"
    /\ faults < MaxFaults
    /\ faults' = faults + 1
    /\ Fail
    /\ UNCHANGED <<pos, carry_over, stream, cached, dropped>>

(* positioned_read fails: the bytes already read are dropped. *)
ReadAtFails ==
    /\ pc \in {"cached", "at"}
    /\ faults < MaxFaults
    /\ faults' = faults + 1
    /\ Fail
    /\ UNCHANGED <<pos, carry_over, stream, cached, dropped>>

(* The caller drops the future of its call where it waits.  A seek that was  *)
(* skipping bytes has moved the stream and not the position.                 *)
Cancel ==
    /\ \/ pc \in {"connect", "recv", "cached", "at"} /\ UNCHANGED <<faults, dropped>>
       \/ pc = "skip" /\ faults < MaxFaults /\ faults' = faults + 1 /\ dropped' = TRUE
    /\ Fail
    /\ UNCHANGED <<pos, carry_over, stream, cached>>

Worker == Drain \/ TakeAck
Step ==
    \/ ReadCached \/ Connect \/ ReadChunk \/ ReadExhausted \/ ReadBroken
    \/ SkipChunk \/ SkipExhausted \/ SkipBroken
    \/ \E got \in 0 .. BlockSize : ReadAtBlock(got)
Next ==
    \/ Worker \/ HalfCloses(TRUE) \/ HalfCloses(FALSE) \/ Breaks
    \/ \E n \in 1 .. MaxBuf : ReadParked(n) \/ Read(n)
    \/ ReadEof
    \/ \E p \in {seek_from("Start", n) : n \in 0 .. Length + 1}
                \cup {seek_from(w, n) : w \in {"End", "Current"}, n \in {-1, 1}} : Seek(p)
    \/ \E offset \in 0 .. Length, n \in 1 .. MaxBuf : ReadAt(offset, n)
    \/ Step \/ ConnectFails \/ ReadAtFails \/ Cancel

Spec == Init /\ [][Next]_vars

(* The runtime polls ready tasks, and a live worker keeps sending. *)
Fairness == WF_vars(Drain) /\ WF_vars(TakeAck) /\ WF_vars(Step)

----------------------------------------------------------------------------
(* The bytes a call returns are the file's bytes from the place it was asked *)
(* for, and a read or a seek leaves pos() right behind them: no byte is lost *)
(* or repeated by carry_over, by a chunk longer than the buffer, by          *)
(* skip_bytes, by a stream that ended or broke (read, seek, read_at), as     *)
(* long as no future of a seek was dropped.                                  *)
ReadsInOrder ==
    ~dropped => /\ out.op \in {"read", "read_at"} /\ out.from # out.to => out.from = out.at
                /\ out.op \in {"read", "seek"} => UserPos = out.to

(* read_at returns the whole range asked for, up to the end of the file, or  *)
(* an error; it never returns the bytes of a stream the worker closed early  *)
(* (check_positioned_read_complete).                                         *)
WholeRange == pc = "at" /\ out'.op = "read_at" => out'.to = arg /\ out'.from = out'.at

(* A stream that can still deliver for the caller's block delivers from      *)
(* where the reader is, and parked bytes lie right before it; what read      *)
(* relies on when it keeps a stream it did not open (block_in_stream_block_id).*)
StreamAligned ==
    ~dropped =>
      /\ Parked > 0 => carry_over.to = pos
      /\ pc = "idle" /\ stream.block = block_index_for_pos(pos) /\ stream.over # "closed"
         => stream.got = pos
=============================================================================
