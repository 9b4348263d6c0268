------------------------------ MODULE PyReader ------------------------------
(***************************************************************************)
(* The Python file readers (bindings/python/src/streaming.rs): one stream  *)
(* of the SDK behind the async mutex `inner`, and the prefetch buffer that *)
(* holds what was pulled from it and not handed out yet.  AsyncFileReader  *)
(* touches the buffer with `inner` held; FileReader touches it before and  *)
(* after the lock, relying on one thread per reader.                       *)
(*                                                                         *)
(* Bytes are file offsets, a run of bytes is [from, to).  The stream of    *)
(* the SDK is its position, advanced by a read and clamped by a seek.      *)
(***************************************************************************)
EXTENDS Integers

CONSTANTS AsyncTasks,      \* the tasks that share one AsyncFileReader
          SyncThreads,     \* the threads that use one FileReader
          FileLength,      \* the length of the file
          PREFETCH_HINT,   \* PREFETCH_HINT_BYTES
          MaxSize,         \* largest size asked of read
          MaxReads,        \* bound: calls
          MaxFailed        \* bound: calls that fail or are abandoned

VARIABLES reader,    \* "async" or "sync"
          inner,     \* the stream of the SDK: its position, or -1 once taken by close
          holder,    \* who holds the mutex `inner`
          prefetch,  \* the parked run
          step,      \* where each caller is
          ask,       \* its call
          parked,    \* the run it took out of the buffer before pulling
          pulled,    \* the run it has pulled so far
          given,     \* the run its last read returned
          due,       \* the offset at which the next sequential read must start
          reads, failures

vars == <<reader, inner, holder, prefetch, step, ask, parked, pulled, given, due,
          reads, failures>>
world == <<inner, holder, prefetch, due>>

Callers == AsyncTasks \cup SyncThreads
Nobody == "nobody"
(* FileReader touches the buffer outside the lock: one thread uses it. *)
ReaderAssumption ==
    /\ FileLength \in Nat /\ PREFETCH_HINT \in Nat /\ MaxSize \in Nat
    /\ MaxReads \in Nat /\ MaxFailed \in Nat
    /\ Nobody \notin Callers /\ \A a, b \in SyncThreads : a = b
Run(a, b) == [from |-> a, to |-> b]
Length(r) == r.to - r.from
NoBytes == Run(0, 0)
NoCall == [op |-> "none", n |-> 0]
Closed == inner = -1
Least(a, b) == IF a < b THEN a ELSE b
Most(a, b) == IF a < b THEN b ELSE a
Users == IF reader = "async" THEN AsyncTasks ELSE SyncThreads

Calls == {[op |-> "read", n |-> k] : k \in -1 .. MaxSize}
         \cup {[op |-> "set", n |-> k] : k \in -1 .. FileLength}
         \cup {[op |-> "cur", n |-> k] : k \in {-1, 1}}
         \cup {[op |-> "end", n |-> -1], [op |-> "read_at", n |-> 0], [op |-> "close", n |-> 0]}

TypeOK ==
    /\ reader \in {"async", "sync"}
    /\ inner \in -1 .. FileLength
    /\ holder \in Callers \cup {Nobody}
    /\ prefetch.from \in 0 .. FileLength /\ prefetch.to \in prefetch.from .. FileLength
    /\ step \in [Callers -> {"idle", "entry", "lock", "pull", "park"}]
    /\ ask \in [Callers -> Calls \cup {NoCall}]
    /\ due \in 0 .. FileLength
    /\ reads \in 0 .. MaxReads /\ failures \in 0 .. MaxFailed

from_sdk ==
    /\ reader \in {"async", "sync"}
    /\ inner = 0 /\ holder = Nobody /\ prefetch = NoBytes /\ due = 0
    /\ step = [c \in Callers |-> "idle"] /\ ask = [c \in Callers |-> NoCall]
    /\ parked = [c \in Callers |-> NoBytes] /\ pulled = [c \in Callers |-> NoBytes]
    /\ given = [c \in Callers |-> NoBytes]
    /\ reads = 0 /\ failures = 0

-----------------------------------------------------------------------------
(* The call c is over; a read returned the run r. *)
Return(c, r) ==
    /\ step' = [step EXCEPT ![c] = "idle"]
    /\ given' = [given EXCEPT ![c] = r]
    /\ parked' = [parked EXCEPT ![c] = NoBytes]
    /\ pulled' = [pulled EXCEPT ![c] = NoBytes]
    /\ UNCHANGED <<reader, ask, reads>>

(* An exception ends the call, or its awaiter abandons it: what it had parked or
   pulled is dropped, and the position becomes what the stream now says. *)
Fail(c, left) ==
    /\ due' = IF Closed THEN due ELSE inner - Length(left)
    /\ Return(c, NoBytes)

Mishap == failures < MaxFailed /\ failures' = failures + 1

(* A read of n bytes served from the buffer. *)
Serve(c, n) ==
    LET cut == prefetch.from + Least(n, Length(prefetch))
    IN  /\ prefetch' = Run(cut, prefetch.to) /\ due' = cut
        /\ Return(c, Run(prefetch.from, cut))

Begin(c) ==
    /\ step[c] = "idle" /\ reads < MaxReads /\ reads' = reads + 1
    /\ c \in Users
    /\ \E k \in Calls : ask' = [ask EXCEPT ![c] = k]
    /\ step' = [step EXCEPT ![c] = IF reader = "async" THEN "lock" ELSE "entry"]
    /\ UNCHANGED <<world, reader, parked, pulled, given, failures>>

(* FileReader's work before guarded_block_on: serve from the buffer, or empty it. *)
SyncEntry(c) ==
    /\ step[c] = "entry"
    /\ \/ /\ ask[c].op = "read" /\ ask[c].n >= 0 /\ Length(prefetch) > 0
          /\ Serve(c, ask[c].n)
          /\ UNCHANGED <<inner, holder, failures>>
       \/ /\ ~(ask[c].op = "read" /\ ask[c].n >= 0 /\ Length(prefetch) > 0)
          /\ IF ask[c].op = "read_at" \/ (ask[c].op = "read" /\ ask[c].n >= 0)
             THEN UNCHANGED <<prefetch, parked>>
             ELSE prefetch' = NoBytes /\ parked' = [parked EXCEPT ![c] = prefetch]
          /\ step' = [step EXCEPT ![c] = "lock"]
          /\ UNCHANGED <<reader, inner, holder, due, ask, pulled, given, reads, failures>>

(* FileReader refuses to block inside a running event loop; what it took out of
   the buffer is gone. *)
guarded_block_on(c) ==
    /\ step[c] = "lock" /\ reader = "sync"
    /\ Mishap /\ Fail(c, prefetch)
    /\ UNCHANGED <<inner, holder, prefetch>>

(* The awaiter of an async call that still waits for the lock is cancelled. *)
Cancelled(c) ==
    /\ step[c] = "lock" /\ reader = "async"
    /\ Mishap /\ Return(c, NoBytes)
    /\ UNCHANGED world

-----------------------------------------------------------------------------
(* AsyncFileReader.read and FileReader.read once the lock is held. *)
read(c) ==
    /\ step[c] = "lock" /\ ask[c].op = "read" /\ holder = Nobody /\ ~Closed
    /\ \/ /\ reader = "async" /\ ask[c].n >= 0 /\ Length(prefetch) > 0
          /\ Serve(c, ask[c].n) /\ UNCHANGED <<inner, holder, failures>>
       \/ /\ ~(reader = "async" /\ ask[c].n >= 0 /\ Length(prefetch) > 0)
          /\ holder' = c
          /\ step' = [step EXCEPT ![c] = "pull"]
          /\ pulled' = [pulled EXCEPT ![c] = Run(inner, inner)]
          /\ IF reader = "async" /\ ask[c].n < 0
             THEN prefetch' = NoBytes /\ parked' = [parked EXCEPT ![c] = prefetch]
             ELSE UNCHANGED <<prefetch, parked>>
          /\ UNCHANGED <<reader, inner, due, ask, given, reads, failures>>

Target(c) ==
    IF ask[c].n < 0 THEN FileLength ELSE Most(ask[c].n, PREFETCH_HINT)

(* One stream.read of pull_prefetched or read_all. *)
pull_prefetched(c) ==
    /\ step[c] = "pull" /\ Length(pulled[c]) < Target(c) /\ inner < FileLength
    /\ \E n \in 1 .. Least(Target(c) - Length(pulled[c]), FileLength - inner) :
          /\ inner' = inner + n
          /\ pulled' = [pulled EXCEPT ![c].to = @ + n]
    /\ UNCHANGED <<reader, holder, prefetch, step, ask, parked, given, due, reads, failures>>

Pulled(c) ==
    step[c] = "pull" /\ (Length(pulled[c]) = Target(c) \/ inner = FileLength)

(* The pull is complete.  read-all answers parked ++ pulled; a sized read answers
   the head, and the rest becomes the buffer. *)
AnswerPulled(c) ==
    LET cut == pulled[c].from + Least(ask[c].n, Length(pulled[c]))
    IN  IF ask[c].n < 0
        THEN /\ Return(c, pulled[c])
             /\ due' = pulled[c].to /\ UNCHANGED prefetch
        ELSE /\ prefetch' = Run(cut, pulled[c].to) /\ due' = cut
             /\ Return(c, Run(pulled[c].from, cut))
Answer(c) ==
    LET cut == pulled[c].from + Least(ask[c].n, Length(pulled[c]))
    IN  IF ask[c].n < 0
        THEN /\ Return(c, IF Length(parked[c]) > 0
                          THEN Run(parked[c].from, pulled[c].to) ELSE pulled[c])
             /\ due' = pulled[c].to /\ UNCHANGED prefetch
        ELSE /\ prefetch' = Run(cut, pulled[c].to) /\ due' = cut
             /\ Return(c, Run(pulled[c].from, cut))

AsyncAnswer(c) ==
    /\ reader = "async" /\ Pulled(c)
    /\ holder' = Nobody /\ Answer(c)
    /\ UNCHANGED <<inner, failures>>

(* FileReader gives the lock back before it parks the rest. *)
SyncRelease(c) ==
    /\ reader = "sync" /\ Pulled(c) /\ holder = c
    /\ holder' = Nobody /\ step' = [step EXCEPT ![c] = "park"]
    /\ UNCHANGED <<reader, inner, prefetch, ask, parked, pulled, given, due, reads, failures>>

SyncAnswer(c) ==
    /\ reader = "sync" /\ step[c] = "park" /\ Answer(c)
    /\ UNCHANGED <<inner, holder, failures>>

(* stream.read fails, or the awaiter of the coroutine is cancelled. *)
pull_fails(c) ==
    /\ step[c] = "pull" /\ holder' = Nobody
    /\ Mishap /\ Fail(c, prefetch)
    /\ UNCHANGED <<inner, prefetch>>

(* The absolute target of a seek made when the logical position is `at`. *)
Clamp(o) == Most(0, Least(o, FileLength))
Whence(c, at) ==
    CASE ask[c].op = "set" -> ask[c].n
      [] ask[c].op = "cur" -> at + ask[c].n
      [] OTHER -> FileLength + ask[c].n

logical_pos(c) ==
    inner - Length(IF reader = "async" THEN prefetch ELSE parked[c])

(* seek empties the buffer first; the stream of the SDK clamps the target. *)
seek(c) ==
    /\ step[c] = "lock" /\ ask[c].op \in {"set", "cur", "end"}
    /\ holder = Nobody /\ ~Closed
    /\ prefetch' = NoBytes
    /\ \/ /\ ask[c].op = "set" /\ ask[c].n < 0
          /\ Fail(c, NoBytes) /\ UNCHANGED inner
       \/ /\ ~(ask[c].op = "set" /\ ask[c].n < 0)
          /\ inner' = Clamp(Whence(c, logical_pos(c)))
          /\ due' = Clamp(Whence(c, due))
          /\ Return(c, NoBytes)
    /\ UNCHANGED <<holder, failures>>

(* read_at does not move the position of the stream. *)
read_at(c) ==
    /\ step[c] = "lock" /\ ask[c].op = "read_at" /\ holder = Nobody /\ ~Closed
    /\ Return(c, NoBytes) /\ UNCHANGED <<inner, holder, prefetch, due, failures>>

close(c) ==
    /\ step[c] = "lock" /\ ask[c].op = "close" /\ holder = Nobody
    /\ inner' = -1 /\ prefetch' = NoBytes
    /\ Return(c, NoBytes) /\ UNCHANGED <<holder, due, failures>>

is_closed(c) ==
    /\ step[c] = "lock" /\ ask[c].op # "close" /\ holder = Nobody /\ Closed
    /\ Return(c, NoBytes) /\ UNCHANGED <<world, failures>>

Over ==
    /\ reads = MaxReads /\ \A c \in Callers : step[c] = "idle"
    /\ UNCHANGED vars

Step(c) ==
    \/ Begin(c) \/ SyncEntry(c) \/ guarded_block_on(c) \/ Cancelled(c) \/ read(c)
    \/ pull_prefetched(c) \/ AsyncAnswer(c) \/ SyncRelease(c) \/ SyncAnswer(c) \/ pull_fails(c) \/ seek(c)
    \/ read_at(c) \/ close(c) \/ is_closed(c)

Init == from_sdk
Next == (\E c \in Callers : Step(c)) \/ Over
Spec == Init /\ [][Next]_vars

-----------------------------------------------------------------------------
Quiet == holder = Nobody /\ \A c \in Callers : step[c] \in {"idle", "entry", "lock"} /\ parked[c] = NoBytes

(* The logical position, `stream.pos() - prefetch.len()`, is the offset after the
   last byte handed out (or the target of the last seek) whenever no call is
   inside; what is parked ends where the stream stands; and a closed reader has
   nothing parked, so that no read after close returns bytes. *)
TellExact ==
    Quiet => /\ ~Closed => inner - Length(prefetch) = due
             /\ Length(prefetch) > 0 => ~Closed /\ prefetch.to = inner

(* Successive reads hand out the file in order: the run a read returns starts
   where the previous one ended, through the fast path, short reads of the
   stream and read-all alike; and a sized read comes back empty only at the end
   of the file. *)
InOrder ==
    \A c \in Callers :
       (ask[c].op = "read" /\ step[c] # "idle" /\ step'[c] = "idle" /\ ~Closed
          /\ failures' = failures)
       => /\ Length(given'[c]) > 0 => given'[c].from = due /\ given'[c].to = due'
          /\ (ask[c].n # 0 /\ Length(given'[c]) = 0) => due = FileLength
          /\ ask[c].n < 0 => due' = FileLength
ReadsInOrder == [][InOrder]_vars
=============================================================================
