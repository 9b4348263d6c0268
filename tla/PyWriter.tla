------------------------------ MODULE PyWriter ------------------------------
(***************************************************************************)
(* The Python file writers AsyncFileWriter and FileWriter                  *)
(* (bindings/python/src/streaming.rs): one SDK writer behind the mutex     *)
(* `inner`; close() and cancel() take it out of the mutex before they      *)
(* finish it, so that whoever comes later finds nothing.                   *)
(***************************************************************************)
EXTENDS Integers

CONSTANTS Tasks,        \* tasks or threads that share the writer
          MaxData,      \* bound: write calls
          MaxBroken     \* bound: calls of the SDK that fail or are abandoned

VARIABLES kind,      \* "AsyncFileWriter" or "FileWriter"
          slot,      \* is the SDK writer in the mutex
          guard,     \* who holds the mutex
          busy,      \* where each task is: "idle", "lock", "sdk"
          doing,     \* its call: "write", "close" or "cancel"
          told,      \* what its last call returned: "ok", "error", "closed"
          file,      \* the file on the master: "open", "complete", "discarded"
          data,      \* write calls the SDK accepted
          size,      \* writes in the file when it was completed
          body,      \* the with block: "in", "left" or "raised"
          explicit,  \* the program called close() itself
          asked, broken

vars == <<kind, slot, guard, busy, doing, told, file, data, size, body, explicit, asked, broken>>
Nobody == "nobody"
SaverAssumption == Nobody \notin Tasks /\ MaxData \in Nat /\ MaxBroken \in Nat

TypeOK ==
    /\ kind \in {"AsyncFileWriter", "FileWriter"}
    /\ slot \in BOOLEAN /\ explicit \in BOOLEAN /\ guard \in Tasks \cup {Nobody}
    /\ busy \in [Tasks -> {"idle", "lock", "sdk"}]
    /\ doing \in [Tasks -> {"none", "write", "close", "cancel"}]
    /\ told \in [Tasks -> {"none", "ok", "error", "closed"}]
    /\ file \in {"open", "complete", "discarded"} /\ body \in {"in", "left", "raised"}
    /\ data \in 0 .. MaxData /\ size \in 0 .. MaxData
    /\ asked \in 0 .. MaxData /\ broken \in 0 .. MaxBroken

from_sdk ==
    /\ kind \in {"AsyncFileWriter", "FileWriter"}
    /\ slot = TRUE /\ guard = Nobody /\ file = "open" /\ data = 0 /\ size = 0
    /\ busy = [t \in Tasks |-> "idle"] /\ doing = [t \in Tasks |-> "none"]
    /\ told = [t \in Tasks |-> "none"]
    /\ body = "in" /\ explicit = FALSE /\ asked = 0 /\ broken = 0

Ask(t, call) ==
    /\ busy[t] = "idle"
    /\ busy' = [busy EXCEPT ![t] = "lock"] /\ doing' = [doing EXCEPT ![t] = call]
    /\ told' = [told EXCEPT ![t] = "none"]
    /\ UNCHANGED <<kind, slot, guard, file, data, size, broken>>

Write(t) == asked < MaxData /\ asked' = asked + 1 /\ Ask(t, "write") /\ UNCHANGED <<body, explicit>>

(* The with block ends: an exception cancels, anything else closes. *)
exit(t) ==
    /\ body = "in" /\ UNCHANGED <<asked, explicit>>
    /\ \/ body' = "left" /\ Ask(t, "close")
       \/ body' = "raised" /\ Ask(t, "cancel")

(* An explicit close() or cancel() inside or after the block. *)
End(t) ==
    /\ asked < MaxData /\ asked' = asked + 1 /\ UNCHANGED body
    /\ \E call \in {"close", "cancel"} :
          Ask(t, call) /\ explicit' = (explicit \/ call = "close")

Told(t, answer) ==
    /\ busy' = [busy EXCEPT ![t] = "idle"] /\ told' = [told EXCEPT ![t] = answer]
    /\ UNCHANGED <<kind, doing, size, body, explicit, asked>>

(* The lock is taken: a write borrows the writer, close and cancel take it. *)
LockBorrowed(t) ==
    /\ busy[t] = "lock" /\ guard = Nobody /\ slot
    /\ guard' = t /\ busy' = [busy EXCEPT ![t] = "sdk"]
    /\ UNCHANGED <<kind, slot, doing, told, file, data, size, body, explicit, asked, broken>>
Lock(t) ==
    /\ busy[t] = "lock" /\ guard = Nobody /\ slot
    /\ guard' = t /\ busy' = [busy EXCEPT ![t] = "sdk"]
    /\ slot' = (doing[t] = "write")
    /\ UNCHANGED <<kind, doing, told, file, data, size, body, explicit, asked, broken>>

Taken(t) ==
    /\ busy[t] = "lock" /\ guard = Nobody /\ ~slot
    /\ Told(t, IF doing[t] = "write" THEN "closed" ELSE "ok")
    /\ UNCHANGED <<slot, guard, file, data, broken>>

write(t) ==
    /\ busy[t] = "sdk" /\ doing[t] = "write"
    /\ data' = data + 1 /\ guard' = Nobody
    /\ Told(t, "ok") /\ UNCHANGED <<slot, file, broken>>

close(t) ==
    /\ busy[t] = "sdk" /\ doing[t] = "close"
    /\ file' = "complete" /\ size' = data /\ guard' = Nobody
    /\ busy' = [busy EXCEPT ![t] = "idle"] /\ told' = [told EXCEPT ![t] = "ok"]
    /\ UNCHANGED <<kind, slot, doing, data, body, explicit, asked, broken>>

cancel(t) ==
    /\ busy[t] = "sdk" /\ doing[t] = "cancel"
    /\ file' = "discarded" /\ guard' = Nobody
    /\ Told(t, "ok") /\ UNCHANGED <<slot, data, broken>>

(* The SDK call fails, its awaiter is cancelled, or the call is refused in an event
   loop: the lock is released, and a writer that was taken is dropped. *)
sdk_fails(t) ==
    /\ broken < MaxBroken /\ broken' = broken + 1
    /\ \/ busy[t] = "sdk" /\ guard' = Nobody
       \/ busy[t] = "lock" /\ UNCHANGED guard
    /\ Told(t, "error") /\ UNCHANGED <<slot, file, data>>

Over ==
    /\ body # "in" /\ asked = MaxData /\ \A t \in Tasks : busy[t] = "idle"
    /\ UNCHANGED vars

Step(t) ==
    \/ Write(t) \/ exit(t) \/ End(t) \/ Lock(t) \/ Taken(t) \/ write(t) \/ close(t)
    \/ cancel(t) \/ sdk_fails(t)
Init == from_sdk
Next == (\E t \in Tasks : Step(t)) \/ Over
Spec == Init /\ [][Next]_vars

-----------------------------------------------------------------------------
(* A file is ended once: a completed file is never discarded by a late cancel, a
   discarded one never completed, and no write is acknowledged after the end. *)
StaysEnded == file # "open" => file' = file /\ data' = data
EndedOnce == [][StaysEnded]_vars

(* A with block left by an exception does not commit the half-written file: the
   file is complete only if the program called close() itself. *)
RaisedNeverCommits == body = "raised" /\ file = "complete" => explicit
=============================================================================
