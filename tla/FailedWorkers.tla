---------------------------- MODULE FailedWorkers ----------------------------
(***************************************************************************)
(* The failure marks of a WorkerRouterView (and of a WorkerRouter, whose   *)
(* code is the same): a sharded map from worker addresses to the time of   *)
(* the failure, and beside it an atomic counter of its entries, by which   *)
(* cleanup_expired_failures decides without looking whether there is       *)
(* anything to remove.  Readers share a view; a writer has its own, and it *)
(* alone clears the marks.                                                 *)
(***************************************************************************)
EXTENDS Integers, FiniteSets

CONSTANTS Addresses,    \* worker_addr_key of the workers that may fail
          Shard,        \* Shard[a]: the map's shard of the address
          Users,        \* threads with the view
          Wrap          \* the counter is an unsigned integer below Wrap

MarksAssumption ==
    /\ Shard \in [Addresses -> {"first", "second"}]
    /\ Wrap \in Nat /\ Wrap > Cardinality(Addresses) + Cardinality(Users)

VARIABLES
    failed,         \* addresses marked within the TTL
    expired,        \* addresses in the map whose TTL has elapsed
    failed_count,   \* the counter
    owner,          \* the writer the view belongs to, or "shared"
    at,             \* at[u]: what the thread does next
    removed         \* removed[u]: entries its cleanup has removed
vars == <<failed, expired, failed_count, owner, at, removed>>

TypeOK ==
    /\ failed \subseteq Addresses /\ expired \subseteq Addresses \ failed
    /\ failed_count \in 0 .. Wrap - 1
    /\ owner \in Users \cup {"shared"}
    /\ at \in [Users -> {"idle", "add", "first", "second", "sub", "reset"}]
    /\ removed \in [Users -> 0 .. Cardinality(Addresses)]

(* is_failed: the address is in the map and its TTL has not elapsed. *)
is_failed(a) == a \in failed
Uses(u) == owner \in {u, "shared"}

Init ==
    /\ failed = {} /\ expired = {} /\ failed_count = 0
    /\ owner \in Users \cup {"shared"}
    /\ at = [u \in Users |-> "idle"]
    /\ removed = [u \in Users |-> 0]

(* mark_failed: the entry is inserted, or its time renewed, *)
mark_failed(u, a) ==
    /\ Uses(u) /\ at[u] = "idle"
    /\ failed' = failed \cup {a}
    /\ expired' = expired \ {a}
    /\ at' = [at EXCEPT ![u] = IF a \in failed \cup expired THEN "idle" ELSE "add"]
    /\ UNCHANGED <<failed_count, owner, removed>>

(* ... and a new one counted. *)
CountMark(u) ==
    /\ at[u] = "add"
    /\ failed_count' = (failed_count + 1) % Wrap
    /\ at' = [at EXCEPT ![u] = "idle"]
    /\ UNCHANGED <<failed, expired, owner, removed>>

(* A mark outlives its TTL. *)
Elapse(a) ==
    /\ a \in failed
    /\ failed' = failed \ {a}
    /\ expired' = expired \cup {a}
    /\ UNCHANGED <<failed_count, owner, at, removed>>

(* cleanup_expired_failures: nothing to do when the counter is zero; else    *)
cleanup_expired_failures(u) ==
    /\ Uses(u) /\ at[u] = "idle"
    /\ failed_count # 0
    /\ at' = [at EXCEPT ![u] = "first"]
    /\ removed' = [removed EXCEPT ![u] = 0]
    /\ UNCHANGED <<failed, expired, failed_count, owner>>

(* ... each shard in turn loses its expired entries, *)
retain(u) ==
    /\ at[u] \in {"first", "second"}
    /\ LET gone == {a \in expired : Shard[a] = at[u]}
       IN  /\ expired' = expired \ gone
           /\ removed' = [removed EXCEPT ![u] = @ + Cardinality(gone)]
    /\ at' = [at EXCEPT ![u] = IF at[u] = "first" THEN "second" ELSE "sub"]
    /\ UNCHANGED <<failed, failed_count, owner>>

(* ... which are then taken off the counter.  It may wrap: an entry can be  *)
(* removed before the thread that inserted it has counted it.               *)
Uncount(u) ==
    /\ at[u] = "sub"
    /\ failed_count' = (failed_count - removed[u]) % Wrap
    /\ at' = [at EXCEPT ![u] = "idle"]
    /\ removed' = [removed EXCEPT ![u] = 0]
    /\ UNCHANGED <<failed, expired, owner>>

(* clear_failed: the writer empties the map, *)
clear_failed(u) ==
    /\ owner = u /\ at[u] = "idle"
    /\ failed' = {} /\ expired' = {}
    /\ at' = [at EXCEPT ![u] = "reset"]
    /\ UNCHANGED <<failed_count, owner, removed>>

(* ... and zeroes the counter. *)
ResetCount(u) ==
    /\ at[u] = "reset"
    /\ failed_count' = 0
    /\ at' = [at EXCEPT ![u] = "idle"]
    /\ UNCHANGED <<failed, expired, owner, removed>>

Next ==
    \/ \E u \in Users : \/ CountMark(u) \/ cleanup_expired_failures(u) \/ retain(u)
                        \/ Uncount(u) \/ clear_failed(u) \/ ResetCount(u)
                        \/ \E a \in Addresses : mark_failed(u, a)
    \/ \E a \in Addresses : Elapse(a)
Spec == Init /\ [][Next]_vars

----------------------------------------------------------------------------
(* Whenever no call is under way the counter is the number of entries, so     *)
(* that a cleanup skipped for a zero counter leaves nothing behind; also when *)
(* marks and cleanups overlap and the counter has wrapped (mark_failed,       *)
(* cleanup_expired_failures, clear_failed).                                   *)
CountExact ==
    (\A u \in Users : at[u] = "idle")
      => failed_count = Cardinality(failed \cup expired)

(* A failed worker stays failed until its TTL has elapsed or the writer that  *)
(* owns the view forgets all of them: no cleanup takes a live mark, whatever  *)
(* marks are made meanwhile (cleanup_expired_failures).                       *)
MarkedUntilExpired ==
    \A a \in Addresses :
      is_failed(a) /\ a \notin failed' =>
        a \in expired' \/ \E u \in Users : owner = u /\ at'[u] = "reset"
=============================================================================
