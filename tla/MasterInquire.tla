--------------------------- MODULE MasterInquire ---------------------------
(***************************************************************************)
(* PollingMasterInquireClient (src/src/client/master_inquire.rs): callers  *)
(* that look for the primary master share one poll.  The first to find     *)
(* poll_gate empty leads; the others follow on a clone of its watch        *)
(* receiver.  LeaderGuard releases the gate when the leader's future is    *)
(* dropped.                                                                *)
(*                                                                         *)
(* The watch channel of a flight is named by its leader.  Its value is the *)
(* leader's answer once the leader has sent it; a follower that waits is   *)
(* given it by the send.  The follower's retry on a closed channel is      *)
(* absent: FollowersServed shows that no follower sees one.                *)
(***************************************************************************)
EXTENDS Integers

CONSTANTS
    Callers,        \* tasks that call get_primary_rpc_address
    N,              \* the number of master addresses, polled in order
    MaxRounds,      \* bound: rounds before max_duration has elapsed
    MaxFailovers    \* bound: changes of the primary

ASSUME InquireAssumption ==
    /\ N \in Nat \ {0}
    /\ MaxRounds \in Nat \ {0}
    /\ MaxFailovers \in Nat
    /\ 0 \notin Callers

Addresses == 1 .. N
None == 0           \* no address; an empty gate; nothing received yet
Err == N + 1        \* PollResult::Err

VARIABLES
    primary,        \* external: the address that answers as primary, or None
    cached_primary,
    poll_gate,      \* the leader whose receiver is in the gate, or None
    pc,             \* where each caller is
    rx,             \* the leader a follower listens to
    answer,         \* the result a caller holds
    round,          \* of the retry policy of a leader's poll
    addr,           \* the address a caller pings
    failovers,      \* number of failovers so far
    moved           \* ghost: a failover happened since the poll or ping began

flight == <<poll_gate, rx>>
loop == <<round, addr>>
world == <<primary, failovers>>
vars == <<world, cached_primary, flight, pc, answer, loop, moved>>

Leading == {"poll", "write", "send"}
Steps == {"idle", "lookup", "ping", "gate", "wait", "clear", "drop"} \cup Leading

Goto(t, s) == pc' = [pc EXCEPT ![t] = s]
Return(t) ==
    /\ Goto(t, "idle")
    /\ rx' = [rx EXCEPT ![t] = None]
    /\ round' = [round EXCEPT ![t] = 0]
    /\ addr' = [addr EXCEPT ![t] = None]

----------------------------------------------------------------------------
(* External: another master takes over, or none does for now. *)
Failover ==
    /\ failovers < MaxFailovers
    /\ failovers' = failovers + 1
    /\ primary' \in (Addresses \cup {None}) \ {primary}
    /\ moved' = [t \in Callers |-> TRUE]
    /\ UNCHANGED <<cached_primary, flight, pc, answer, loop>>

(* The RwLock of cached_primary is held for reading across the ping of the *)
(* fast path; a writer waits.                                              *)
NoCacheReader == \A t \in Callers : pc[t] # "ping"

(* reset_cached_primary *)
reset_primary ==
    /\ NoCacheReader
    /\ cached_primary' = None
    /\ UNCHANGED <<world, flight, pc, answer, loop, moved>>

----------------------------------------------------------------------------
(* get_primary_rpc_address: the fast path *)
Call(t) ==
    /\ pc[t] = "idle"
    /\ answer' = [answer EXCEPT ![t] = None]
    /\ moved' = [moved EXCEPT ![t] = FALSE]
    /\ Goto(t, "lookup")
    /\ UNCHANGED <<world, cached_primary, flight, loop>>

(* Mutant of Lookup: the cached primary is returned without a ping. *)
LookupNoPing(t) ==
    /\ pc[t] = "lookup"
    /\ IF cached_primary = None
       THEN Goto(t, "gate") /\ UNCHANGED answer
       ELSE Goto(t, "idle") /\ answer' = [answer EXCEPT ![t] = cached_primary]
    /\ UNCHANGED <<world, cached_primary, flight, loop, moved>>

Lookup(t) ==
    /\ pc[t] = "lookup"
    /\ addr' = [addr EXCEPT ![t] = cached_primary]
    /\ Goto(t, IF cached_primary = None THEN "gate" ELSE "ping")
    /\ UNCHANGED <<world, cached_primary, flight, answer, round, moved>>

(* Only the primary answers getServiceVersion, and it may fail to. *)
PingCached(t) ==
    /\ pc[t] = "ping"
    /\ \/ /\ addr[t] = primary
          /\ answer' = [answer EXCEPT ![t] = addr[t]]
          /\ Return(t)
       \/ /\ Goto(t, "gate")
          /\ UNCHANGED <<answer, rx, loop>>
    /\ UNCHANGED <<world, cached_primary, poll_gate, moved>>

(* The singleflight gate: lead, or clone the receiver in the gate. *)
Sent(l) == pc[l] \in {"clear", "drop"}

Lead(t) ==
    /\ pc[t] = "gate"
    /\ poll_gate = None
    /\ poll_gate' = t
    /\ round' = [round EXCEPT ![t] = 1]
    /\ addr' = [addr EXCEPT ![t] = 1]
    /\ Goto(t, "poll")
    /\ UNCHANGED <<world, cached_primary, rx, answer, moved>>

Follow(t) ==
    /\ pc[t] = "gate"
    /\ poll_gate # None
    /\ rx' = [rx EXCEPT ![t] = poll_gate]
    /\ answer' = [answer EXCEPT ![t] =
                    IF Sent(poll_gate) THEN answer[poll_gate] ELSE None]
    /\ moved' = [moved EXCEPT ![t] = @ \/ moved[poll_gate]]
    /\ Goto(t, "wait")
    /\ UNCHANGED <<world, cached_primary, poll_gate, loop>>

----------------------------------------------------------------------------
(* poll_for_primary: one ping of the loop over the addresses.              *)
Found(t) ==
    /\ pc[t] = "poll"
    /\ addr[t] = primary
    /\ answer' = [answer EXCEPT ![t] = addr[t]]
    /\ Goto(t, "write")
    /\ UNCHANGED <<world, cached_primary, flight, loop, moved>>

(* Standby and Unavailable go on to the next address. *)
NextAddress(t) ==
    /\ pc[t] = "poll"
    /\ addr[t] < N
    /\ addr' = [addr EXCEPT ![t] = @ + 1]
    /\ UNCHANGED <<world, cached_primary, flight, pc, answer, round, moved>>

(* Mutant of NextRound: the retry policy is never consulted. *)
NextRoundForever(t) ==
    /\ pc[t] = "poll"
    /\ addr' = [addr EXCEPT ![t] = 1]
    /\ UNCHANGED <<world, cached_primary, flight, pc, answer, round, moved>>

(* The round ends at the last address, or at a Fatal ping; should_retry     *)
(* allows another one until max_duration has elapsed.                       *)
NextRound(t) ==
    /\ pc[t] = "poll"
    /\ round[t] < MaxRounds
    /\ round' = [round EXCEPT ![t] = @ + 1]
    /\ addr' = [addr EXCEPT ![t] = 1]
    /\ UNCHANGED <<world, cached_primary, flight, pc, answer, moved>>

Exhausted(t) ==
    /\ pc[t] = "poll"
    /\ answer' = [answer EXCEPT ![t] = Err]
    /\ Goto(t, "send")
    /\ UNCHANGED <<world, cached_primary, flight, loop, moved>>

CachePrimary(t) ==
    /\ pc[t] = "write"
    /\ NoCacheReader
    /\ cached_primary' = answer[t]
    /\ Goto(t, "send")
    /\ UNCHANGED <<world, flight, answer, loop, moved>>

----------------------------------------------------------------------------
(* LeaderGuard: the value reaches every follower of this leader. *)
Broadcast(l, value) ==
    answer' = [t \in Callers |->
                 IF t = l \/ (pc[t] = "wait" /\ rx[t] = l /\ answer[t] = None)
                 THEN value ELSE answer[t]]

(* complete: send, then clear the gate ... *)
Send(t) ==
    /\ pc[t] = "send"
    /\ Broadcast(t, answer[t])
    /\ Goto(t, "clear")
    /\ UNCHANGED <<world, cached_primary, flight, loop, moved>>

Clear(t) ==
    /\ pc[t] = "clear"
    /\ poll_gate' = None
    /\ Goto(t, "drop")
    /\ UNCHANGED <<world, cached_primary, rx, answer, loop, moved>>

(* ... and drop, which clears the gate as well, whoever's it is by now. *)
Drop(t) ==
    /\ pc[t] = "drop"
    /\ poll_gate' = None
    /\ Return(t)
    /\ UNCHANGED <<world, cached_primary, answer, moved>>

Wake(t) ==
    /\ pc[t] = "wait"
    /\ answer[t] # None
    /\ Return(t)
    /\ UNCHANGED <<world, cached_primary, poll_gate, answer, moved>>

(* Mutant of Cancel: no LeaderGuard, a cancelled leader just disappears. *)
CancelUnguarded(t) ==
    /\ pc[t] \in {"lookup", "ping", "wait", "poll", "write"}
    /\ answer' = [answer EXCEPT ![t] = Err]
    /\ Return(t)
    /\ UNCHANGED <<world, cached_primary, poll_gate, moved>>

(* The caller's future is dropped at an await: a timeout or a select!. *)
Cancel(t) ==
    /\ \/ /\ pc[t] \in {"lookup", "ping", "wait"}
          /\ answer' = [answer EXCEPT ![t] = Err]
          /\ Return(t)
       \/ /\ pc[t] \in {"poll", "write"}
          /\ Broadcast(t, Err)
          /\ Goto(t, "drop")
          /\ UNCHANGED <<rx, loop>>
    /\ UNCHANGED <<world, cached_primary, poll_gate, moved>>

----------------------------------------------------------------------------
Init ==
    /\ primary \in Addresses
    /\ cached_primary = None
    /\ poll_gate = None
    /\ pc = [t \in Callers |-> "idle"]
    /\ rx = [t \in Callers |-> None]
    /\ answer = [t \in Callers |-> None]
    /\ round = [t \in Callers |-> 0]
    /\ addr = [t \in Callers |-> None]
    /\ failovers = 0
    /\ moved = [t \in Callers |-> FALSE]

Poll(t) == Found(t) \/ NextAddress(t) \/ NextRound(t) \/ Exhausted(t)
Step(t) ==
    \/ Lookup(t) \/ PingCached(t) \/ Lead(t) \/ Follow(t) \/ Poll(t)
    \/ Send(t) \/ Clear(t) \/ Drop(t) \/ Wake(t)

Next ==
    \/ Failover
    \/ reset_primary
    \/ \E t \in Callers : Call(t) \/ Step(t) \/ CachePrimary(t) \/ Cancel(t)

(* tokio runs every ready task; its RwLock is fair, so a writer waiting for *)
(* the readers of cached_primary is not starved by new ones.                *)
Fairness == \A t \in Callers : WF_vars(Step(t)) /\ SF_vars(CachePrimary(t))

Spec == Init /\ [][Next]_vars
FairSpec == Spec /\ Fairness

----------------------------------------------------------------------------
(* Type correctness. *)
TypeOK ==
    /\ primary \in Addresses \cup {None}
    /\ cached_primary \in Addresses \cup {None}
    /\ poll_gate \in Callers \cup {None}
    /\ pc \in [Callers -> Steps]
    /\ rx \in [Callers -> Callers \cup {None}]
    /\ answer \in [Callers -> Addresses \cup {None, Err}]
    /\ round \in [Callers -> 0 .. MaxRounds]
    /\ addr \in [Callers -> Addresses \cup {None}]
    /\ failovers \in Nat
    /\ moved \in [Callers -> BOOLEAN]

(* No stuck gate: the receiver in the gate belongs to a leader that still    *)
(* runs its poll or its guard, even when leaders are cancelled, so the next  *)
(* caller never follows a flight nobody will finish.                         *)
GateOwned ==
    poll_gate # None => pc[poll_gate] \in Leading \cup {"clear", "drop"}

(* No permanent stall: a follower without a result has a leader that has yet *)
(* to send one, so it never sees a closed channel and never recurses.        *)
FollowersServed ==
    \A t \in Callers :
      pc[t] = "wait" /\ answer[t] = None => pc[rx[t]] \in Leading

(* Both: whoever waits on the gate's channel is served. *)
GateServes == GateOwned /\ FollowersServed

(* An address the client returns is the primary's, unless a failover          *)
(* happened since the ping of the cached address or since the shared poll     *)
(* began: neither a stale cache nor a follower's late join hands out an       *)
(* address that was already deposed.                                          *)
AnswerFresh ==
    \A t \in Callers :
      answer[t] \in Addresses => answer[t] = primary \/ moved[t]

(* Singleflight: at most one caller polls at a time. *)
SingleFlight ==
    \A s, t \in Callers : pc[s] = "poll" /\ pc[t] = "poll" => s = t

(* Every call returns, whatever leaders are cancelled. *)
CallsReturn == \A t \in Callers : pc[t] # "idle" ~> pc[t] = "idle"
=============================================================================
