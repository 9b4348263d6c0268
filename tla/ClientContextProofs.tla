------------------------ MODULE ClientContextProofs ------------------------
(***************************************************************************)
(* Proofs about what a client has running: MasterInquire, which this       *)
(* module extends, BlockReader, ClientContext, ConfigRefresher and         *)
(* Registry, for every number of callers, addresses, rounds, failovers,    *)
(* bytes, frames, increments and edits.                                    *)
(***************************************************************************)
EXTENDS MasterInquire, Sequences, TLAPS

CONSTANTS Closers, MaxCount, MaxChanges, MaxFaults, MAX_RPC_RETRIES,
          Askers, Task, MaxEdits,
          Threads, Metrics, MaxIncs,
          Bytes, ChunkBytes, prefetch_window, buffer_messages, ack_interval_bytes,
          ack_interval_chunks, RequestCap, MaxEmpty, MaxTrouble

VARIABLES api, closed, task, handles, flush, pushClosed, closer, workers, metric,
          beat, changes, faults,
          file, switch, expired, owner, step, seen, read, edits,
          counters, value, phase, metric_of, arc, counted,
          source, at, received, request_tx, acks, since, wire, chan, drainer,
          worker, outcome, empties, troubles

\* The time limits of the provers, in seconds.
USE SMTT(30), ZenonT(60)

(* What a follower that waits for its result knows of its leader: it has    *)
(* one, and a failover the leader's poll has lived through is one the       *)
(* follower has recorded too.                                               *)
Listening ==
    \A t \in Callers : pc[t] = "wait" =>
      /\ rx[t] \in Callers
      /\ answer[t] = None => (moved[rx[t]] => moved[t])

(* A leader polls a real address, and past its poll it holds what it will   *)
(* cache and broadcast.                                                     *)
Holds ==
    \A t \in Callers :
      /\ pc[t] = "poll" => addr[t] \in Addresses
      /\ pc[t] = "write" => answer[t] \in Addresses
      /\ pc[t] \in {"send", "clear", "drop"} => answer[t] \in Addresses \cup {Err}

IInv ==
    TypeOK /\ GateOwned /\ Holds /\ Listening /\ FollowersServed /\ AnswerFresh

(* The constants the provers need apart. *)
LEMMA Values ==
  /\ None \notin Addresses
  /\ Err \notin Addresses
  /\ None # Err
  /\ 1 \in Addresses
  /\ 0 \in 0 .. MaxRounds /\ 1 \in 0 .. MaxRounds
  /\ None \notin Callers
BY InquireAssumption DEF Addresses, None, Err

(* The invariant holds initially. *)
LEMMA InitInv == Init => IInv
<1> SUFFICES ASSUME Init PROVE IInv
  BY ZenonT(60)
<1>1. TypeOK
  BY Values, ZenonT(60) DEF Init, TypeOK, Steps
<1>2. GateOwned /\ Holds /\ Listening /\ FollowersServed
  BY Values, ZenonT(60) DEF Init, GateOwned, Holds, Listening, FollowersServed
<1>3. AnswerFresh
  BY Values, ZenonT(60) DEF Init, AnswerFresh
<1> QED
  BY <1>1, <1>2, <1>3, ZenonT(60) DEF IInv

(* Every step keeps the types. *)
LEMMA TypeStep == TypeOK /\ Holds /\ [Next]_vars => TypeOK'
<1> SUFFICES ASSUME TypeOK, Holds, [Next]_vars PROVE TypeOK'
  BY ZenonT(60)
<1> USE DEF TypeOK
<1>1. CASE Failover
  BY <1>1 DEF Failover, flight, loop
<1>2. CASE reset_primary
  BY <1>2, ZenonT(60) DEF reset_primary, world, flight, loop
<1>3. ASSUME NEW t \in Callers, Call(t) PROVE TypeOK'
  BY <1>3, ZenonT(60) DEF Call, Goto, Steps, world, flight, loop
<1>15. ASSUME NEW t \in Callers, Lookup(t) PROVE TypeOK'
  BY <1>15, ZenonT(60) DEF Lookup, Goto, Steps, world, flight
<1>4. ASSUME NEW t \in Callers, Lead(t) PROVE TypeOK'
  BY <1>4, Values, ZenonT(60) DEF Lead, Goto, Steps, Leading, world
<1>5. ASSUME NEW t \in Callers, PingCached(t) PROVE TypeOK'
  BY <1>5, Values DEF PingCached, Return, Goto, Steps, world, loop
<1>6. ASSUME NEW t \in Callers, Follow(t) PROVE TypeOK'
  BY <1>6, ZenonT(60) DEF Follow, Goto, Steps, world, loop
<1>7. ASSUME NEW t \in Callers, Found(t) \/ Exhausted(t) PROVE TypeOK'
  BY <1>7, ZenonT(60) DEF Found, Exhausted, Goto, Steps, Leading, world, flight, loop
<1>8. ASSUME NEW t \in Callers, CachePrimary(t) PROVE TypeOK'
  BY <1>8, ZenonT(60) DEF CachePrimary, Holds, Goto, Steps, Leading, world, flight, loop
<1>9. ASSUME NEW t \in Callers, NextAddress(t) PROVE TypeOK'
  <2>1. addr[t] + 1 \in Addresses
    BY <1>9, InquireAssumption DEF NextAddress, Addresses, None
  <2> QED
    BY <1>9, <2>1, ZenonT(60) DEF NextAddress, world, flight
<1>10. ASSUME NEW t \in Callers, NextRound(t) PROVE TypeOK'
  <2>1. round[t] + 1 \in 0 .. MaxRounds
    BY <1>10, InquireAssumption DEF NextRound
  <2> QED
    BY <1>10, <2>1, Values, ZenonT(60) DEF NextRound, world, flight
<1>11. ASSUME NEW t \in Callers, Send(t) PROVE TypeOK'
  BY <1>11, ZenonT(60) DEF Send, Broadcast, Goto, Steps, world, flight, loop
<1>12. ASSUME NEW t \in Callers, Clear(t) \/ Drop(t) \/ Wake(t) PROVE TypeOK'
  BY <1>12, Values DEF Clear, Drop, Wake, Return, Goto, Steps, world, loop
<1>13. ASSUME NEW t \in Callers, Cancel(t) PROVE TypeOK'
  BY <1>13, Values DEF Cancel, Broadcast, Return, Goto, Steps, world, loop
<1>14. CASE UNCHANGED vars
  BY <1>14, ZenonT(60) DEF vars, world, flight, loop
<1> QED
  BY <1>1, <1>2, <1>3, <1>4, <1>5, <1>6, <1>7, <1>8, <1>9, <1>10, <1>11,
     <1>12, <1>13, <1>14, <1>15, ZenonT(60)
  DEF Next, Step, Poll

(* No step leaves the gate to a leader that has gone. *)
LEMMA GateStep == TypeOK /\ GateOwned /\ [Next]_vars => GateOwned'
<1> SUFFICES ASSUME TypeOK, GateOwned, [Next]_vars PROVE GateOwned'
  BY ZenonT(60)
<1>1. pc \in [Callers -> Steps] /\ poll_gate \in Callers \cup {None}
      /\ None \notin Callers
  BY Values, ZenonT(60) DEF TypeOK
<1> USE <1>1 DEF GateOwned, Leading
<1>2. CASE Failover \/ reset_primary \/ UNCHANGED vars
  BY <1>2, ZenonT(60) DEF Failover, reset_primary, vars, flight
<1>3. ASSUME NEW t \in Callers,
             Call(t) \/ Lookup(t) \/ PingCached(t) \/ Lead(t) \/ Follow(t)
      PROVE  GateOwned'
  BY <1>3, ZenonT(60) DEF Call, Lookup, PingCached, Lead, Follow, Return, Goto, flight
<1>4. ASSUME NEW t \in Callers, Poll(t) \/ CachePrimary(t) PROVE GateOwned'
  BY <1>4, ZenonT(60) DEF Poll, Found, NextAddress, NextRound, Exhausted, CachePrimary,
              Goto, flight
<1>5. ASSUME NEW t \in Callers,
             Send(t) \/ Clear(t) \/ Drop(t) \/ Wake(t) \/ Cancel(t)
      PROVE  GateOwned'
  BY <1>5, ZenonT(60) DEF Send, Clear, Drop, Wake, Cancel, Return, Goto, flight
<1> QED
  BY <1>2, <1>3, <1>4, <1>5, ZenonT(60) DEF Next, Step

(* A leader's result outlives its poll. *)
LEMMA HoldsStep == TypeOK /\ Holds /\ [Next]_vars => Holds'
<1> SUFFICES ASSUME TypeOK, Holds, [Next]_vars PROVE Holds'
  BY ZenonT(60)
<1>1. /\ pc \in [Callers -> Steps] /\ addr \in [Callers -> Addresses \cup {None}]
      /\ answer \in [Callers -> Addresses \cup {None, Err}]
  BY ZenonT(60) DEF TypeOK
<1> USE <1>1 DEF Holds
<1>2. CASE Failover \/ reset_primary \/ UNCHANGED vars
  BY <1>2, ZenonT(60) DEF Failover, reset_primary, vars, loop
<1>3. ASSUME NEW t \in Callers,
             Call(t) \/ Lookup(t) \/ PingCached(t) \/ Follow(t)
      PROVE  Holds'
  BY <1>3, ZenonT(60) DEF Call, Lookup, PingCached, Follow, Return, Goto, loop
<1>4. ASSUME NEW t \in Callers, Lead(t) \/ NextRound(t) PROVE Holds'
  BY <1>4, Values, ZenonT(60) DEF Lead, NextRound, Goto
<1>5. ASSUME NEW t \in Callers, Found(t) \/ Exhausted(t) \/ CachePrimary(t)
      PROVE  Holds'
  BY <1>5, ZenonT(60) DEF Found, Exhausted, CachePrimary, Goto, loop
<1>8. ASSUME NEW t \in Callers, NextAddress(t) PROVE Holds'
  <2>1. addr[t] + 1 \in Addresses
    BY <1>8, InquireAssumption DEF NextAddress, Addresses, None
  <2> QED
    BY <1>8, <2>1, ZenonT(60) DEF NextAddress
<1>6. ASSUME NEW t \in Callers, Send(t) \/ Clear(t) \/ Drop(t) \/ Wake(t)
      PROVE  Holds'
  BY <1>6, ZenonT(60) DEF Send, Broadcast, Clear, Drop, Wake, Return, Goto, loop
<1>7. ASSUME NEW t \in Callers, Cancel(t) PROVE Holds'
  BY <1>7, ZenonT(60) DEF Cancel, Broadcast, Return, Goto, loop
<1> QED
  BY <1>2, <1>3, <1>4, <1>5, <1>6, <1>7, <1>8, ZenonT(60) DEF Next, Step, Poll

(* Followers keep a live leader, and what the leader hands them is no       *)
(* staler than they know.                                                   *)
LEMMA FollowStep ==
  ASSUME IInv, [Next]_vars
  PROVE  (Listening /\ FollowersServed /\ AnswerFresh)'
<1> DEFINE Good == Listening /\ FollowersServed /\ AnswerFresh
<1>1. /\ pc \in [Callers -> Steps] /\ answer \in [Callers -> Addresses \cup {None, Err}]
      /\ moved \in [Callers -> BOOLEAN] /\ rx \in [Callers -> Callers \cup {None}]
      /\ addr \in [Callers -> Addresses \cup {None}]
      /\ poll_gate \in Callers \cup {None}
      /\ None \notin Callers /\ None \notin Addresses /\ Err \notin Addresses
      /\ None # Err
  BY Values, ZenonT(60) DEF IInv, TypeOK
<1>2. Good /\ GateOwned /\ Holds
  BY ZenonT(60) DEF IInv
<1> USE <1>1, <1>2 DEF Listening, FollowersServed, AnswerFresh
<1>3. CASE Failover
  BY <1>3, ZenonT(60) DEF Failover, flight
<1>4. CASE reset_primary \/ UNCHANGED vars
  BY <1>4, ZenonT(60) DEF reset_primary, vars, flight, world
<1>5. ASSUME NEW t \in Callers, Call(t) \/ Lookup(t) PROVE Good'
  BY <1>5 DEF Call, Lookup, Goto, flight, world, Leading
<1>6. ASSUME NEW t \in Callers, PingCached(t) PROVE Good'
  BY <1>6 DEF PingCached, Return, Goto, world, Leading
<1>7. ASSUME NEW t \in Callers, Lead(t) PROVE Good'
  BY <1>7, ZenonT(60) DEF Lead, Goto, world, Leading
<1>8. ASSUME NEW t \in Callers, Follow(t) PROVE Good'
  BY <1>8, ZenonT(60) DEF Follow, Sent, GateOwned, Holds, Goto, world, Leading
<1>9. ASSUME NEW t \in Callers, Poll(t) \/ CachePrimary(t) PROVE Good'
  BY <1>9 DEF Poll, Found, NextAddress, NextRound, Exhausted, CachePrimary,
              Goto, flight, world, Leading
<1>10. ASSUME NEW t \in Callers, Send(t) PROVE Good'
  BY <1>10 DEF Send, Broadcast, Holds, Goto, flight, world, Leading
<1>11. ASSUME NEW t \in Callers, Clear(t) \/ Drop(t) \/ Wake(t) PROVE Good'
  BY <1>11 DEF Clear, Drop, Wake, Return, Goto, flight, world, Leading
<1>12. ASSUME NEW t \in Callers, Cancel(t) PROVE Good'
  BY <1>12 DEF Cancel, Broadcast, Return, Goto, flight, world, Leading
<1> QED
  BY <1>3, <1>4, <1>5, <1>6, <1>7, <1>8, <1>9, <1>10, <1>11, <1>12, ZenonT(60)
  DEF Next, Step

(* The invariant holds in every reachable state. *)
THEOREM Invariance == Spec => []IInv
<1>1. IInv /\ [Next]_vars => IInv'
  BY TypeStep, GateStep, HoldsStep, FollowStep, ZenonT(60) DEF IInv
<1> QED
  BY InitInv, <1>1, PTL DEF Spec

(* The gate never holds a receiver whose leader has gone, however leaders   *)
(* are cancelled, and a follower never waits on a channel nobody will send  *)
(* on.                                                                      *)
THEOREM GateIsServed == Spec => []GateServes
<1>1. IInv => GateServes
  BY ZenonT(60) DEF IInv, GateServes
<1> QED
  BY <1>1, Invariance, PTL

(* A returned address was the primary's when the shared poll pinged it. *)
THEOREM AnswersAreFresh == Spec => []AnswerFresh
<1>1. IInv => AnswerFresh
  BY ZenonT(60) DEF IInv
<1> QED
  BY <1>1, Invariance, PTL

----------------------------------------------------------------------------
reader == INSTANCE BlockReader WITH task <- drainer

(* The ledger of a sequence of frames is a running count from what was     *)
(* received; it never passes what the worker has sent, so no frame under    *)
(* way can take the reader past the range, and an end under way is one the  *)
(* worker has sent.                                                         *)

\* The bytes of the frames s, counted on from lo, do not go past hi.
Ledger(lo, s, hi) ==
    \E f \in [0 .. Len(s) -> Nat] :
        /\ lo <= f[0] /\ f[Len(s)] <= hi
        /\ \A i \in 1 .. Len(s) : f[i - 1] + s[i] <= f[i]
        /\ \A i, j \in 0 .. Len(s) : i <= j => f[i] <= f[j]

\* What was received is no more than what was sent.
LEMMA LedgerOrder ==
  ASSUME NEW lo \in Nat, NEW hi \in Nat, NEW s \in Seq(Int), Ledger(lo, s, hi)
  PROVE  lo <= hi
<1>1. PICK f \in [0 .. Len(s) -> Nat] :
         /\ lo <= f[0] /\ f[Len(s)] <= hi
         /\ \A i, j \in 0 .. Len(s) : i <= j => f[i] <= f[j]
  BY ZenonT(60) DEF Ledger
<1>2. f[0] \in Nat /\ f[Len(s)] \in Nat /\ f[0] <= f[Len(s)]
  BY <1>1
<1> QED
  BY <1>1, <1>2

\* With no frame under way the ledger is a single entry.
LEMMA LedgerEmpty ==
  ASSUME NEW lo \in Nat, NEW hi \in Nat, lo <= hi
  PROVE  Ledger(lo, <<>>, hi)
<1> DEFINE f == [i \in 0 .. 0 |-> lo]
<1>1. f \in [0 .. Len(<<>>) -> Nat] /\ f[0] = lo /\ Len(<<>>) = 0
  OBVIOUS
<1> HIDE DEF f
<1> QED
  BY <1>1 DEF Ledger

\* A frame the worker sends extends the ledger by its bytes.
LEMMA LedgerAppend ==
  ASSUME NEW lo \in Nat, NEW hi \in Nat, NEW s \in Seq(Int), Ledger(lo, s, hi),
         NEW k \in Int, NEW up \in Nat, hi <= up, hi + k <= up
  PROVE  Ledger(lo, Append(s, k), up)
<1>1. PICK f \in [0 .. Len(s) -> Nat] :
         /\ lo <= f[0] /\ f[Len(s)] <= hi
         /\ \A i \in 1 .. Len(s) : f[i - 1] + s[i] <= f[i]
         /\ \A i, j \in 0 .. Len(s) : i <= j => f[i] <= f[j]
  BY ZenonT(60) DEF Ledger
<1> DEFINE n == Len(s) + 1
           g == [i \in 0 .. n |-> IF i = n THEN up ELSE f[i]]
<1>2. /\ Len(Append(s, k)) = n /\ n \in Nat /\ n >= 1 /\ Append(s, k)[n] = k
      /\ \A i \in 1 .. Len(s) : Append(s, k)[i] = s[i]
  OBVIOUS
<1>3. g \in [0 .. n -> Nat] /\ g[n] = up /\ \A i \in 0 .. Len(s) : g[i] = f[i]
  OBVIOUS
<1> HIDE DEF g
<1>4. \A i, j \in 0 .. n : i <= j => g[i] <= g[j]
  <2> SUFFICES ASSUME NEW i \in 0 .. n, NEW j \in 0 .. n, i <= j PROVE g[i] <= g[j]
    BY ZenonT(60)
  <2>1. Len(s) \in 0 .. Len(s) /\ f[Len(s)] \in Nat
    OBVIOUS
  <2>2. \A q \in 0 .. Len(s) : f[q] \in Nat /\ f[q] <= up
    <3> SUFFICES ASSUME NEW q \in 0 .. Len(s) PROVE f[q] \in Nat /\ f[q] <= up
      BY ZenonT(60)
    <3>1. q <= Len(s) /\ f[q] \in Nat
      OBVIOUS
    <3>2. f[q] <= f[Len(s)] /\ f[Len(s)] <= hi
      BY <1>1, <2>1, <3>1, ZenonT(60)
    <3> QED
      BY <2>1, <3>1, <3>2
  <2>3. CASE j = n
    <3>1. i = n \/ i \in 0 .. Len(s)
      OBVIOUS
    <3> QED
      BY <1>3, <2>2, <2>3, <3>1
  <2>4. CASE j # n
    <3>1. i \in 0 .. Len(s) /\ j \in 0 .. Len(s)
      BY <2>4
    <3> QED
      BY <1>1, <1>3, <3>1, ZenonT(60)
  <2> QED
    BY <2>3, <2>4, ZenonT(60)
<1>5. \A i \in 1 .. n : g[i - 1] + Append(s, k)[i] <= g[i]
  <2> SUFFICES ASSUME NEW i \in 1 .. n PROVE g[i - 1] + Append(s, k)[i] <= g[i]
    BY ZenonT(60)
  <2>1. CASE i = n
    <3>1. g[i - 1] = f[Len(s)] /\ f[Len(s)] \in Nat
      BY <1>3, <2>1
    <3> QED
      BY <1>1, <1>2, <1>3, <2>1, <3>1
  <2>2. CASE i # n
    <3>1. i \in 1 .. Len(s) /\ i - 1 \in 0 .. Len(s) /\ i \in 0 .. Len(s)
      BY <2>2
    <3> QED
      BY <1>1, <1>2, <1>3, <3>1, ZenonT(60)
  <2> QED
    BY <2>1, <2>2, ZenonT(60)
<1>6. lo <= g[0] /\ g[n] <= up
  BY <1>1, <1>3
<1> QED
  BY <1>2, <1>3, <1>4, <1>5, <1>6, ZenonT(60) DEF Ledger

\* A frame that is taken, or dropped, leaves the rest of the ledger.
LEMMA LedgerTail ==
  ASSUME NEW lo \in Nat, NEW hi \in Nat, NEW s \in Seq(Int), s # <<>>, Ledger(lo, s, hi),
         NEW m \in Nat, m = lo \/ m = lo + Head(s)
  PROVE  Ledger(m, Tail(s), hi)
<1>1. PICK f \in [0 .. Len(s) -> Nat] :
         /\ lo <= f[0] /\ f[Len(s)] <= hi
         /\ \A i \in 1 .. Len(s) : f[i - 1] + s[i] <= f[i]
         /\ \A i, j \in 0 .. Len(s) : i <= j => f[i] <= f[j]
  BY ZenonT(60) DEF Ledger
<1> DEFINE n == Len(s) - 1
           g == [i \in 0 .. n |-> f[i + 1]]
<1>2. /\ Len(Tail(s)) = n /\ n \in Nat /\ Head(s) = s[1] /\ Head(s) \in Int
      /\ \A i \in 1 .. n : Tail(s)[i] = s[i + 1]
  OBVIOUS
<1>3. g \in [0 .. n -> Nat] /\ \A i \in 0 .. n : g[i] = f[i + 1]
  BY <1>2
<1>4. \A i, j \in 0 .. n : i <= j => g[i] <= g[j]
  BY <1>1, <1>2, <1>3
<1>5. \A i \in 1 .. n : g[i - 1] + Tail(s)[i] <= g[i]
  <2> SUFFICES ASSUME NEW i \in 1 .. n PROVE g[i - 1] + Tail(s)[i] <= g[i]
    BY ZenonT(60)
  <2>1. i + 1 \in 1 .. Len(s) /\ (i + 1) - 1 = i /\ i - 1 \in 0 .. n /\ (i - 1) + 1 = i
    BY <1>2
  <2>2. f[i] + s[i + 1] <= f[i + 1]
    BY <1>1, <2>1, ZenonT(60)
  <2> QED
    BY <1>2, <1>3, <2>1, <2>2
<1>6. m <= g[0] /\ g[n] <= hi
  <2>1. g[0] = f[1] /\ g[n] = f[Len(s)] /\ f[0] <= f[1] /\ f[0] + s[1] <= f[1]
    <3>1. /\ 0 \in 0 .. n /\ n \in 0 .. n /\ 0 + 1 = 1 /\ n + 1 = Len(s) /\ 1 - 1 = 0
          /\ 1 \in 1 .. Len(s) /\ 0 \in 0 .. Len(s) /\ 1 \in 0 .. Len(s) /\ 0 <= 1
      <4> HIDE DEF g
      <4> QED
        BY <1>2
    <3> HIDE DEF g, n
    <3> QED
      BY <1>1, <1>3, <3>1, ZenonT(60)
  <2> QED
    BY <1>1, <1>2, <2>1
<1> HIDE DEF g
<1> QED
  BY <1>2, <1>3, <1>4, <1>5, <1>6, ZenonT(60) DEF Ledger

\* What a queue holds: chunks, empty frames, the end and an error.
Frames == {x \in Int : x >= reader!Error}

\* The bytes the worker has sent cover what was received and what is under way.
Owed == \E mid \in Nat : Ledger(received, chan, mid) /\ Ledger(mid, wire, worker.sent)

\* An end under way in the queue s is one the worker has sent.
EndKnown(s) == \A i \in DOMAIN s : s[i] = reader!End => worker.rpc = "ended"

\* The frames of a queue after one is added, and after one is taken.
LEMMA FramesAppended ==
  ASSUME NEW s \in Seq(Frames), NEW e \in Frames, EndKnown(s),
         e = reader!End => worker.rpc = "ended"
  PROVE  EndKnown(Append(s, e))
<1>1. \A i \in DOMAIN Append(s, e) :
         Append(s, e)[i] = e \/ \E j \in DOMAIN s : Append(s, e)[i] = s[j]
  OBVIOUS
<1> QED
  BY <1>1, ZenonT(60) DEF EndKnown
LEMMA FramesTaken ==
  ASSUME NEW s \in Seq(Frames), s # <<>>, EndKnown(s)
  PROVE  /\ EndKnown(Tail(s)) /\ Head(s) \in Frames
         /\ Head(s) = reader!End => worker.rpc = "ended"
<1>1. Head(s) = s[1] /\ 1 \in DOMAIN s
  OBVIOUS
<1>2. \A i \in DOMAIN Tail(s) : i + 1 \in DOMAIN s /\ Tail(s)[i] = s[i + 1]
  OBVIOUS
<1>3. Head(s) \in Frames
  OBVIOUS
<1> QED
  BY <1>1, <1>2, <1>3, ZenonT(60) DEF EndKnown

\* The inductive invariant.
ReaderInv ==
    /\ reader!TypeOK
    /\ wire \in Seq(Frames) /\ chan \in Seq(Frames) /\ acks \in Seq(Nat)
    /\ worker \in [sent : 0 .. Bytes, flight : SUBSET Nat, lock : BOOLEAN,
                   rpc : {"none", "open", "ended", "failed", "abandoned", "cancelled"}]
    /\ Owed /\ EndKnown(wire) /\ EndKnown(chan)
    /\ at = "new" => worker.rpc = "none"
    /\ at \in {"new", "opening"} => outcome = "none"
    /\ reader!Direct \/ at \in {"new", "opening"} => drainer = "none"
    /\ drainer = "none" => chan = <<>>
    /\ reader!NeverShort

\* A reader that is not opened yet has nothing under way.
LEMMA ReaderInit ==
  ASSUME reader!ReaderAssumption
  PROVE  reader!Init => ReaderInv
<1> SUFFICES ASSUME reader!Init PROVE ReaderInv
  BY ZenonT(60)
<1>1. Bytes \in Nat /\ RequestCap \in Nat /\ buffer_messages \in Nat
  BY ZenonT(60) DEF reader!ReaderAssumption
<1>2. Ledger(0, <<>>, 0)
  BY LedgerEmpty
<1>3. Owed
  BY <1>2, ZenonT(60) DEF reader!Init, reader!NoWorker, Owed
<1>4. worker \in [sent : 0 .. Bytes, flight : SUBSET Nat, lock : BOOLEAN,
                  rpc : {"none", "open", "ended", "failed", "abandoned", "cancelled"}]
  BY <1>1 DEF reader!Init, reader!NoWorker
<1>5. reader!TypeOK
  <2>1. request_tx \in BOOLEAN
    BY Zenon DEF reader!Init
  <2>2. worker.rpc = "none" /\ Len(acks) = 0 /\ Len(chan) = 0
    BY ZenonT(60) DEF reader!Init, reader!NoWorker
  <2> QED
    BY <1>1, <2>1, <2>2 DEF reader!Init, reader!TypeOK
<1>6. reader!NeverShort
  BY ZenonT(60) DEF reader!Init, reader!NeverShort
<1> QED
  BY <1>3, <1>4, <1>5, <1>6 DEF reader!Init, ReaderInv, reader!Direct, EndKnown, reader!NoWorker

\* A reader has received no more than the worker has sent.
LEMMA OwedIsSent ==
  ASSUME reader!ReaderAssumption,
         ReaderInv PROVE received \in Nat /\ worker.sent \in Nat /\ received <= worker.sent
<1>1. Bytes \in Nat
  BY ZenonT(60) DEF reader!ReaderAssumption
<1>2. received \in Nat /\ worker.sent \in Nat /\ wire \in Seq(Int) /\ chan \in Seq(Int)
  BY <1>1 DEF ReaderInv, reader!TypeOK, Frames
<1>3. PICK mid \in Nat : Ledger(received, chan, mid) /\ Ledger(mid, wire, worker.sent)
  BY ZenonT(60) DEF ReaderInv, Owed
<1>4. received <= mid /\ mid <= worker.sent
  BY <1>2, <1>3, LedgerOrder, ZenonT(60)
<1> QED
  BY <1>2, <1>4

\* Letting go of frames keeps what is owed.
LEMMA OwedWhenCleared ==
  ASSUME reader!ReaderAssumption, ReaderInv, wire' = <<>>, chan' \in {<<>>, chan},
         received' = received,
         worker'.sent = worker.sent
  PROVE  Owed'
<1>1. received \in Nat /\ worker.sent \in Nat /\ received <= worker.sent
  BY OwedIsSent, ZenonT(60)
<1>2. CASE chan' = <<>>
  <2>1. Ledger(received, <<>>, received) /\ Ledger(received, <<>>, worker.sent)
    BY <1>1, LedgerEmpty
  <2> QED
    BY <1>1, <1>2, <2>1, ZenonT(60) DEF Owed
<1>3. CASE chan' = chan
  <2>1. PICK mid \in Nat : Ledger(received, chan, mid) /\ Ledger(mid, wire, worker.sent)
    BY ZenonT(60) DEF ReaderInv, Owed
  <2>2. mid <= worker.sent
    BY <1>1, <2>1, LedgerOrder DEF ReaderInv, Frames
  <2>3. Ledger(mid, <<>>, worker.sent)
    BY <1>1, <2>2, LedgerEmpty, ZenonT(60)
  <2> QED
    BY <1>3, <2>1, <2>3, ZenonT(60) DEF Owed
<1> QED
  BY <1>2, <1>3, ZenonT(60)

\* One more frame from the worker.
LEMMA OwedWhenSent ==
  ASSUME reader!ReaderAssumption, ReaderInv, NEW k \in Frames, wire' = Append(wire, k),
         UNCHANGED <<chan, received>>,
         worker'.sent \in Nat, worker.sent <= worker'.sent, worker.sent + k <= worker'.sent
  PROVE  Owed' /\ wire' \in Seq(Frames)
<1>1. worker.sent \in Nat
  BY OwedIsSent, ZenonT(60)
<1>2. PICK mid \in Nat : Ledger(received, chan, mid) /\ Ledger(mid, wire, worker.sent)
  BY ZenonT(60) DEF ReaderInv, Owed
<1>3. wire \in Seq(Int) /\ k \in Int /\ wire \in Seq(Frames)
  BY DEF ReaderInv, Frames
<1>4. Ledger(mid, wire', worker'.sent)
  BY <1>1, <1>2, <1>3, LedgerAppend, ZenonT(60)
<1> QED
  BY <1>2, <1>3, <1>4 DEF Owed

\* The drain task passes a frame on.
LEMMA OwedWhenDrained ==
  ASSUME reader!ReaderAssumption, ReaderInv, wire # <<>>, wire' = Tail(wire),
         chan' = Append(chan, Head(wire)),
         received' = received, worker'.sent = worker.sent
  PROVE  Owed' /\ wire' \in Seq(Frames) /\ chan' \in Seq(Frames)
<1>1. received \in Nat /\ worker.sent \in Nat
  BY OwedIsSent, ZenonT(60)
<1>2. PICK mid \in Nat : Ledger(received, chan, mid) /\ Ledger(mid, wire, worker.sent)
  BY ZenonT(60) DEF ReaderInv, Owed
<1>3. /\ wire \in Seq(Frames) /\ chan \in Seq(Frames) /\ Head(wire) \in Frames
      /\ Tail(wire) \in Seq(Frames)
  BY DEF ReaderInv
<1>4. wire \in Seq(Int) /\ chan \in Seq(Int) /\ Head(wire) \in Int
  BY <1>3 DEF Frames
<1> DEFINE m == IF Head(wire) > 0 THEN mid + Head(wire) ELSE mid
<1>5. m \in Nat /\ mid <= m /\ mid + Head(wire) <= m /\ (m = mid \/ m = mid + Head(wire))
  BY <1>4
<1> HIDE DEF m
<1>6. Ledger(received, chan', m)
  BY <1>1, <1>2, <1>4, <1>5, LedgerAppend, ZenonT(60)
<1>7. Ledger(m, wire', worker.sent)
  BY <1>1, <1>2, <1>4, <1>5, LedgerTail, ZenonT(60)
<1> QED
  BY <1>3, <1>5, <1>6, <1>7 DEF Owed

\* A queue that loses its head, or nothing, has no frame it had not before.
LEMMA TailOrSame ==
  ASSUME NEW S, NEW s \in Seq(S), NEW t, t = s \/ (s # <<>> /\ t = Tail(s))
  PROVE  /\ t \in Seq(S) /\ Len(t) <= Len(s) /\ (s = <<>> => t = <<>>)
         /\ \A i \in DOMAIN t : \E j \in DOMAIN s : t[i] = s[j]
<1>1. CASE t = s
  BY <1>1
<1>2. CASE s # <<>> /\ t = Tail(s)
  <2>1. t \in Seq(S) /\ Len(t) = Len(s) - 1 /\ \A i \in 1 .. Len(t) : t[i] = s[i + 1]
    BY <1>2
  <2>2. ASSUME NEW i \in DOMAIN t PROVE \E j \in DOMAIN s : t[i] = s[j]
    <3>1. i \in 1 .. Len(t) /\ i + 1 \in 1 .. Len(s)
      BY <2>1
    <3>2. i + 1 \in DOMAIN s /\ t[i] = s[i + 1]
      BY <2>1, <3>1
    <3> QED
      BY <3>2, ZenonT(60)
  <2>3. Len(t) <= Len(s)
    BY <2>1
  <2> QED
    BY <1>2, <2>1, <2>2, <2>3, ZenonT(60)
<1> QED
  BY <1>1, <1>2, ZenonT(60)

\* The reader takes a frame that is data or empty.
LEMMA OwedWhenTaken ==
  ASSUME reader!ReaderAssumption, ReaderInv, reader!recv # <<>>, Head(reader!recv) >= 0,
         reader!Take,
         worker'.sent = worker.sent,
         received' \in {received, received + Head(reader!recv)}
  PROVE  /\ Owed' /\ received' \in 0 .. Bytes
         /\ wire' = wire \/ (wire # <<>> /\ wire' = Tail(wire))
         /\ chan' = chan \/ (chan # <<>> /\ chan' = Tail(chan))
<1>1. received \in Nat /\ worker.sent \in 0 .. Bytes /\ Bytes \in Nat
  BY OwedIsSent, ZenonT(60) DEF ReaderInv, reader!ReaderAssumption
<1>2. PICK mid \in Nat : Ledger(received, chan, mid) /\ Ledger(mid, wire, worker.sent)
  BY ZenonT(60) DEF ReaderInv, Owed
<1>3. wire \in Seq(Int) /\ chan \in Seq(Int)
  BY DEF ReaderInv, Frames
<1>4. mid <= worker.sent /\ received <= mid
  BY <1>1, <1>2, <1>3, LedgerOrder
<1>5. CASE reader!Direct
  <2>1. reader!recv = wire /\ chan = <<>>
    BY <1>5, ZenonT(60) DEF reader!recv, ReaderInv
  <2>2. wire' = Tail(wire) /\ chan' = chan /\ wire # <<>> /\ Head(wire) \in Nat
    <3>1. wire # <<>> /\ Head(wire) \in Int /\ Head(wire) >= 0
      BY <1>3, <2>1
    <3>2. Head(wire) # reader!End /\ Head(wire) \in Nat
      BY <3>1 DEF reader!End
    <3> QED
      BY <1>5, <3>1, <3>2, ZenonT(60) DEF reader!Take
  <2> DEFINE m == mid + Head(wire)
  <2>3. m \in Nat /\ worker.sent \in Nat /\ m = mid + Head(wire)
    BY <1>1, <2>2
  <2> HIDE DEF m
  <2>4. Ledger(m, Tail(wire), worker.sent) /\ Tail(wire) \in Seq(Int)
    BY <1>2, <1>3, <2>2, <2>3, LedgerTail
  <2>5. m <= worker.sent
    BY <2>3, <2>4, LedgerOrder, ZenonT(60)
  <2>6. received' \in Nat /\ received' <= m
    BY <1>1, <1>4, <2>1, <2>2, <2>3
  <2>7. Ledger(received', <<>>, m)
    BY <2>3, <2>6, LedgerEmpty, ZenonT(60)
  <2> QED
    BY <1>1, <2>1, <2>2, <2>3, <2>4, <2>5, <2>6, <2>7 DEF Owed
<1>6. CASE ~reader!Direct
  <2>1. reader!recv = chan /\ chan # <<>>
    BY <1>6 DEF reader!recv, reader!Error
  <2>2. wire' = wire /\ chan' = Tail(chan) /\ Head(chan) \in Nat
    <3>1. Head(chan) \in Int /\ Head(chan) >= 0
      BY <1>3, <2>1
    <3> QED
      BY <1>6, <2>1, <3>1 DEF reader!Take
  <2>3. received' \in Nat /\ (received' = received \/ received' = received + Head(chan))
    BY <1>1, <2>1, <2>2
  <2>4. Ledger(received', Tail(chan), mid) /\ Tail(chan) \in Seq(Int)
    BY <1>1, <1>2, <1>3, <2>1, <2>3, LedgerTail
  <2>5. received' <= mid
    BY <2>3, <2>4, LedgerOrder, ZenonT(60)
  <2> QED
    BY <1>1, <1>2, <1>4, <2>1, <2>2, <2>3, <2>4, <2>5 DEF Owed
<1> QED
  BY <1>5, <1>6, ZenonT(60)

\* Every step of the caller, of the drain task and of the worker keeps the
\* ledger.
LEMMA ReaderKeeps ==
  ASSUME reader!ReaderAssumption
  PROVE  ReaderInv /\ [reader!Next]_reader!vars => ReaderInv'
<1> SUFFICES ASSUME ReaderInv, [reader!Next]_reader!vars PROVE ReaderInv'
  BY ZenonT(60)
<1>1. Bytes \in Nat /\ ChunkBytes \in Nat /\ RequestCap \in Nat /\ buffer_messages \in Nat
  BY ZenonT(60) DEF reader!ReaderAssumption
<1> DEFINE Rpcs == {"none", "open", "ended", "failed", "abandoned", "cancelled"}
           Record == [sent : 0 .. Bytes, flight : SUBSET Nat, lock : BOOLEAN, rpc : Rpcs]
<1> USE DEF reader!readerVars, reader!streamVars
<1>2. /\ source \in {"none", "open", "open_sequential", "positioned_read"}
      /\ at \in {"new", "opening", "held", "recv", "all", "done"}
      /\ received \in 0 .. Bytes /\ request_tx \in BOOLEAN
      /\ Len(acks) <= RequestCap /\ Len(chan) <= buffer_messages
      /\ drainer \in {"none", "running", "gone"}
      /\ outcome \in {"none", "chunk", "end", "whole", "error", "short"}
      /\ wire \in Seq(Frames) /\ chan \in Seq(Frames) /\ acks \in Seq(Nat)
      /\ worker \in Record
  BY ZenonT(60) DEF ReaderInv, reader!TypeOK
<1>3. /\ Owed /\ EndKnown(wire) /\ EndKnown(chan)
      /\ at = "new" => worker.rpc = "none"
      /\ at \in {"new", "opening"} => outcome = "none"
      /\ source \in {"open", "positioned_read"} \/ at \in {"new", "opening"} => drainer = "none"
      /\ drainer = "none" => chan = <<>>
      /\ outcome = "whole" => received = Bytes
      /\ outcome = "end" => received = Bytes \/ worker.rpc = "ended"
  BY ZenonT(60) DEF ReaderInv, reader!NeverShort, reader!Direct
<1>4. ASSUME /\ source' \in {"none", "open", "open_sequential", "positioned_read"}
             /\ at' \in {"new", "opening", "held", "recv", "all", "done"}
             /\ received' \in 0 .. Bytes /\ request_tx' \in BOOLEAN
             /\ Len(acks') <= RequestCap /\ Len(chan') <= buffer_messages
             /\ drainer' \in {"none", "running", "gone"}
             /\ outcome' \in {"none", "chunk", "end", "whole", "error", "short"}
             /\ wire' \in Seq(Frames) /\ chan' \in Seq(Frames) /\ acks' \in Seq(Nat)
             /\ worker' \in Record,
             Owed', EndKnown(wire)', EndKnown(chan)',
             /\ at' = "new" => worker'.rpc = "none"
             /\ at' \in {"new", "opening"} => outcome' = "none"
             /\ source' \in {"open", "positioned_read"} \/ at' \in {"new", "opening"}
                   => drainer' = "none"
             /\ drainer' = "none" => chan' = <<>>
             /\ outcome' = "whole" => received' = Bytes
             /\ outcome' = "end" => received' = Bytes \/ worker'.rpc = "ended"
      PROVE  ReaderInv'
  BY <1>4, ZenonT(60) DEF ReaderInv, reader!TypeOK, reader!NeverShort, reader!Direct
<1>5. ASSUME NEW how \in {"open", "open_sequential", "positioned_read"}, reader!Request(how)
      PROVE  ReaderInv'
  <2>1. worker' \in Record /\ worker'.sent = worker.sent /\ worker.rpc = "none"
    BY <1>2, <1>3, <1>5, ZenonT(60) DEF reader!Request
  <2>2. Owed' /\ EndKnown(wire)' /\ EndKnown(chan)'
    BY <1>3, <1>5, <2>1, ZenonT(60) DEF reader!Request, Owed, EndKnown
  <2> QED
    BY <1>2, <1>3, <1>4, <1>5, <2>1, <2>2, ZenonT(60) DEF reader!Request
<1>6. ASSUME UNCHANGED <<wire, chan, received, worker>>
      PROVE  (Owed /\ EndKnown(wire) /\ EndKnown(chan))'
  BY <1>3, <1>6, ZenonT(60) DEF Owed, EndKnown
<1>7. CASE reader!open \/ reader!open_sequential \/ reader!positioned_read
  BY <1>2, <1>3, <1>4, <1>6, <1>7, ZenonT(60) DEF reader!open, reader!open_sequential,
    reader!positioned_read, reader!Headers
<1>8. CASE reader!read_chunk
  <2>1. at' \in {"recv", "all"} /\ outcome' = "none"
        /\ UNCHANGED <<source, received, request_tx, acks, wire, chan, drainer, worker>>
    BY <1>8, ZenonT(60) DEF reader!read_chunk
  <2> QED
    BY <1>2, <1>3, <1>4, <1>6, <2>1, ZenonT(60)
<1>9. CASE reader!half_close
  <2>1. /\ request_tx' = FALSE /\ outcome' = "end" /\ at' = "held" /\ received = Bytes
        /\ UNCHANGED <<source, received, acks, wire, chan, drainer, worker>>
    BY <1>1, <1>2, <1>9 DEF reader!half_close, reader!Returns
  <2>2. request_tx' \in BOOLEAN
    BY <2>1, Zenon
  <2> QED
    BY <1>2, <1>3, <1>4, <1>6, <2>1, <2>2, ZenonT(60)
<1>10. CASE reader!TakeAck \/ reader!Completed
  <2>1. /\ worker' \in Record /\ worker'.sent = worker.sent /\ worker'.rpc = worker.rpc
        /\ acks' \in Seq(Nat) /\ Len(acks') <= RequestCap
        /\ UNCHANGED <<reader!readerVars, wire, chan, drainer>>
    <3>1. CASE reader!TakeAck
      <4>1. {f \in worker.flight : f > Head(acks)} \in SUBSET Nat
        BY <1>2, ZenonT(60)
      <4>2. acks' \in Seq(Nat) /\ Len(acks') <= RequestCap
        BY <1>1, <1>2, <3>1 DEF reader!TakeAck
      <4>3. /\ worker' = [worker EXCEPT !.flight = {f \in worker.flight : f > Head(acks)}]
            /\ UNCHANGED <<reader!readerVars, wire, chan, drainer>>
        BY <3>1, ZenonT(60) DEF reader!TakeAck
      <4> HIDE DEF reader!readerVars
      <4> QED
        BY <1>2, <4>1, <4>2, <4>3, ZenonT(60)
    <3>2. CASE reader!Completed
      BY <1>2, <3>2, ZenonT(60) DEF reader!Completed
    <3> QED
      BY <1>10, <3>1, <3>2, ZenonT(60)
  <2>2. Owed' /\ EndKnown(wire)' /\ EndKnown(chan)'
    BY <1>3, <2>1, ZenonT(60) DEF Owed, EndKnown
  <2> QED
    BY <1>2, <1>3, <1>4, <2>1, <2>2, ZenonT(60)
<1>11. CASE reader!open_fails \/ reader!open_dropped
  <2>1. /\ worker' \in Record /\ worker'.sent = worker.sent /\ chan = <<>> /\ chan' = <<>>
        /\ wire' = <<>> /\ acks' = <<>> /\ received' = received /\ drainer' = drainer
        /\ request_tx' = FALSE /\ outcome = "none" /\ outcome' \in {"error", "none"}
        /\ source' = "none" /\ at' = "done"
    BY <1>2, <1>3, <1>11, ZenonT(60) DEF reader!open_fails, reader!open_dropped
  <2>2. Owed' /\ EndKnown(wire)' /\ EndKnown(chan)'
    BY <2>1, OwedWhenCleared DEF EndKnown
  <2>3. request_tx' \in BOOLEAN
    BY <2>1, Zenon
  <2> QED
    BY <1>1, <1>2, <1>3, <1>4, <2>1, <2>2, <2>3
<1>12. CASE reader!SendData
  <2>1. PICK k \in 1 .. reader!Least(ChunkBytes, Bytes - worker.sent) :
           /\ wire' = Append(wire, k)
           /\ worker' = [worker EXCEPT !.sent = @ + k, !.flight = @ \cup {worker.sent + k}]
    BY <1>12, ZenonT(60) DEF reader!SendData
  <2>2. k \in Nat /\ k <= Bytes - worker.sent /\ worker.sent \in 0 .. Bytes /\ k \in Frames
    BY <1>1, <1>2, <2>1 DEF reader!Least, Frames, reader!Error
  <2>3. worker' \in Record /\ worker'.sent = worker.sent + k /\ worker'.rpc = worker.rpc
    <3>1. worker.flight \cup {worker.sent + k} \in SUBSET Nat /\ worker.sent + k \in 0 .. Bytes
      BY <1>1, <1>2, <2>2
    <3> QED
      BY <1>2, <2>1, <3>1, ZenonT(60)
  <2>4. Owed' /\ wire' \in Seq(Frames)
    BY <1>1, <1>12, <2>1, <2>2, <2>3, OwedWhenSent DEF reader!SendData
  <2>5. EndKnown(wire)' /\ EndKnown(chan)'
    <3>1. k # reader!End
      BY <2>2 DEF reader!End
    <3>2. EndKnown(Append(wire, k))
      BY <1>2, <1>3, <2>2, <3>1, FramesAppended, ZenonT(60)
    <3>3. chan' = chan
      BY <1>12, ZenonT(60) DEF reader!SendData
    <3> QED
      BY <1>3, <2>1, <2>3, <3>2, <3>3, ZenonT(60) DEF EndKnown
  <2> QED
    BY <1>2, <1>3, <1>4, <1>12, <2>3, <2>4, <2>5, ZenonT(60) DEF reader!SendData
<1>13. CASE reader!SendEmpty \/ reader!SendEnd
  <2>1. PICK k \in {0, reader!End, reader!Error} :
           wire' = Append(wire, k) /\ (k = reader!End => worker'.rpc = "ended")
    <3>1. CASE reader!SendEmpty
      BY <3>1 DEF reader!SendEmpty, reader!End
    <3>2. CASE reader!SendEnd
      <4>1. CASE /\ wire' = Append(wire, reader!End)
                 /\ worker' = [worker EXCEPT !.rpc = "ended", !.lock = FALSE]
        BY <1>2, <4>1, ZenonT(60)
      <4>2. CASE wire' = Append(wire, reader!Error)
        BY <4>2 DEF reader!End, reader!Error
      <4> QED
        BY <3>2, <4>1, <4>2, ZenonT(60) DEF reader!SendEnd
    <3> QED
      BY <1>13, <3>1, <3>2, ZenonT(60)
  <2>2. /\ worker' \in Record /\ worker'.sent = worker.sent
        /\ worker.rpc = "open" /\ UNCHANGED <<reader!readerVars, acks, chan, drainer>>
    <3>1. CASE reader!SendEmpty
      BY <1>2, <3>1, ZenonT(60) DEF reader!SendEmpty
    <3>2. CASE reader!SendEnd
      BY <1>2, <3>2, ZenonT(60) DEF reader!SendEnd
    <3> QED
      BY <1>13, <3>1, <3>2, ZenonT(60)
  <2>3. k \in Frames /\ worker'.sent \in Nat /\ worker.sent + k <= worker'.sent
    BY <1>1, <1>2, <2>2 DEF Frames, reader!End, reader!Error
  <2>4. Owed' /\ wire' \in Seq(Frames)
    BY <1>1, <1>2, <2>1, <2>2, <2>3, OwedWhenSent
  <2>5. EndKnown(wire)' /\ EndKnown(chan)'
    BY <1>2, <1>3, <2>1, <2>2, <2>3 DEF EndKnown
  <2>6. outcome = "end" => received = Bytes
    BY <1>3, <2>2, ZenonT(60)
  <2> QED
    BY <1>2, <1>3, <1>4, <2>2, <2>4, <2>5, <2>6, ZenonT(60)
<1>14. CASE reader!drain
  <2>1. Owed' /\ wire' \in Seq(Frames) /\ chan' \in Seq(Frames)
    BY <1>14, OwedWhenDrained, ZenonT(60) DEF reader!drain
  <2>2. EndKnown(wire)' /\ EndKnown(chan)'
    <3>1. /\ wire # <<>> /\ wire' = Tail(wire) /\ chan' = Append(chan, Head(wire))
          /\ worker' = worker
      BY <1>14, ZenonT(60) DEF reader!drain
    <3>2. /\ EndKnown(Tail(wire)) /\ Head(wire) \in Frames
          /\ Head(wire) = reader!End => worker.rpc = "ended"
      BY <1>2, <1>3, <3>1, FramesTaken, ZenonT(60)
    <3>3. EndKnown(Append(chan, Head(wire)))
      BY <1>2, <1>3, <3>2, FramesAppended, ZenonT(60)
    <3> QED
      BY <3>1, <3>2, <3>3, ZenonT(60) DEF EndKnown
  <2>3. Len(chan') <= buffer_messages /\ drainer' \in {"running", "gone"} /\ drainer = "running"
    BY <1>1, <1>2, <1>14 DEF reader!drain
  <2> QED
    BY <1>2, <1>3, <1>4, <1>14, <2>1, <2>2, <2>3 DEF reader!drain
<1>15. CASE reader!drain_dies
  <2>1. /\ worker' \in Record /\ worker'.sent = worker.sent
        /\ worker.rpc = "ended" => worker' = worker
    BY <1>2, <1>15, ZenonT(60) DEF reader!drain_dies
  <2>2. Owed'
    BY <1>15, <2>1, OwedWhenCleared, ZenonT(60) DEF reader!drain_dies
  <2>3. EndKnown(wire)' /\ EndKnown(chan)'
    BY <1>2, <1>3, <1>15, <2>1 DEF reader!drain_dies, EndKnown
  <2> QED
    <3>1. /\ drainer = "running" /\ drainer' = "gone" /\ wire' = <<>> /\ <<>> \in Seq(Frames)
          /\ UNCHANGED <<source, at, received, request_tx, outcome, acks, chan>>
      BY <1>15 DEF reader!drain_dies
    <3>2. at # "new" /\ at # "opening" /\ source \notin {"open", "positioned_read"}
      BY <1>3, <3>1, ZenonT(60)
    <3> HIDE DEF Record
    <3> QED
      BY <1>2, <1>3, <1>4, <2>1, <2>2, <2>3, <3>1, <3>2, ZenonT(60)
<1>16. CASE UNCHANGED reader!vars
  BY <1>16 DEF reader!vars, ReaderInv, reader!TypeOK, reader!NeverShort, reader!Direct, Owed,
     EndKnown
<1>17. CASE reader!Deliver \/ reader!KeepReading
  <2>1. reader!recv # <<>> /\ reader!Take /\ Head(reader!recv) \in Frames
    <3>1. reader!recv \in Seq(Frames) /\ reader!recv # <<>>
      <4>1. reader!Error \in Frames /\ <<reader!Error>> \in Seq(Frames)
        BY DEF Frames, reader!Error
      <4>2. reader!recv # <<>>
        BY <1>17, ZenonT(60) DEF reader!Deliver, reader!KeepReading
      <4> QED
        BY <1>2, <4>1, <4>2, ZenonT(60) DEF reader!recv
    <3> QED
      BY <1>17, <3>1 DEF reader!Deliver, reader!KeepReading
  <2>2. Head(reader!recv) >= 0
    BY <1>17, <2>1 DEF reader!Deliver, reader!KeepReading, reader!classify_response, Frames,
      reader!End, reader!Error
  <2>3. /\ received' \in {received, received + Head(reader!recv)} /\ worker' = worker
        /\ source' = source /\ drainer' = drainer /\ at \in {"recv", "all"}
        /\ at' \in {"held", "all", "recv"} /\ outcome' \in {outcome, "chunk"}
        /\ received < Bytes
    BY <1>17, ZenonT(60) DEF reader!Deliver, reader!KeepReading, reader!Returns
  <2>4. /\ Owed' /\ received' \in 0 .. Bytes
        /\ wire' = wire \/ (wire # <<>> /\ wire' = Tail(wire))
        /\ chan' = chan \/ (chan # <<>> /\ chan' = Tail(chan))
    BY <2>1, <2>2, <2>3, OwedWhenTaken, ZenonT(60)
  <2>5. /\ wire' \in Seq(Frames) /\ chan' \in Seq(Frames) /\ Len(chan') <= buffer_messages
        /\ chan = <<>> => chan' = <<>>
    <3>1. wire' \in Seq(Frames)
      BY <1>2, <2>4, TailOrSame, ZenonT(60)
    <3>2. chan' \in Seq(Frames) /\ Len(chan') <= Len(chan) /\ (chan = <<>> => chan' = <<>>)
      BY <1>2, <2>4, TailOrSame, ZenonT(60)
    <3> QED
      BY <1>1, <1>2, <3>1, <3>2
  <2>6. EndKnown(wire)' /\ EndKnown(chan)'
    <3>1. \A i \in DOMAIN wire' : \E j \in DOMAIN wire : wire'[i] = wire[j]
      BY <1>2, <2>4, TailOrSame
    <3>2. \A i \in DOMAIN chan' : \E j \in DOMAIN chan : chan'[i] = chan[j]
      BY <1>2, <2>4, TailOrSame
    <3> QED
      BY <1>3, <2>3, <3>1, <3>2, ZenonT(60) DEF EndKnown
  <2>7. acks' \in Seq(Nat) /\ Len(acks') <= RequestCap
    <3>1. \/ acks' = acks
          \/ acks' = Append(acks, received + Head(reader!recv)) /\ Len(acks) < RequestCap
      BY <1>17, ZenonT(60) DEF reader!Deliver, reader!KeepReading, reader!maybe_send_ack
    <3>2. received + Head(reader!recv) \in Nat
      BY <1>1, <1>2, <2>1, <2>2 DEF Frames
    <3>3. CASE acks' = acks
      BY <1>2, <3>3, ZenonT(60)
    <3>4. CASE acks' = Append(acks, received + Head(reader!recv)) /\ Len(acks) < RequestCap
      BY <1>1, <1>2, <3>2, <3>4
    <3> QED
      BY <3>1, <3>3, <3>4, ZenonT(60)
  <2>8. request_tx' \in BOOLEAN
    BY <1>2, <1>17, ZenonT(60) DEF reader!Deliver, reader!KeepReading
  <2> QED
    BY <1>1, <1>2, <1>3, <1>4, <2>3, <2>4, <2>5, <2>6, <2>7, <2>8
<1>18. CASE reader!Eof
  <2>1. /\ reader!Take /\ reader!recv # <<>> /\ Head(reader!recv) = reader!End
        /\ outcome' = "end" /\ at' = "held" /\ at = "recv"
        /\ UNCHANGED <<source, received, request_tx, acks, drainer, worker>>
    BY <1>18, ZenonT(60) DEF reader!Eof, reader!Returns, reader!classify_response
  <2>2. CASE reader!Direct
    <3>1. wire # <<>> /\ wire[1] = reader!End /\ wire' = wire /\ chan' = chan
      BY <1>2, <2>1, <2>2 DEF reader!recv, reader!Take
    <3>2. worker.rpc = "ended"
      BY <1>2, <1>3, <3>1 DEF EndKnown
    <3>3. Owed' /\ EndKnown(wire)' /\ EndKnown(chan)'
      BY <1>6, <2>1, <3>1, ZenonT(60)
    <3> QED
      BY <1>2, <1>3, <1>4, <2>1, <3>1, <3>2, <3>3, ZenonT(60)
  <2>3. CASE ~reader!Direct
    <3>1. chan # <<>> /\ chan[1] = reader!End /\ wire' = wire /\ chan' = Tail(chan)
      BY <1>2, <2>1, <2>3 DEF reader!recv, reader!Take, reader!End, reader!Error
    <3>2. worker.rpc = "ended"
      BY <1>2, <1>3, <3>1 DEF EndKnown
    <3>3. EndKnown(wire)' /\ EndKnown(chan)'
      BY <2>1, <3>2, ZenonT(60) DEF EndKnown
    <3>4. Owed'
      <4>1. received \in Nat
        BY <1>1, <1>2
      <4>2. PICK mid \in Nat : Ledger(received, chan, mid) /\ Ledger(mid, wire, worker.sent)
        BY <1>3, ZenonT(60) DEF Owed
      <4>3. Ledger(received, Tail(chan), mid)
        <5>1. chan \in Seq(Int)
          BY <1>2 DEF Frames
        <5> QED
          BY <3>1, <4>1, <4>2, <5>1, LedgerTail, ZenonT(60)
      <4> QED
        BY <2>1, <3>1, <4>2, <4>3, ZenonT(60) DEF Owed
    <3>5. chan' \in Seq(Frames) /\ Len(chan') <= buffer_messages
      BY <1>1, <1>2, <3>1
    <3> QED
      BY <1>2, <1>3, <1>4, <2>1, <3>1, <3>2, <3>3, <3>4, <3>5, ZenonT(60)
  <2> QED
    BY <2>2, <2>3, ZenonT(60)
<1>19. CASE reader!read_fails \/ reader!read_all \/ reader!Drop
  <2>1. /\ source' = "none" /\ request_tx' = FALSE /\ wire' = <<>> /\ chan' = <<>>
        /\ drainer' = "none" /\ UNCHANGED <<acks, worker, received>> /\ at' = "done"
    BY <1>19, ZenonT(60) DEF reader!read_fails, reader!read_all, reader!Drop, reader!drop
  <2>2. /\ outcome' \in {"error", "whole", "short", "none"}
        /\ (outcome' = "whole" => received >= Bytes)
    BY <1>19, ZenonT(60) DEF reader!read_fails, reader!read_all, reader!Drop,
      reader!check_positioned_read_complete
  <2>3. Owed'
    BY <2>1, OwedWhenCleared, ZenonT(60)
  <2>4. EndKnown(wire)' /\ EndKnown(chan)'
    BY <2>1 DEF EndKnown
  <2>5. request_tx' \in BOOLEAN
    BY <2>1, Zenon
  <2> HIDE DEF Record
  <2> QED
    BY <1>1, <1>2, <1>4, <2>1, <2>2, <2>3, <2>4, <2>5
<1> QED
  BY <1>5, <1>7, <1>8, <1>10, <1>11, <1>12, <1>13, <1>14, <1>15, <1>16, <1>9, <1>17, <1>18, <1>19,
     ZenonT(60)
     DEF reader!Next, reader!read_block, reader!read_block_positioned,
         reader!WorkerStep, reader!ReaderStep,
         reader!Over, reader!vars

\* For every length of the range, chunk size, window and channel capacity: a
\* read is whole or fails, and the end of the stream is never taken from a
\* drain task that died (GrpcBlockReader::read_all, read_chunk, recv).
THEOREM ReadIsNeverShort ==
  ASSUME reader!ReaderAssumption
  PROVE  reader!Spec => [](reader!TypeOK /\ reader!NeverShort)
<1>1. reader!Init => ReaderInv
  BY ReaderInit
<1>2. ReaderInv /\ [reader!Next]_reader!vars => ReaderInv'
  BY ReaderKeeps
<1>3. ReaderInv => reader!TypeOK /\ reader!NeverShort
  BY ZenonT(60) DEF ReaderInv, reader!NeverShort
<1> QED
  BY <1>1, <1>2, <1>3, PTL DEF reader!Spec

----------------------------------------------------------------------------
context == INSTANCE ClientContext

(* ClientContext: nothing is in flight outside the two places of a beat, and *)
(* there is no heartbeat task before connect() starts one.                   *)
BeatKnown ==
    /\ metric \in [count : 0 .. MaxCount, base : Nat, master : Nat]
    /\ faults \in Nat
    /\ api \in {"new", "noWorkers", "tasks", "config", "beat"} => task["beat"] = "none"
    /\ task["beat"] \notin {"rpc", "reconnect"} => beat.payload = 0

ContextInv == context!TypeOK /\ BeatKnown /\ context!CountersConserved

\* A context that is not connected has counted and sent nothing.
LEMMA ContextInit ==
  ASSUME context!ContextAssumption
  PROVE  context!Init => ContextInv
<1> SUFFICES ASSUME context!Init PROVE ContextInv
  BY ZenonT(60)
<1>1. context!Init
  BY ZenonT(60)
<1>2. MaxCount \in Nat /\ MaxFaults \in Nat /\ MAX_RPC_RETRIES \in Nat
  BY ZenonT(60) DEF context!ContextAssumption
<1>3. beat = [payload |-> 0, attempt |-> 0] /\ metric = [count |-> 0, base |-> 0, master |-> 0]
  BY <1>1, ZenonT(60) DEF context!Init, context!NoBeat
<1>4. /\ beat \in [payload : 0 .. MaxCount, attempt : 0 .. MAX_RPC_RETRIES]
      /\ metric \in [count : 0 .. MaxCount, base : Nat, master : Nat]
  BY <1>2, <1>3
<1>5. context!TypeOK
  <2>1. task \in [context!Tasks -> {"none"}] /\ flush \in [{"beat", "push"} -> {0}]
    BY <1>1, ZenonT(60) DEF context!Init
  <2>2. closer \in [Closers -> {"idle"}] /\ handles = {}
    BY <1>1, ZenonT(60) DEF context!Init
  <2>3. api = "new" /\ closed = FALSE /\ pushClosed = FALSE
    BY <1>1, ZenonT(60) DEF context!Init
  <2>4. closed \in BOOLEAN /\ pushClosed \in BOOLEAN
    BY <2>3, Zenon
  <2>5. /\ task \in [context!Tasks -> {"none", "eager", "sleep", "list", "select", "rpc",
                                      "reconnect", "post", "exited"}]
        /\ flush \in [{"beat", "push"} -> 0 .. 1]
    BY <2>1
  <2>6. /\ closer \in [Closers -> {"idle", "beat", "push", "join", "done"}]
        /\ handles \subseteq context!Tasks
    BY <2>2, ZenonT(60)
  <2> QED
    BY <1>4, <2>3, <2>4, <2>5, <2>6, Zenon DEF context!TypeOK
<1>6. BeatKnown /\ context!CountersConserved
  BY <1>1, <1>3, <1>4 DEF context!Init, BeatKnown, context!CountersConserved, context!Tasks
<1> QED
  BY <1>5, <1>6, ZenonT(60) DEF ContextInv

\* connect(), every background task, close() and drop keep the count.
LEMMA ContextStep ==
  ASSUME context!ContextAssumption
  PROVE  ContextInv /\ [context!Next]_context!vars => ContextInv'
<1> SUFFICES ASSUME ContextInv, [context!Next]_context!vars PROVE ContextInv'
  BY ZenonT(60)
<1>1. MaxCount \in Nat /\ MaxFaults \in Nat /\ MAX_RPC_RETRIES \in Nat
  BY ZenonT(60) DEF context!ContextAssumption
<1> USE <1>1 DEF ContextInv, context!TypeOK, BeatKnown, context!CountersConserved,
    context!NoBeat, context!Tasks, context!Fault, context!Drop, context!Aborted,
    context!AfterBeat, context!AfterPush
<1>2. CASE context!connect
  BY <1>2 DEF context!connect, context!no_worker_manager
<1>3. CASE context!start_worker_refresh_task
  BY <1>3, ZenonT(60) DEF context!start_worker_refresh_task
<1>4. CASE context!start_config_refresh_task
  BY <1>4, ZenonT(60) DEF context!start_config_refresh_task
<1>5. CASE context!start_metrics_heartbeat_task
  <2>1. CASE api' = "push" /\ UNCHANGED <<closed, task, handles, flush, pushClosed, faults>>
    BY <1>5, <2>1, ZenonT(60) DEF context!start_metrics_heartbeat_task
  <2>2. CASE context!connect_with_inquire
    BY <1>5, <2>2 DEF context!start_metrics_heartbeat_task, context!connect_with_inquire
  <2>3. CASE /\ api' = "push" /\ task' = [task EXCEPT !["beat"] = "select"]
             /\ handles' = handles \cup {"beat"}
             /\ UNCHANGED <<closed, flush, pushClosed, faults>>
    BY <1>5, <2>3, ZenonT(60) DEF context!start_metrics_heartbeat_task
  <2> QED
    BY <1>5, <2>1, <2>2, <2>3, ZenonT(60) DEF context!start_metrics_heartbeat_task
<1>6. CASE context!start_pushgateway_task
  BY <1>6, ZenonT(60) DEF context!start_pushgateway_task
<1>7. CASE context!WorkerWake \/ context!refresh_workers
  BY <1>7 DEF context!WorkerWake, context!refresh_workers
<1>8. CASE context!ConfigWake
  BY <1>8, ZenonT(60) DEF context!ConfigWake
<1>9. CASE context!do_heartbeat
  BY <1>9 DEF context!do_heartbeat, context!snapshot
<1>10. CASE context!with_retry
  BY <1>10 DEF context!with_retry
<1>11. CASE context!reconnect
  BY <1>11 DEF context!reconnect
<1>12. CASE context!PushWake \/ context!PushAnswer
  <2>1. \E to \in {"select", "post", "exited"} : task' = [task EXCEPT !["push"] = to]
    BY <1>12, ZenonT(60) DEF context!PushWake, context!PushAnswer
  <2>2. flush' \in [{"beat", "push"} -> 0 .. 1]
    BY <1>12 DEF context!PushWake, context!PushAnswer
  <2>3. UNCHANGED <<api, closed, handles, pushClosed, closer, metric, beat, faults>>
    BY <1>12, ZenonT(60) DEF context!PushWake, context!PushAnswer
  <2> QED
    BY <2>1, <2>2, <2>3
<1>13. ASSUME NEW c \in Closers, context!close(c) PROVE ContextInv'
  <2>1. /\ closer' \in [Closers -> {"idle", "beat", "push", "join", "done"}]
        /\ handles' \subseteq context!Tasks /\ closed' = TRUE
        /\ UNCHANGED <<api, flush, pushClosed, metric, beat, faults>>
    BY <1>13, ZenonT(60) DEF context!close
  <2>2. task' = task \/ task' = context!Aborted(task)
    BY <1>13, ZenonT(60) DEF context!close
  <2> QED
    BY <2>1, <2>2
<1>14. ASSUME NEW c \in Closers, context!shutdown(c) PROVE ContextInv'
  <2>1. /\ closer' \in [Closers -> {"idle", "beat", "push", "join", "done"}]
        /\ handles' \subseteq context!Tasks
        /\ flush' \in [{"beat", "push"} -> 0 .. 1]
    <3>1. ASSUME NEW t \in {"beat", "push"}, NEW next \in {"push", "done"},
                 context!Shutdown(c, t, next)
          PROVE  /\ closer' \in [Closers -> {"idle", "beat", "push", "join", "done"}]
                 /\ handles' \subseteq context!Tasks
                 /\ flush' \in [{"beat", "push"} -> 0 .. 1]
      <4>1. CASE t \in handles
        <5>1. /\ closer' = [closer EXCEPT ![c] = "join"] /\ flush' = [flush EXCEPT ![t] = 1]
              /\ handles' = handles \ {t}
          BY <3>1, <4>1, ZenonT(60) DEF context!Shutdown
        <5>2. closer' \in [Closers -> {"idle", "beat", "push", "join", "done"}]
          BY <5>1, ZenonT(60)
        <5>3. flush' \in [{"beat", "push"} -> 0 .. 1]
          BY <5>1
        <5> QED
          BY <5>1, <5>2, <5>3, ZenonT(60)
      <4>2. CASE t \notin handles
        <5>1. closer' = [closer EXCEPT ![c] = next] /\ UNCHANGED <<flush, handles>>
          BY <3>1, <4>2, ZenonT(60) DEF context!Shutdown
        <5> QED
          BY <5>1, ZenonT(60)
      <4> QED
        BY <4>1, <4>2, ZenonT(60)
    <3> QED
      BY <1>14, <3>1, ZenonT(60) DEF context!shutdown
  <2>2. pushClosed' \in BOOLEAN /\ UNCHANGED <<api, closed, task, metric, beat, faults>>
    BY <1>14, ZenonT(60) DEF context!shutdown
  <2> QED
    BY <2>1, <2>2, ZenonT(60)
<1>15. ASSUME NEW c \in Closers, context!Join(c) PROVE ContextInv'
  BY <1>15, ZenonT(60) DEF context!Join
<1>16. CASE context!drop
  BY <1>16 DEF context!drop
<1>17. CASE context!inc
  BY <1>17 DEF context!inc, context!ctxVars
<1>18. CASE context!Membership
  BY <1>18, ZenonT(60) DEF context!Membership, context!ctxVars
<1>19. CASE UNCHANGED context!vars
  BY <1>19, ZenonT(60) DEF context!vars
<1> HIDE DEF ContextInv, context!TypeOK, BeatKnown, context!CountersConserved
<1> QED
  BY <1>2, <1>3, <1>4, <1>5, <1>6, <1>7, <1>8, <1>9, <1>10, <1>11, <1>12, <1>13, <1>14,
     <1>15, <1>16, <1>17, <1>18, <1>19, ZenonT(60) DEF context!Next, context!Background

\* For any number of calls of close(), increments, faults and retries: as long
\* as no call has failed, every increment of a metrics counter is in exactly one
\* heartbeat, taken by the master or in flight, or still to be sent; and no
\* failure puts the baseline ahead of its counter (ClientContext:
\* flush_and_beat, beat_with_retry, close).
THEOREM CountersAreConserved ==
  ASSUME context!ContextAssumption
  PROVE  context!Spec => [](context!TypeOK /\ context!CountersConserved)
<1>1. context!Init => ContextInv
  BY ContextInit
<1>2. ContextInv /\ [context!Next]_context!vars => ContextInv'
  BY ContextStep
<1>3. ContextInv => context!TypeOK /\ context!CountersConserved
  BY ZenonT(60) DEF ContextInv
<1> QED
  BY <1>1, <1>2, <1>3, PTL DEF context!Spec

----------------------------------------------------------------------------
switches == INSTANCE ConfigRefresher WITH Callers <- Askers, pc <- step

(* ConfigRefresher: whoever reads the clock as past the expiry of the last   *)
(* load does so before the next load.                                        *)
RefresherInv ==
    /\ switches!TypeOK /\ switches!OneReload
    /\ \A c \in Askers : seen[c] => expired
    /\ read \in [Askers -> switches!Flags \cup {switches!Bad}]

\* The switches are fresh when from_config returns.
LEMMA RefresherInit ==
  ASSUME switches!RefresherAssumption
  PROVE  switches!Init => RefresherInv
<1> SUFFICES ASSUME switches!Init PROVE RefresherInv
  BY ZenonT(60)
<1>1. switches!Init
  BY ZenonT(60)
<1>2. switches!Nobody \notin Askers /\ MaxEdits \in Nat
  BY ZenonT(60) DEF switches!RefresherAssumption
<1>3. /\ step \in [Askers -> {"eager", "idle"}] /\ seen = [c \in Askers |-> FALSE]
      /\ expired = FALSE /\ owner = switches!Nobody /\ edits = 0
  BY <1>1, ZenonT(60) DEF switches!Init
<1>4. file \in switches!Flags /\ switch \in switches!Flags /\ read = [c \in Askers |-> file]
  BY <1>1, ZenonT(60) DEF switches!Init
<1>5. switches!TypeOK
  <2>1. expired \in BOOLEAN /\ seen \in [Askers -> BOOLEAN]
    BY <1>3, Zenon
  <2>2. /\ step \in [Askers -> {"eager", "idle", "lock", "store", "second"}]
        /\ edits \in 0 .. MaxEdits /\ owner \in Askers \cup {switches!Nobody}
    BY <1>2, <1>3
  <2>3. file \in switches!Flags \cup {switches!Bad}
    BY <1>4, ZenonT(60)
  <2> QED
    BY <1>4, <2>1, <2>2, <2>3, Zenon DEF switches!TypeOK
<1>6. switches!OneReload
  BY <1>3, ZenonT(60) DEF switches!OneReload
<1> QED
  BY <1>3, <1>4, <1>5, <1>6, ZenonT(60) DEF RefresherInv

\* Every step of the callers, the timer and an edit keep one reload at a
\* time.
LEMMA RefresherStep ==
  ASSUME switches!RefresherAssumption
  PROVE  RefresherInv /\ [switches!Next]_switches!vars => RefresherInv'
<1> SUFFICES ASSUME RefresherInv, [switches!Next]_switches!vars PROVE RefresherInv'
  BY ZenonT(60)
<1>1. switches!Nobody \notin Askers /\ MaxEdits \in Nat
  BY ZenonT(60) DEF switches!RefresherAssumption
<1> USE <1>1 DEF RefresherInv, switches!TypeOK, switches!OneReload
<1>2. ASSUME NEW c \in Askers, switches!load_if_expire(c) PROVE RefresherInv'
  BY <1>2, ZenonT(60) DEF switches!load_if_expire
<1>3. ASSUME NEW c \in Askers, switches!double_check(c) PROVE RefresherInv'
  BY <1>3 DEF switches!double_check
<1>4. ASSUME NEW c \in Askers, switches!reload_properties(c) PROVE RefresherInv'
  <2>1. switch' \in switches!Flags
    BY <1>4, ZenonT(60) DEF switches!reload_properties, switches!Flags, switches!Bad
  <2> QED
    BY <1>4, <2>1, ZenonT(60) DEF switches!reload_properties
<1>5. ASSUME NEW c \in Askers, switches!loaded(c) PROVE RefresherInv'
  <2>1. switch' \in switches!Flags
    BY <1>5, ZenonT(60) DEF switches!loaded, switches!Flags, switches!Bad
  <2> QED
    BY <1>5, <2>1, ZenonT(60) DEF switches!loaded
<1>6. CASE switches!Expire
  BY <1>6, ZenonT(60) DEF switches!Expire
<1>7. CASE switches!Edit
  BY <1>7 DEF switches!Edit
<1>8. CASE UNCHANGED switches!vars
  BY <1>8, ZenonT(60) DEF switches!vars
<1> QED
  BY <1>2, <1>3, <1>4, <1>5, <1>6, <1>7, <1>8, ZenonT(60) DEF switches!Next, switches!Step,
     switches!Reload

\* For any number of callers: one of them reloads the switches per expiry, and
\* none beside another (ConfigRefresher::load_if_expire).
THEOREM ReloadIsSingle ==
  ASSUME switches!RefresherAssumption
  PROVE  switches!Spec => [](switches!TypeOK /\ switches!OneReload)
<1>1. switches!Init => RefresherInv
  BY RefresherInit
<1>2. RefresherInv /\ [switches!Next]_switches!vars => RefresherInv'
  BY RefresherStep
<1>3. RefresherInv => switches!TypeOK /\ switches!OneReload
  BY ZenonT(60) DEF RefresherInv
<1> QED
  BY <1>1, <1>2, <1>3, PTL DEF switches!Spec

----------------------------------------------------------------------------
INSTANCE FiniteSetTheorems
metrics == INSTANCE Registry

(* Registry: a counter about to be inserted is known to its creator alone and
   stands at zero; no two names share one. *)
Tally(s, n) == {i \in DOMAIN s : s[i] = n}

RegistryInv ==
    /\ metrics!TypeOK
    /\ value \in Seq(Nat) /\ counted \in Seq(Metrics) /\ metric_of \in [Threads -> Metrics]
    /\ \A m, n \in Metrics : counters[m] # 0 /\ counters[m] = counters[n] => m = n
    /\ \A t \in Threads : phase[t] = "insert" =>
          arc[t] # 0 /\ value[arc[t]] = 0 /\ \A n \in Metrics : counters[n] # arc[t]
    /\ \A t, u \in Threads :
          phase[t] = "insert" /\ phase[u] = "insert" /\ arc[t] = arc[u] => t = u
    /\ \A t \in Threads : phase[t] \in {"get", "has"} => counters[metric_of[t]] # 0
    /\ \A t \in Threads : phase[t] = "has" => arc[t] = counters[metric_of[t]]
    /\ \A n \in Metrics :
          Cardinality(Tally(counted, n)) = IF counters[n] = 0 THEN 0 ELSE value[counters[n]]

\* One more increment of a metric is one more of that metric and none of the others.
LEMMA TallyAppend ==
  ASSUME NEW S, NEW s \in Seq(S), NEW e \in S, NEW n
  PROVE  /\ Cardinality(Tally(s, n)) \in Nat
         /\ e = n => Cardinality(Tally(Append(s, e), n)) = Cardinality(Tally(s, n)) + 1
         /\ e # n => Cardinality(Tally(Append(s, e), n)) = Cardinality(Tally(s, n))
<1>1. IsFiniteSet(1 .. Len(s))
  BY FS_Interval
<1>2. Tally(s, n) \subseteq 1 .. Len(s)
  BY DEF Tally
<1>3. IsFiniteSet(Tally(s, n)) /\ Cardinality(Tally(s, n)) \in Nat
  BY <1>1, <1>2, FS_Subset, FS_CardinalityType, ZenonT(60)
<1>4. CASE e = n
  <2>1. Tally(Append(s, e), n) = Tally(s, n) \cup {Len(s) + 1}
    BY <1>4 DEF Tally
  <2>2. Len(s) + 1 \notin Tally(s, n)
    BY DEF Tally
  <2> QED
    BY <1>3, <1>4, <2>1, <2>2, FS_AddElement, ZenonT(60)
<1>5. CASE e # n
  <2>1. Tally(Append(s, e), n) = Tally(s, n)
    BY <1>5 DEF Tally
  <2> QED
    BY <1>3, <1>5, <2>1, ZenonT(60)
<1> QED
  BY <1>4, <1>5, ZenonT(60)

\* An empty registry has counted nothing.
LEMMA RegistryInit ==
  ASSUME metrics!RegistryAssumption
  PROVE  metrics!Init => RegistryInv
<1> SUFFICES ASSUME metrics!Init PROVE RegistryInv
  BY ZenonT(60)
<1>1. Metrics # {}
  BY ZenonT(60) DEF metrics!RegistryAssumption
<1>2. (CHOOSE n \in Metrics : TRUE) \in Metrics
  BY <1>1, ZenonT(60)
<1>3. /\ counters = [n \in Metrics |-> 0] /\ value = <<>> /\ counted = <<>>
      /\ phase = [t \in Threads |-> "idle"] /\ arc = [t \in Threads |-> 0]
      /\ metric_of \in [Threads -> Metrics]
  BY <1>2, ZenonT(60) DEF metrics!Init
<1>4. \A n : Tally(counted, n) = {}
  BY <1>3 DEF Tally
<1>5. \A n : Cardinality(Tally(counted, n)) = 0
  BY <1>4, FS_EmptySet, ZenonT(60)
<1>6. metrics!TypeOK
  BY <1>3 DEF metrics!TypeOK
<1> QED
  BY <1>3, <1>5, <1>6 DEF RegistryInv

\* The values after a new counter is created.
LEMMA ValuesAppended ==
  ASSUME NEW s \in Seq(Nat)
  PROVE  /\ Append(s, 0) \in Seq(Nat) /\ Len(Append(s, 0)) = Len(s) + 1
         /\ Append(s, 0)[Len(s) + 1] = 0
         /\ \A i \in 1 .. Len(s) : Append(s, 0)[i] = s[i]
  OBVIOUS

LEMMA LenNatural == ASSUME NEW s \in Seq(Nat) PROVE Len(s) \in Nat
  OBVIOUS

\* The places of the counters, before and after one is created.
LEMMA Grown ==
    \A n \in Nat :
       /\ \A i \in 0 .. n : i \in 0 .. (n + 1) /\ i # n + 1 /\ (i # 0 => i \in 1 .. n)
       /\ n + 1 \in 0 .. (n + 1) /\ n + 1 # 0
  OBVIOUS

\* What is to be shown of a step's outcome.
LEMMA RegistryNext ==
  ASSUME metrics!TypeOK', value' \in Seq(Nat), counted' \in Seq(Metrics),
         metric_of' \in [Threads -> Metrics],
         \A m, n \in Metrics : counters'[m] # 0 /\ counters'[m] = counters'[n] => m = n,
         \A u \in Threads : phase'[u] = "insert" =>
            arc'[u] # 0 /\ value'[arc'[u]] = 0 /\ \A n \in Metrics : counters'[n] # arc'[u],
         \A u, w \in Threads :
            phase'[u] = "insert" /\ phase'[w] = "insert" /\ arc'[u] = arc'[w] => u = w,
         \A u \in Threads : phase'[u] \in {"get", "has"} =>
            /\ counters'[metric_of'[u]] # 0
            /\ phase'[u] = "has" => arc'[u] = counters'[metric_of'[u]],
         \A n \in Metrics : Cardinality(Tally(counted', n)) =
            IF counters'[n] = 0 THEN 0 ELSE value'[counters'[n]]
  PROVE  RegistryInv'
BY ZenonT(60) DEF RegistryInv

\* Whichever thread inserts first, the others find its counter.
LEMMA RegistryStep ==
  ASSUME metrics!RegistryAssumption
  PROVE  RegistryInv /\ [metrics!Next]_metrics!regVars => RegistryInv'
<1> SUFFICES ASSUME RegistryInv, [metrics!Next]_metrics!regVars PROVE RegistryInv'
  BY ZenonT(60)
<1> USE DEF RegistryInv, metrics!TypeOK
<1>a. \A u \in Threads : phase[u] = "insert" =>
         arc[u] # 0 /\ value[arc[u]] = 0 /\ \A k \in Metrics : counters[k] # arc[u]
  BY ZenonT(60)
<1>b. \A u, w \in Threads :
         phase[u] = "insert" /\ phase[w] = "insert" /\ arc[u] = arc[w] => u = w
  BY ZenonT(60)
<1>c. /\ counted \in Seq(Metrics) /\ metric_of \in [Threads -> Metrics]
      /\ \A m, n \in Metrics : counters[m] # 0 /\ counters[m] = counters[n] => m = n
  BY ZenonT(60)
<1>1. ASSUME NEW t \in Threads, NEW n \in Metrics, metrics!counter(t, n) PROVE RegistryInv'
  <2>1. CASE counters[n] # 0
    <3>1. /\ arc' = [arc EXCEPT ![t] = counters[n]]
          /\ phase' = [phase EXCEPT ![t] = "has"]
          /\ metric_of' = [metric_of EXCEPT ![t] = n]
          /\ UNCHANGED <<value, counters, counted>>
      BY <1>1, <2>1, ZenonT(60) DEF metrics!counter
    <3> QED
      BY <2>1, <3>1, ZenonT(60)
  <2>2. CASE counters[n] = 0
    <3>1. /\ value' = Append(value, 0) /\ arc' = [arc EXCEPT ![t] = Len(value) + 1]
          /\ phase' = [phase EXCEPT ![t] = "insert"]
          /\ metric_of' = [metric_of EXCEPT ![t] = n] /\ UNCHANGED <<counters, counted>>
      BY <1>1, <2>2 DEF metrics!counter
    <3>2. /\ value' \in Seq(Nat) /\ Len(value') = Len(value) + 1
          /\ value'[Len(value) + 1] = 0
          /\ \A i \in 1 .. Len(value) : value'[i] = value[i]
      BY <3>1, ValuesAppended, ZenonT(60)
    <3>3. /\ \A i \in 0 .. Len(value) : i \in 0 .. Len(value') /\ i # Len(value) + 1
          /\ \A i \in 0 .. Len(value) : i # 0 => i \in 1 .. Len(value)
          /\ Len(value) + 1 \in 0 .. Len(value') /\ Len(value) + 1 # 0
      BY <3>2, Grown, LenNatural, ZenonT(60)
    <3>4. /\ phase'[t] = "insert" /\ arc'[t] = Len(value) + 1
          /\ \A u \in Threads \ {t} : /\ phase'[u] = phase[u] /\ arc'[u] = arc[u]
                                     /\ metric_of'[u] = metric_of[u]
          /\ \A u \in Threads : arc[u] \in 0 .. Len(value)
          /\ \A k \in Metrics : counters[k] \in 0 .. Len(value)
      BY <3>1, ZenonT(60)
    <3>5. metrics!TypeOK' /\ metric_of' \in [Threads -> Metrics]
      BY <3>1, <3>3, ZenonT(60)
    <3> HIDE DEF metrics!TypeOK
    <3>6. ASSUME NEW u \in Threads, phase'[u] = "insert"
          PROVE  arc'[u] # 0 /\ value'[arc'[u]] = 0 /\ \A k \in Metrics : counters[k] # arc'[u]
      <4> HIDE DEF RegistryInv
      <4>1. CASE u = t
        BY <3>2, <3>3, <3>4, <4>1, ZenonT(60)
      <4>2. CASE u # t
        <5>1. phase[u] = "insert" /\ arc'[u] = arc[u] /\ arc[u] \in 0 .. Len(value)
          BY <3>4, <3>6, <4>2, ZenonT(60)
        <5>2. arc[u] # 0 /\ value[arc[u]] = 0 /\ \A k \in Metrics : counters[k] # arc[u]
          BY <1>a, <5>1, ZenonT(60)
        <5>3. value'[arc[u]] = value[arc[u]]
          BY <3>2, <3>3, <5>1, <5>2, ZenonT(60)
        <5> QED
          BY <5>1, <5>2, <5>3, ZenonT(60)
      <4> QED
        BY <4>1, <4>2, ZenonT(60)
    <3>7. ASSUME NEW u \in Threads, NEW w \in Threads, phase'[u] = "insert",
                 phase'[w] = "insert", arc'[u] = arc'[w]
          PROVE  u = w
      <4> HIDE DEF RegistryInv
      <4>1. ASSUME NEW v \in Threads \ {t}, arc'[v] = arc'[t] PROVE FALSE
        BY <3>3, <3>4, <4>1, ZenonT(60)
      <4>2. CASE u = t \/ w = t
        BY <3>7, <4>1, <4>2, ZenonT(60)
      <4>3. CASE u # t /\ w # t
        <5>1. phase[u] = "insert" /\ phase[w] = "insert" /\ arc[u] = arc[w]
          BY <3>4, <3>7, <4>3, ZenonT(60)
        <5> QED
          BY <1>b, <5>1, ZenonT(60)
      <4> QED
        BY <4>2, <4>3, ZenonT(60)
    <3>8. ASSUME NEW u \in Threads, phase'[u] \in {"get", "has"}
          PROVE  /\ counters[metric_of'[u]] # 0
                 /\ phase'[u] = "has" => arc'[u] = counters[metric_of'[u]]
      BY <3>4, <3>8, ZenonT(60)
    <3>9. ASSUME NEW k \in Metrics
          PROVE  Cardinality(Tally(counted, k)) =
                    IF counters[k] = 0 THEN 0 ELSE value'[counters[k]]
      BY <3>2, <3>3, <3>4, ZenonT(60)
    <3> HIDE DEF RegistryInv
    <3>10. counters' = counters /\ counted' = counted
      BY <3>1, ZenonT(60)
    <3>11. \A u \in Threads : phase'[u] = "insert" =>
              arc'[u] # 0 /\ value'[arc'[u]] = 0 /\ \A k \in Metrics : counters'[k] # arc'[u]
      BY <3>6, <3>10, ZenonT(60)
    <3>12. \A u, w \in Threads :
              phase'[u] = "insert" /\ phase'[w] = "insert" /\ arc'[u] = arc'[w] => u = w
      BY <3>7, ZenonT(60)
    <3>13. \A u \in Threads : phase'[u] \in {"get", "has"} =>
              /\ counters'[metric_of'[u]] # 0
              /\ phase'[u] = "has" => arc'[u] = counters'[metric_of'[u]]
      BY <3>8, <3>10, ZenonT(60)
    <3>14. \A k \in Metrics : Cardinality(Tally(counted', k)) =
              IF counters'[k] = 0 THEN 0 ELSE value'[counters'[k]]
      BY <3>9, <3>10, ZenonT(60)
    <3>15. \A m, k \in Metrics : counters'[m] # 0 /\ counters'[m] = counters'[k] => m = k
      BY <1>c, <3>10, ZenonT(60)
    <3>16. counted' \in Seq(Metrics)
      BY <1>c, <3>10, ZenonT(60)
    <3> QED
      BY <3>2, <3>5, <3>11, <3>12, <3>13, <3>14, <3>15, <3>16, RegistryNext, ZenonT(60)
  <2> QED
    BY <2>1, <2>2, ZenonT(60)
<1>2. ASSUME NEW t \in Threads, metrics!or_insert(t) PROVE RegistryInv'
  BY <1>2, ZenonT(60) DEF metrics!or_insert
<1>3. ASSUME NEW t \in Threads, metrics!get(t) PROVE RegistryInv'
  BY <1>3, ZenonT(60) DEF metrics!get
<1>4. ASSUME NEW t \in Threads, metrics!inc(t) PROVE RegistryInv'
  <2> DEFINE m == metric_of[t]
  <2>1. /\ m \in Metrics /\ counters[m] # 0 /\ counters[m] \in 1 .. Len(value)
        /\ arc[t] = counters[m]
    BY <1>4 DEF metrics!inc
  <2>2. /\ value' = [value EXCEPT ![counters[m]] = @ + 1] /\ counted' = Append(counted, m)
        /\ phase' = [phase EXCEPT ![t] = "idle"] /\ arc' = [arc EXCEPT ![t] = 0]
        /\ UNCHANGED <<counters, metric_of>>
    BY <1>4, <2>1, ZenonT(60) DEF metrics!inc
  <2> HIDE DEF m
  <2>3. /\ value' \in Seq(Nat) /\ Len(value') = Len(value) /\ counted' \in Seq(Metrics)
        /\ value'[counters[m]] = value[counters[m]] + 1
        /\ \A i \in 1 .. Len(value) : i # counters[m] => value'[i] = value[i]
    BY <2>1, <2>2
  <2>4. \A n \in Metrics :
           /\ m = n => Cardinality(Tally(counted', n)) = Cardinality(Tally(counted, n)) + 1
           /\ m # n => Cardinality(Tally(counted', n)) = Cardinality(Tally(counted, n))
    <3>1. counted \in Seq(Metrics)
      BY ZenonT(60)
    <3> HIDE DEF RegistryInv
    <3> QED
      BY <2>1, <2>2, <3>1, TallyAppend
  <2>5. \A n \in Metrics : Cardinality(Tally(counted, n))' =
           IF counters'[n] = 0 THEN 0 ELSE value'[counters'[n]]
    <3> SUFFICES ASSUME NEW n \in Metrics
                 PROVE  Cardinality(Tally(counted', n)) =
                           IF counters[n] = 0 THEN 0 ELSE value'[counters[n]]
      BY <2>2, ZenonT(60)
    <3>1. CASE n = m
      BY <2>1, <2>3, <2>4, <3>1, ZenonT(60)
    <3>2. CASE n # m
      <4>1. counters[n] # counters[m] /\ counters[n] \in 0 .. Len(value)
        BY <2>1, <3>2, ZenonT(60)
      <4>2. Cardinality(Tally(counted', n)) = Cardinality(Tally(counted, n))
        BY <2>4, <3>2, ZenonT(60)
      <4>3. counters[n] # 0 => value'[counters[n]] = value[counters[n]]
        BY <2>3, <4>1, LenNatural, Grown, ZenonT(60)
      <4> QED
        BY <4>2, <4>3, ZenonT(60)
    <3> QED
      BY <3>1, <3>2, ZenonT(60)
  <2>6. metrics!TypeOK'
    <3>1. 0 \in 0 .. Len(value)
      BY <2>1
    <3> QED
      BY <2>1, <2>2, <2>3, <3>1, ZenonT(60)
  <2>7. /\ phase'[t] = "idle"
        /\ \A u \in Threads \ {t} : phase'[u] = phase[u] /\ arc'[u] = arc[u]
    BY <2>2, ZenonT(60)
  <2>8. ASSUME NEW u \in Threads, phase'[u] = "insert"
        PROVE  arc'[u] # 0 /\ value'[arc'[u]] = 0 /\ \A n \in Metrics : counters[n] # arc'[u]
    <3>1. /\ u # t /\ arc'[u] = arc[u] /\ arc[u] # 0 /\ value[arc[u]] = 0
          /\ arc[u] \in 0 .. Len(value) /\ \A n \in Metrics : counters[n] # arc[u]
      BY <2>7, <2>8, ZenonT(60)
    <3> QED
      BY <2>1, <2>3, <3>1, LenNatural, Grown, ZenonT(60)
  <2>9. ASSUME NEW u \in Threads, NEW w \in Threads, phase'[u] = "insert",
               phase'[w] = "insert", arc'[u] = arc'[w]
        PROVE  u = w
    <3> HIDE DEF RegistryInv
    <3>1. u # t /\ w # t
      BY <2>7, <2>9, ZenonT(60)
    <3>2. phase[u] = "insert" /\ phase[w] = "insert" /\ arc[u] = arc[w]
      BY <2>7, <2>9, <3>1, ZenonT(60)
    <3> QED
      BY <1>b, <3>2, ZenonT(60)
  <2>10. ASSUME NEW u \in Threads, phase'[u] \in {"get", "has"}
         PROVE  /\ counters[metric_of[u]] # 0
                /\ phase'[u] = "has" => arc'[u] = counters[metric_of[u]]
    BY <2>7, <2>10, ZenonT(60)
  <2> HIDE DEF RegistryInv, metrics!TypeOK
  <2>11. counters' = counters /\ metric_of' = metric_of
    BY <2>2, ZenonT(60)
  <2>12. \A u \in Threads : phase'[u] = "insert" =>
            arc'[u] # 0 /\ value'[arc'[u]] = 0 /\ \A n \in Metrics : counters'[n] # arc'[u]
    BY <2>8, <2>11, ZenonT(60)
  <2>13. \A u, w \in Threads :
            phase'[u] = "insert" /\ phase'[w] = "insert" /\ arc'[u] = arc'[w] => u = w
    BY <2>9, ZenonT(60)
  <2>14. \A u \in Threads : phase'[u] \in {"get", "has"} =>
            /\ counters'[metric_of'[u]] # 0
            /\ phase'[u] = "has" => arc'[u] = counters'[metric_of'[u]]
    BY <2>10, <2>11, ZenonT(60)
  <2>15. /\ metric_of' \in [Threads -> Metrics]
         /\ \A k, n \in Metrics : counters'[k] # 0 /\ counters'[k] = counters'[n] => k = n
    BY <1>c, <2>11, ZenonT(60)
  <2>16. \A n \in Metrics : Cardinality(Tally(counted', n)) =
            IF counters'[n] = 0 THEN 0 ELSE value'[counters'[n]]
    BY <2>5, ZenonT(60)
  <2> QED
    BY <2>3, <2>6, <2>12, <2>13, <2>14, <2>15, <2>16, RegistryNext, ZenonT(60)
<1>5. CASE UNCHANGED metrics!regVars
  BY <1>5, ZenonT(60) DEF metrics!regVars
<1> HIDE DEF RegistryInv, metrics!TypeOK
<1> QED
  BY <1>1, <1>2, <1>3, <1>4, <1>5, ZenonT(60) DEF metrics!Next, metrics!regVars, metrics!regVars

\* The cardinality of Registry is the one of the finite-set theorems.
LEMMA OneCardinality ==
  ASSUME NEW S
  PROVE  metrics!Cardinality(S) = Cardinality(S)
BY DEF metrics!Cardinality, Cardinality

\* For any number of threads and metrics: threads that race to create a counter
\* count in one, and it shows every increment of its name (Registry::counter).
THEOREM CounterIsOne ==
  ASSUME metrics!RegistryAssumption
  PROVE  metrics!Spec => [](metrics!TypeOK /\ metrics!OneCounter)
<1>1. metrics!Init => RegistryInv
  BY RegistryInit
<1>2. RegistryInv /\ [metrics!Next]_metrics!regVars => RegistryInv'
  BY RegistryStep
<1>3. RegistryInv => metrics!TypeOK /\ metrics!OneCounter
  <2> SUFFICES ASSUME RegistryInv PROVE metrics!TypeOK /\ metrics!OneCounter
    BY ZenonT(60)
  <2>1. metrics!TypeOK /\ \A t \in Threads : phase[t] = "has" => arc[t] = counters[metric_of[t]]
    BY ZenonT(60) DEF RegistryInv
  <2>2. \A n \in Metrics :
           metrics!Cardinality(Tally(counted, n)) = IF counters[n] = 0 THEN 0 ELSE value[counters[n]]
    BY OneCardinality, ZenonT(60) DEF RegistryInv
  <2> QED
    BY <2>1, <2>2, ZenonT(60) DEF metrics!OneCounter, Tally
<1> QED
  BY <1>1, <1>2, <1>3, PTL DEF metrics!Spec
============================================================================
