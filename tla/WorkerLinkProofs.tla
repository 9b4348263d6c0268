-------------------------- MODULE WorkerLinkProofs --------------------------
(***************************************************************************)
(* Proofs about the connections to the workers, for any number of tasks,   *)
(* slots and clients.  A suite step is a step of the component that is on  *)
(* and leaves the others alone, so an invariant of a component is one of   *)
(* the suite.                                                              *)
(***************************************************************************)
EXTENDS MCWorkerLink, Sequences, TLAPS

\* The time limits of the provers, in seconds.
USE SMTT(30), ZenonT(60)

(* WorkerPool: a task that is between calls, or invalidating, has no call    *)
(* under way; what it knows of the client it saw fail.                       *)
CallsKnown ==
    \A t \in Tasks :
      /\ pc[t] \in {"idle", "drop_locks"} => call[t] = "none"
      /\ pc[t] \notin {"idle", "drop_locks"} =>
           call[t] \in {"acquire", "reacquire", "reconnect_if_stale", "reconnect"}
      /\ call[t] \in {"acquire", "reacquire"} => stale[t] = 0
      /\ call[t] = "reconnect_if_stale" => stale[t] = client[t]
      /\ call[t] = "reacquire" =>
           client[t] # 0 /\ \A s \in Slots : clients[s] # client[t]

(* WorkerPool: generations are handed out once; the one a task has connected *)
(* and not yet installed is nobody else's.                                   *)
GenerationsUnique ==
    /\ \A s \in Slots : clients[s] <= newest[s] /\ newest[s] < next_generation
    /\ \A t \in Tasks : client[t] < next_generation
    /\ \A t \in Tasks :
         pc[t] = "insert" =>
           /\ fresh[t] \in 1 .. next_generation - 1
           /\ \A s \in Slots : clients[s] # fresh[t]
           /\ \A u \in Tasks : client[u] # fresh[t]
           /\ \A u \in Tasks : pc[u] = "insert" /\ fresh[u] = fresh[t] => u = t

(* WorkerPool: a mutex has one holder, the task in the handshake, and until  *)
(* the first invalidate all the tasks of a slot meet at one mutex.           *)
MutexHeld ==
    /\ \A t \in Tasks : guard[t] = IF Handshaking(t) THEN mine[t] ELSE 0
    /\ \A t \in Tasks : pc[t] = "lock" \/ Handshaking(t) => mine[t] # 0
    /\ \A t, u \in Tasks : guard[t] # 0 /\ guard[u] = guard[t] => u = t
    /\ invalidates = 0 =>
         \A t \in Tasks :
           /\ pc[t] # "drop_locks"
           /\ pc[t] = "lock" \/ Handshaking(t) => mine[t] = lock_of[slot[t]]

Waiting(t) == pc[t] \in {"lock_ref", "lock"}
Installing(t) == pc[t] \in {"connect", "insert"}

(* WorkerPool: a client that was installed since a waiting task chose its   *)
(* slot is there for the task to share, unless its replacement is under way. *)
(* This and the next three hold until the first invalidate.                  *)
Shares(t) ==
    /\ base[t] <= newest[slot[t]]
    /\ call[t] = "reconnect_if_stale" => stale[t] <= base[t]
    /\ call[t] # "reconnect" =>
         \/ newest[slot[t]] = base[t]
         \/ Coalesced(t)
         \/ \E u \in Tasks : Installing(u) /\ slot[u] = slot[t]
WaitersShare == \A t \in Tasks : Waiting(t) => Shares(t)

HandshakesNeeded ==
    \A t \in Tasks :
      Handshaking(t) /\ call[t] # "reconnect" => newest[slot[t]] = base[t]
FreshNewer == \A t \in Tasks : pc[t] = "insert" => newest[slot[t]] < fresh[t]
ClientsInstalled ==
    \A t \in Tasks : client[t] # 0 => \E s \in Slots : client[t] <= newest[s]

SharedOrReplaced ==
    invalidates = 0 =>
      WaitersShare /\ HandshakesNeeded /\ FreshNewer /\ ClientsInstalled

PoolInv ==
    /\ TypeOK
    /\ CallsKnown
    /\ GenerationsUnique
    /\ MutexHeld
    /\ SharedOrReplaced

(* Slots and generations: zero is one, and the counters stay in range. *)
LEMMA PoolValues ==
    /\ 0 \in Slots /\ 0 \in Gens /\ Gens \subseteq Nat /\ Slots \subseteq Nat
    /\ Max64 \in Nat /\ \A g \in Gens : g < Max64
    /\ \A s \in Slots : (s + 1) % PoolSize \in Slots
    /\ \A s \in Slots : s < PoolSize - 1 => s + 1 \in Slots
    /\ \A n \in 1 .. MaxGen + 1 : n <= MaxGen => n \in Gens /\ n + 1 \in 1 .. MaxGen + 1
    /\ \A n \in 0 .. MaxInvalidates :
         n < MaxInvalidates => n + 1 \in 0 .. MaxInvalidates
  BY PoolAssumption DEF Slots, Gens, Max64

\* Every step of the pool keeps the types.
LEMMA PoolTypeStep == TypeOK /\ [Next]_vars => TypeOK'
<1> SUFFICES ASSUME TypeOK, [Next]_vars PROVE TypeOK'
  BY ZenonT(60)
<1> USE PoolValues DEF TypeOK
<1>1. ASSUME NEW t \in Tasks, NEW what \in {"reacquire", "acquire"},
             AcquireNext(t, what)
      PROVE  TypeOK'
  <2>1. CASE clients[addr_rr] # 0
    BY <1>1, <2>1 DEF AcquireNext, Return, Steps
  <2>2. CASE clients[addr_rr] = 0
    BY <1>1, <2>2 DEF AcquireNext, GoFor, Steps, AllCalls
  <2> QED BY <2>1, <2>2, ZenonT(60)
<1>2. ASSUME NEW t \in Tasks, Acquire(t) \/ ReconnectIfStale(t) PROVE TypeOK'
  BY <1>1, <1>2 DEF Acquire, ReconnectIfStale, GoFor, shared, Steps, AllCalls
<1>3. ASSUME NEW t \in Tasks, Reconnect(t) PROVE TypeOK'
  BY <1>3, ZenonT(60) DEF Reconnect, GoFor, Steps, AllCalls
<1>4. ASSUME NEW t \in Tasks, Invalidate(t) PROVE TypeOK'
  BY <1>4, ZenonT(60) DEF Invalidate, local, Steps
<1>5. ASSUME NEW t \in Tasks, LockRef(t) PROVE TypeOK'
  <2>3. lock_of[slot[t]] \in Nat
    BY ZenonT(60)
  <2>1. CASE lock_of[slot[t]] # 0
    BY <1>5, <2>1, <2>3, ZenonT(60) DEF LockRef, Steps
  <2>2. CASE lock_of[slot[t]] = 0
    BY <1>5, <2>2 DEF LockRef, Steps
  <2> QED BY <2>1, <2>2, ZenonT(60)
<1>6. ASSUME NEW t \in Tasks, Lock(t) PROVE TypeOK'
  <2>3. clients[slot[t]] \in Gens
    BY ZenonT(60)
  <2>1. CASE Coalesced(t)
    BY <1>6, <2>1, <2>3 DEF Lock, Return, Steps
  <2>2. CASE ~Coalesced(t)
    BY <1>6, <2>2, ZenonT(60) DEF Lock, local, Steps
  <2> QED BY <2>1, <2>2, ZenonT(60)
<1>7. ASSUME NEW t \in Tasks, Remove(t) PROVE TypeOK'
  BY <1>7, ZenonT(60) DEF Remove, local, Steps
<1>8. ASSUME NEW t \in Tasks, Connect(t) PROVE TypeOK'
  BY <1>8, ZenonT(60) DEF Connect, Steps
<1>9. ASSUME NEW t \in Tasks, ConnectFails(t) PROVE TypeOK'
  BY <1>9, ZenonT(60) DEF ConnectFails, Unlock, Return, Steps
<1>10. ASSUME NEW t \in Tasks, Insert(t) PROVE TypeOK'
  BY <1>10, ZenonT(60) DEF Insert, Unlock, Return, Steps
<1>11. ASSUME NEW t \in Tasks, DropLock(t) PROVE TypeOK'
  <2>1. CASE slot[t] < PoolSize - 1
    BY <1>11, <2>1, ZenonT(60) DEF DropLock, Steps
  <2>2. CASE ~(slot[t] < PoolSize - 1)
    BY <1>11, <2>2 DEF DropLock, Return, Steps
  <2> QED BY <2>1, <2>2, ZenonT(60)
<1>12. CASE UNCHANGED vars
  BY <1>12, ZenonT(60) DEF vars, shared, local
<1> QED
  BY <1>2, <1>3, <1>4, <1>5, <1>6, <1>7, <1>8, <1>9, <1>10, <1>11, <1>12, ZenonT(60)
  DEF Next, Step

(* What a task knows of its call and of the client it saw fail stays true. *)
LEMMA CallsStep ==
  ASSUME TypeOK, CallsKnown, GenerationsUnique, [Next]_vars
  PROVE  CallsKnown'
<1>1. /\ clients \in [Slots -> Gens] /\ pc \in [Tasks -> Steps]
      /\ call \in [Tasks -> {"none", "reacquire"} \cup AllCalls]
      /\ stale \in [Tasks -> Gens \cup {Max64}]
      /\ client \in [Tasks -> Gens] /\ fresh \in [Tasks -> Gens]
      /\ slot \in [Tasks -> Slots] /\ addr_rr \in Slots
  BY ZenonT(60) DEF TypeOK
<1>2. \A t \in Tasks :
        pc[t] = "insert" => fresh[t] # 0 /\ \A u \in Tasks : client[u] # fresh[t]
  BY DEF GenerationsUnique
<1> USE <1>1 DEF CallsKnown
<1>3. ASSUME NEW t \in Tasks, Acquire(t) PROVE CallsKnown'
  <2>1. CASE clients[addr_rr] # 0
    BY <1>3, <2>1 DEF Acquire, AcquireNext, Return
  <2>2. CASE clients[addr_rr] = 0
    BY <1>3, <2>2 DEF Acquire, AcquireNext, GoFor
  <2> QED BY <2>1, <2>2, ZenonT(60)
<1>4. ASSUME NEW t \in Tasks, NEW s \in Slots,
             pc[t] = "idle", GoFor(t, "reconnect_if_stale", s, client[t]),
             UNCHANGED shared
      PROVE  CallsKnown'
  BY <1>4, ZenonT(60) DEF GoFor, shared
<1>5. ASSUME NEW t \in Tasks, AcquireNext(t, "reacquire"), client[t] # 0,
             \A s \in Slots : clients[s] # client[t]
      PROVE  CallsKnown'
  <2>1. CASE clients[addr_rr] # 0
    BY <1>5, <2>1 DEF AcquireNext, Return
  <2>2. CASE clients[addr_rr] = 0
    BY <1>5, <2>2 DEF AcquireNext, GoFor
  <2> QED BY <2>1, <2>2, ZenonT(60)
<1>6. ASSUME NEW t \in Tasks, ReconnectIfStale(t) PROVE CallsKnown'
  BY <1>4, <1>5, <1>6, PoolValues, ZenonT(60) DEF ReconnectIfStale
<1>7. ASSUME NEW t \in Tasks, Reconnect(t) PROVE CallsKnown'
  BY <1>7, ZenonT(60) DEF Reconnect, GoFor
<1>8. ASSUME NEW t \in Tasks, Invalidate(t) PROVE CallsKnown'
  BY <1>8, ZenonT(60) DEF Invalidate, local
<1>9. ASSUME NEW t \in Tasks, LockRef(t) PROVE CallsKnown'
  BY <1>9, ZenonT(60) DEF LockRef
<1>10. ASSUME NEW t \in Tasks, Lock(t) PROVE CallsKnown'
  <2>1. CASE Coalesced(t)
    BY <1>10, <2>1 DEF Lock, Return
  <2>2. CASE ~Coalesced(t)
    BY <1>10, <2>2 DEF Lock, local
  <2> QED BY <2>1, <2>2, ZenonT(60)
<1>11. ASSUME NEW t \in Tasks, Remove(t) \/ Connect(t) PROVE CallsKnown'
  BY <1>11 DEF Remove, Connect, local
<1>12. ASSUME NEW t \in Tasks, ConnectFails(t) PROVE CallsKnown'
  BY <1>12, ZenonT(60) DEF ConnectFails, Return
<1>13. ASSUME NEW t \in Tasks, Insert(t) PROVE CallsKnown'
  BY <1>2, <1>13, ZenonT(60) DEF Insert, Return
<1>14. ASSUME NEW t \in Tasks, DropLock(t) PROVE CallsKnown'
  <2>1. CASE slot[t] < PoolSize - 1
    BY <1>14, <2>1 DEF DropLock
  <2>2. CASE ~(slot[t] < PoolSize - 1)
    BY <1>14, <2>2 DEF DropLock, Return
  <2> QED BY <2>1, <2>2, ZenonT(60)
<1>15. CASE UNCHANGED vars
  BY <1>15, ZenonT(60) DEF vars, shared, local
<1> QED
  BY <1>3, <1>6, <1>7, <1>8, <1>9, <1>10, <1>11, <1>12, <1>13, <1>14, <1>15, ZenonT(60)
  DEF Next, Step

(* Generations are handed out once. *)
LEMMA GenerationsStep ==
  ASSUME TypeOK, GenerationsUnique, [Next]_vars
  PROVE  GenerationsUnique'
<1>1. /\ clients \in [Slots -> Nat] /\ newest \in [Slots -> Nat]
      /\ pc \in [Tasks -> Steps] /\ client \in [Tasks -> Nat]
      /\ fresh \in [Tasks -> Nat] /\ next_generation \in Nat \ {0}
      /\ slot \in [Tasks -> Slots] /\ addr_rr \in Slots
  <2>1. next_generation \in Nat \ {0}
    BY PoolAssumption DEF TypeOK
  <2> QED
    BY <2>1, PoolValues, ZenonT(60) DEF TypeOK
<1> USE <1>1 DEF GenerationsUnique
<1>2. ASSUME NEW t \in Tasks, NEW what, AcquireNext(t, what) PROVE GenerationsUnique'
  <2>1. CASE clients[addr_rr] # 0
    BY <1>2, <2>1 DEF AcquireNext, Return
  <2>2. CASE clients[addr_rr] = 0
    BY <1>2, <2>2, ZenonT(60) DEF AcquireNext, GoFor
  <2> QED BY <2>1, <2>2, ZenonT(60)
<1>3. ASSUME NEW t \in Tasks, NEW what, NEW s, NEW g, GoFor(t, what, s, g),
             UNCHANGED <<clients, newest, next_generation>>
      PROVE  GenerationsUnique'
  BY <1>3, ZenonT(60) DEF GoFor
<1>4. ASSUME NEW t \in Tasks, Acquire(t) \/ ReconnectIfStale(t) \/ Reconnect(t)
      PROVE  GenerationsUnique'
  BY <1>2, <1>3, <1>4, ZenonT(60) DEF Acquire, ReconnectIfStale, Reconnect, shared
<1>5. ASSUME NEW t \in Tasks, Invalidate(t) PROVE GenerationsUnique'
  BY <1>5 DEF Invalidate, local
<1>6. ASSUME NEW t \in Tasks, LockRef(t) PROVE GenerationsUnique'
  BY <1>6, ZenonT(60) DEF LockRef
<1>7. ASSUME NEW t \in Tasks, Lock(t) PROVE GenerationsUnique'
  <2>1. CASE Coalesced(t)
    BY <1>7, <2>1 DEF Lock, Return
  <2>2. CASE ~Coalesced(t)
    BY <1>7, <2>2 DEF Lock, local
  <2> QED BY <2>1, <2>2, ZenonT(60)
<1>8. ASSUME NEW t \in Tasks, Remove(t) PROVE GenerationsUnique'
  BY <1>8 DEF Remove, local
<1>9. ASSUME NEW t \in Tasks, Connect(t) PROVE GenerationsUnique'
  BY <1>9 DEF Connect
<1>10. ASSUME NEW t \in Tasks, ConnectFails(t) PROVE GenerationsUnique'
  BY <1>10 DEF ConnectFails, Return
<1>11. ASSUME NEW t \in Tasks, Insert(t) PROVE GenerationsUnique'
  BY <1>11 DEF Insert, Return
<1>12. ASSUME NEW t \in Tasks, DropLock(t) PROVE GenerationsUnique'
  <2>1. CASE slot[t] < PoolSize - 1
    BY <1>12, <2>1, ZenonT(60) DEF DropLock
  <2>2. CASE ~(slot[t] < PoolSize - 1)
    BY <1>12, <2>2 DEF DropLock, Return
  <2> QED BY <2>1, <2>2, ZenonT(60)
<1>13. CASE UNCHANGED vars
  BY <1>13, ZenonT(60) DEF vars, shared, local
<1> QED
  BY <1>4, <1>5, <1>6, <1>7, <1>8, <1>9, <1>10, <1>11, <1>12, <1>13, ZenonT(60) DEF Next, Step

(* The mutexes exclude each other, and until the first invalidate the tasks *)
(* of one slot share one.                                                   *)
LEMMA MutexStep ==
  ASSUME TypeOK, MutexHeld, [Next]_vars
  PROVE  MutexHeld'
<1>1. /\ pc \in [Tasks -> Steps] /\ guard \in [Tasks -> Nat] /\ mine \in [Tasks -> Nat]
      /\ lock_of \in [Slots -> Nat] /\ locks \in Nat /\ slot \in [Tasks -> Slots]
      /\ invalidates \in Nat
  BY PoolAssumption DEF TypeOK
<1> USE <1>1 DEF MutexHeld, Handshaking
<1>2. ASSUME NEW t \in Tasks, NEW what, NEW s \in Slots, NEW g, pc[t] = "idle",
             GoFor(t, what, s, g), UNCHANGED <<guard, lock_of, invalidates>>
      PROVE  MutexHeld'
  BY <1>2, ZenonT(60) DEF GoFor
<1>3. ASSUME NEW t \in Tasks, NEW g, Return(t, g), guard' = [guard EXCEPT ![t] = 0],
             UNCHANGED <<lock_of, invalidates>>
      PROVE  MutexHeld'
  BY <1>3, ZenonT(60) DEF Return
<1>4. ASSUME NEW t \in Tasks, NEW what, pc[t] = "idle", AcquireNext(t, what)
      PROVE  MutexHeld'
  <2>1. guard = [guard EXCEPT ![t] = 0] /\ addr_rr \in Slots
    BY <1>4 DEF TypeOK
  <2> QED
    BY <1>2, <1>3, <1>4, <2>1, ZenonT(60) DEF AcquireNext
<1>5. ASSUME NEW t \in Tasks, Acquire(t) \/ ReconnectIfStale(t) \/ Reconnect(t)
      PROVE  MutexHeld'
  <2>1. addr_rr \in Slots
    BY ZenonT(60) DEF TypeOK
  <2> QED
    BY <1>2, <1>4, <1>5, <2>1, PoolValues, ZenonT(60)
    DEF Acquire, ReconnectIfStale, Reconnect, shared
<1>6. ASSUME NEW t \in Tasks, Invalidate(t) PROVE MutexHeld'
  BY <1>6 DEF Invalidate, local
<1>7. ASSUME NEW t \in Tasks, LockRef(t) PROVE MutexHeld'
  <2>1. CASE lock_of[slot[t]] # 0
    BY <1>7, <2>1 DEF LockRef
  <2>2. CASE lock_of[slot[t]] = 0
    BY <1>7, <2>2 DEF LockRef
  <2> QED BY <2>1, <2>2, ZenonT(60)
<1>8. ASSUME NEW t \in Tasks, Lock(t) PROVE MutexHeld'
  <2>1. CASE Coalesced(t)
    <3>1. guard = [guard EXCEPT ![t] = 0]
      BY <1>8, ZenonT(60) DEF Lock
    <3> QED
      BY <1>3, <1>8, <2>1, <3>1, ZenonT(60) DEF Lock
  <2>2. CASE ~Coalesced(t)
    BY <1>8, <2>2 DEF Lock, Free, local
  <2> QED BY <2>1, <2>2, ZenonT(60)
<1>9. ASSUME NEW t \in Tasks, Remove(t) \/ Connect(t) PROVE MutexHeld'
  BY <1>9 DEF Remove, Connect, local
<1>10. ASSUME NEW t \in Tasks, ConnectFails(t) \/ Insert(t) PROVE MutexHeld'
  BY <1>3, <1>10, ZenonT(60) DEF ConnectFails, Insert, Unlock
<1>11. ASSUME NEW t \in Tasks, DropLock(t) PROVE MutexHeld'
  <2>1. CASE slot[t] < PoolSize - 1
    BY <1>11, <2>1, ZenonT(60) DEF DropLock
  <2>2. CASE ~(slot[t] < PoolSize - 1)
    BY <1>11, <2>2 DEF DropLock, Return
  <2> QED BY <2>1, <2>2, ZenonT(60)
<1>12. CASE UNCHANGED vars
  BY <1>12, ZenonT(60) DEF vars, shared, local
<1> QED
  BY <1>5, <1>6, <1>7, <1>8, <1>9, <1>10, <1>11, <1>12, ZenonT(60) DEF Next, Step

(* The tasks of one slot share one mutex, so one of them is in the handshake. *)
LEMMA OneHolder == TypeOK /\ MutexHeld => SingleHandshake
  BY DEF TypeOK, MutexHeld, SingleHandshake, Handshaking

(* Until the first invalidate, what is installed is shared or replaced. *)
LEMMA SharedStep ==
  ASSUME PoolInv, [Next]_vars
  PROVE  SharedOrReplaced'
<1> DEFINE Good == WaitersShare /\ HandshakesNeeded /\ FreshNewer /\ ClientsInstalled
<1>1. /\ pc \in [Tasks -> Steps] /\ call \in [Tasks -> {"none", "reacquire"} \cup AllCalls]
      /\ slot \in [Tasks -> Slots] /\ addr_rr \in Slots /\ 0 \in Slots
  BY PoolValues, ZenonT(60) DEF PoolInv, TypeOK
<1>2. /\ clients \in [Slots -> Nat] /\ newest \in [Slots -> Nat]
      /\ client \in [Tasks -> Nat] /\ fresh \in [Tasks -> Nat]
      /\ stale \in [Tasks -> Nat] /\ base \in [Tasks -> Nat]
  BY PoolValues, ZenonT(60) DEF PoolInv, TypeOK
<1>3. invalidates' = 0 => invalidates = 0
  <2>1. invalidates \in Nat
    BY PoolAssumption DEF PoolInv, TypeOK
  <2>2. ASSUME NEW t \in Tasks, Acquire(t) \/ ReconnectIfStale(t) \/ Reconnect(t)
        PROVE  invalidates' = invalidates
    BY <2>2, ZenonT(60)
    DEF Acquire, ReconnectIfStale, Reconnect, AcquireNext, shared
  <2>3. ASSUME NEW t \in Tasks, Step(t) PROVE invalidates' = invalidates
    BY <2>3, ZenonT(60)
    DEF Step, LockRef, Lock, Remove, Connect, ConnectFails, Insert, DropLock
  <2>4. ASSUME NEW t \in Tasks, Invalidate(t) PROVE invalidates' = invalidates + 1
    BY <2>4, ZenonT(60) DEF Invalidate
  <2>5. UNCHANGED vars => invalidates' = invalidates
    BY ZenonT(60) DEF vars, shared
  <2>6. invalidates' = invalidates \/ invalidates' = invalidates + 1
    BY <2>2, <2>3, <2>4, <2>5, ZenonT(60) DEF Next
  <2> QED
    BY <2>1, <2>6
<1> SUFFICES ASSUME invalidates = 0, invalidates' = 0 PROVE Good'
  BY <1>3, ZenonT(60) DEF SharedOrReplaced
<1>4. WaitersShare /\ HandshakesNeeded /\ FreshNewer /\ ClientsInstalled
  BY ZenonT(60) DEF PoolInv, SharedOrReplaced
<1>5. \A t, u \in Tasks :
        Handshaking(t) /\ Handshaking(u) /\ slot[t] = slot[u] => t = u
  BY OneHolder, ZenonT(60) DEF PoolInv, SingleHandshake
<1>6. \A t \in Tasks : /\ call[t] \in {"acquire", "reacquire"} => stale[t] = 0
                       /\ call[t] = "reconnect_if_stale" => stale[t] = client[t]
                       /\ Waiting(t) => call[t] \in {"acquire", "reacquire",
                                            "reconnect_if_stale", "reconnect"}
  BY ZenonT(60) DEF PoolInv, CallsKnown, Waiting
<1>7. /\ \A s \in Slots : clients[s] <= newest[s] /\ newest[s] < next_generation
      /\ next_generation \in Nat
  BY PoolAssumption DEF PoolInv, TypeOK, GenerationsUnique
<1> DEFINE Installed(u) == \E s \in Slots : client[u] <= newest[s]
           Same(u) == /\ pc'[u] = pc[u] /\ slot'[u] = slot[u] /\ call'[u] = call[u]
                      /\ stale'[u] = stale[u] /\ fresh'[u] = fresh[u]
                      /\ base'[u] = base[u] /\ client'[u] = client[u]
\* A step of one task that installs nothing and gives no handshake up.
<1>8. ASSUME NEW t \in Tasks, newest' = newest, \A u \in Tasks \ {t} : Same(u),
             \A s \in Slots : \/ clients'[s] = clients[s]
                              \/ Installing(t)' /\ slot'[t] = s,
             Installing(t) => Installing(t)' /\ slot'[t] = slot[t],
             Waiting(t)' => Shares(t)',
             Handshaking(t)' /\ call'[t] # "reconnect" => newest[slot'[t]] = base'[t],
             pc'[t] = "insert" => newest[slot'[t]] < fresh'[t],
             client'[t] # 0 => Installed(t)'
      PROVE  Good'
  <2>1. WaitersShare'
    <3> SUFFICES ASSUME NEW u \in Tasks, Waiting(u)' PROVE Shares(u)'
      BY ZenonT(60) DEF WaitersShare
    <3>1. CASE u = t
      BY <1>8, <3>1, ZenonT(60)
    <3>2. CASE u # t
      <4>1. Same(u) /\ Waiting(u) /\ slot[u] \in Slots
        BY <1>1, <1>8, <3>2, ZenonT(60) DEF Waiting
      <4>2. Shares(u)
        BY <1>4, <4>1, ZenonT(60) DEF WaitersShare
      <4>3. /\ base[u] <= newest[slot[u]]
            /\ call[u] = "reconnect_if_stale" => stale[u] <= base[u]
        BY <4>2, ZenonT(60) DEF Shares
      <4> SUFFICES ASSUME call[u] # "reconnect", newest[slot[u]] # base[u]
                   PROVE  Coalesced(u)' \/ \E v \in Tasks : Installing(v)' /\ slot'[v] = slot[u]
        BY <1>8, <4>1, <4>3, ZenonT(60) DEF Shares
      <4>4. CASE Coalesced(u)
        BY <1>8, <4>1, <4>4, ZenonT(60) DEF Coalesced
      <4>5. ASSUME NEW v \in Tasks, Installing(v), slot[v] = slot[u]
            PROVE  Installing(v)' /\ slot'[v] = slot[u]
        BY <1>8, <4>5, ZenonT(60) DEF Installing
      <4> QED
        BY <4>2, <4>4, <4>5, ZenonT(60) DEF Shares
    <3> QED BY <3>1, <3>2, ZenonT(60)
  <2>2. HandshakesNeeded'
    BY <1>4, <1>8, ZenonT(60) DEF HandshakesNeeded, Handshaking
  <2>3. FreshNewer'
    BY <1>4, <1>8, ZenonT(60) DEF FreshNewer
  <2>4. ClientsInstalled'
    BY <1>4, <1>8, ZenonT(60) DEF ClientsInstalled
  <2> QED BY <2>1, <2>2, <2>3, <2>4, ZenonT(60)
<1> HIDE DEF Good
<1>9. ASSUME NEW t \in Tasks, NEW what, NEW s \in Slots, NEW g \in Nat,
             pc[t] = "idle", GoFor(t, what, s, g),
             what = "reconnect_if_stale" => g <= newest[s],
             UNCHANGED <<clients, newest>>
      PROVE  Good'
  <2>1. \A u \in Tasks \ {t} : Same(u)
    BY <1>1, <1>2, <1>9, ZenonT(60) DEF GoFor
  <2>2. /\ pc'[t] = "lock_ref" /\ slot'[t] = s /\ base'[t] = newest[s]
        /\ call'[t] = what /\ stale'[t] = g /\ client'[t] = client[t]
    BY <1>1, <1>2, <1>9, ZenonT(60) DEF GoFor
  <2>3. Shares(t)' /\ ~Handshaking(t)' /\ ~Installing(t) /\ pc'[t] # "insert"
    <3>1. newest[s] <= newest[s]
      BY <1>2
    <3> QED
      BY <1>9, <2>2, <3>1, ZenonT(60) DEF Handshaking, Installing, Shares
  <2>4. client'[t] # 0 => Installed(t)'
    BY <1>4, <1>9, <2>2, ZenonT(60) DEF ClientsInstalled
  <2> HIDE DEF Same, Installed
  <2> QED
    BY <1>8, <1>9, <2>1, <2>3, <2>4, ZenonT(60)
\* A task that has no handshake under way is given a client of the cache.
<1>10. ASSUME NEW t \in Tasks, NEW s \in Slots, clients[s] # 0, ~Installing(t),
              Return(t, clients[s]), UNCHANGED <<clients, newest>>,
              \A u \in Tasks \ {t} : base'[u] = base[u]
       PROVE  Good'
  <2>1. \A u \in Tasks \ {t} : Same(u)
    BY <1>1, <1>2, <1>10, ZenonT(60) DEF Return
  <2>2. pc'[t] = "idle" /\ client'[t] = clients[s]
    BY <1>1, <1>2, <1>10, ZenonT(60) DEF Return
  <2>3. ~Waiting(t)' /\ ~Handshaking(t)' /\ pc'[t] # "insert"
    BY <2>2, ZenonT(60) DEF Waiting, Handshaking
  <2>4. Installed(t)'
    BY <1>7, <1>10, <2>2, ZenonT(60)
  <2> HIDE DEF Same, Installed
  <2> QED
    BY <1>8, <1>10, <2>1, <2>3, <2>4, ZenonT(60)
<1>11. ASSUME NEW t \in Tasks, NEW what \in {"acquire", "reacquire"},
              pc[t] = "idle", AcquireNext(t, what)
       PROVE  Good'
  <2>1. ~Installing(t) /\ what # "reconnect_if_stale" /\ 0 \in Nat
    BY <1>11, ZenonT(60) DEF Installing
  <2>2. CASE clients[addr_rr] # 0
    BY <1>1, <1>10, <1>11, <2>1, <2>2, ZenonT(60) DEF AcquireNext
  <2>3. CASE clients[addr_rr] = 0
    <3>1. GoFor(t, what, addr_rr, 0) /\ UNCHANGED <<clients, newest>>
      BY <1>11, <2>3, ZenonT(60) DEF AcquireNext
    <3> QED
      BY <1>1, <1>9, <1>11, <2>1, <3>1, ZenonT(60)
  <2> QED BY <2>2, <2>3, ZenonT(60)
<1>12. ASSUME NEW t \in Tasks, Acquire(t) PROVE Good'
  BY <1>11, <1>12, ZenonT(60) DEF Acquire
<1>13. ASSUME NEW t \in Tasks, ReconnectIfStale(t) PROVE Good'
  <2>1. pc[t] = "idle" /\ client[t] # 0 /\ client[t] \in Nat
    BY <1>2, <1>13, ZenonT(60) DEF ReconnectIfStale
  <2>2. ASSUME NEW s \in Slots, GoFor(t, "reconnect_if_stale", s, client[t]),
               UNCHANGED shared, client[t] <= newest[s]
        PROVE  Good'
    BY <1>9, <2>1, <2>2, ZenonT(60) DEF shared
  <2>3. CASE PoolSize = 1
    <3>1. client[t] <= newest[0]
      BY <1>4, <2>1, <2>3 DEF ClientsInstalled, Slots
    <3> QED
      BY <1>1, <1>13, <2>2, <2>3, <3>1, ZenonT(60) DEF ReconnectIfStale
  <2>4. CASE PoolSize # 1
    BY <1>7, <1>11, <1>13, <2>1, <2>2, <2>4, ZenonT(60) DEF ReconnectIfStale
  <2> QED BY <2>3, <2>4, ZenonT(60)
<1>14. ASSUME NEW t \in Tasks, Reconnect(t) PROVE Good'
  BY <1>1, <1>9, <1>14, PoolValues, ZenonT(60) DEF Reconnect
<1>15. ASSUME NEW t \in Tasks, Invalidate(t) PROVE invalidates' # 0
  BY <1>15, PoolAssumption DEF Invalidate, PoolInv, TypeOK
<1>16. ASSUME NEW t \in Tasks, LockRef(t) PROVE Good'
  <2>1. /\ pc[t] = "lock_ref" /\ pc' = [pc EXCEPT ![t] = "lock"]
        /\ UNCHANGED <<clients, newest, slot, call, stale, fresh, base, client>>
    BY <1>16, ZenonT(60) DEF LockRef
  <2>2. pc'[t] = "lock" /\ \A u \in Tasks \ {t} : Same(u)
    BY <1>1, <2>1, ZenonT(60)
  <2>3. ~Installing(t) /\ ~Handshaking(t)' /\ Waiting(t) /\ pc'[t] # "insert"
    BY <2>1, <2>2, ZenonT(60) DEF Installing, Handshaking, Waiting
  <2>4. Shares(t)
    BY <1>4, <2>3, ZenonT(60) DEF WaitersShare
  <2>5. \A v \in Tasks : Installing(v) => Installing(v)'
    BY <2>2, <2>3, ZenonT(60) DEF Installing
  <2>6. Shares(t)'
    BY <2>1, <2>4, <2>5, ZenonT(60) DEF Shares, Coalesced
  <2>7. client'[t] # 0 => Installed(t)'
    BY <1>4, <2>1, ZenonT(60) DEF ClientsInstalled
  <2> HIDE DEF Same, Installed
  <2> QED
    BY <1>8, <2>1, <2>2, <2>3, <2>6, <2>7, ZenonT(60)
<1>17. ASSUME NEW t \in Tasks, Lock(t) PROVE Good'
  <2>1. pc[t] = "lock" /\ ~Installing(t) /\ Waiting(t) /\ UNCHANGED <<clients, newest>>
    BY <1>17, ZenonT(60) DEF Lock, Installing, Waiting
  <2>2. CASE Coalesced(t)
    <3>1. \A u \in Tasks \ {t} : base'[u] = base[u]
      BY <1>2, <1>17, <2>2, ZenonT(60) DEF Lock
    <3>2. slot[t] \in Slots /\ clients[slot[t]] # 0 /\ Return(t, clients[slot[t]])
      BY <1>1, <1>17, <2>2, ZenonT(60) DEF Lock, Coalesced
    <3> QED
      BY <1>10, <2>1, <3>1, <3>2, ZenonT(60)
  <2>3. CASE ~Coalesced(t)
    <3>1. \A u \in Tasks : Handshaking(u) => slot[u] # slot[t]
      BY <1>17 DEF PoolInv, MutexHeld, Lock, Free
    <3>2. \A u \in Tasks : Installing(u) => slot[u] # slot[t]
      BY <3>1, ZenonT(60) DEF Installing, Handshaking
    <3>3. /\ UNCHANGED <<slot, call, stale, fresh, base, client>>
          /\ pc' = [pc EXCEPT ![t] = IF call[t] \in {"acquire", "reacquire"}
                                     THEN "connect" ELSE "remove"]
      BY <1>17, <2>3, ZenonT(60) DEF Lock, local
    <3>4. pc'[t] \in {"connect", "remove"} /\ \A u \in Tasks \ {t} : Same(u)
      BY <1>1, <3>3, ZenonT(60)
    <3>5. ~Waiting(t)' /\ pc'[t] # "insert"
      BY <3>4, ZenonT(60) DEF Waiting
    <3>6. call[t] # "reconnect" => newest[slot[t]] = base[t]
      BY <1>4, <2>1, <2>3, <3>2, ZenonT(60) DEF WaitersShare, Shares
    <3>7. client'[t] # 0 => Installed(t)'
      BY <1>4, <2>1, <3>3, ZenonT(60) DEF ClientsInstalled
    <3> HIDE DEF Same, Installed
    <3> QED
      BY <1>8, <2>1, <3>3, <3>4, <3>5, <3>6, <3>7, ZenonT(60)
  <2> QED BY <2>2, <2>3, ZenonT(60)
<1>18. ASSUME NEW t \in Tasks, Remove(t) \/ Connect(t) PROVE Good'
  <2>1. /\ Handshaking(t) /\ newest' = newest
        /\ UNCHANGED <<slot, call, stale, base, client>>
    BY <1>18, ZenonT(60) DEF Remove, Connect, local, Handshaking
  <2>2. Installing(t)' /\ Handshaking(t)' /\ ~Waiting(t)' /\ \A u \in Tasks \ {t} : Same(u)
    BY <1>1, <1>2, <1>18, ZenonT(60) DEF Remove, Connect, local, Installing, Handshaking, Waiting
  <2>3. \A s \in Slots : clients'[s] = clients[s] \/ slot'[t] = s
    BY <1>1, <1>2, <1>18, ZenonT(60) DEF Remove, Connect, local
  <2>4. pc'[t] = "insert" => newest[slot'[t]] < fresh'[t]
    BY <1>1, <1>2, <1>7, <1>18, ZenonT(60) DEF Remove, Connect, local
  <2>5. call[t] # "reconnect" => newest[slot[t]] = base[t]
    BY <1>4, <2>1, ZenonT(60) DEF HandshakesNeeded
  <2>6. client'[t] # 0 => Installed(t)'
    BY <1>4, <2>1, ZenonT(60) DEF ClientsInstalled
  <2> HIDE DEF Same, Installed
  <2> QED
    BY <1>8, <2>1, <2>2, <2>3, <2>4, <2>5, <2>6, ZenonT(60)
<1>19. ASSUME NEW t \in Tasks, ConnectFails(t) PROVE Good'
  <2>1. /\ pc[t] = "connect" /\ newest' = newest /\ clients' = clients
        /\ Handshaking(t)
    BY <1>19, ZenonT(60) DEF ConnectFails, Handshaking
  <2>2. /\ pc'[t] = "idle" /\ client'[t] = 0
        /\ \A u \in Tasks \ {t} :
             /\ pc'[u] = pc[u] /\ slot'[u] = slot[u] /\ call'[u] = call[u]
             /\ stale'[u] = stale[u] /\ fresh'[u] = fresh[u] /\ client'[u] = client[u]
    BY <1>1, <1>2, <1>19, ZenonT(60) DEF ConnectFails, Return
  <2>3. \A u \in Tasks \ {t} : pc[u] \notin {"idle", "drop_locks"} =>
          base'[u] = IF slot[u] = slot[t] THEN newest[slot[t]] ELSE base[u]
    BY <1>19, ZenonT(60) DEF ConnectFails
  <2>4. ASSUME NEW u \in Tasks, Waiting(u)' PROVE Shares(u)'
    <3>1. u # t /\ Waiting(u) /\ pc[u] \notin {"idle", "drop_locks"} /\ slot[u] \in Slots
      BY <1>1, <2>2, <2>4, ZenonT(60) DEF Waiting
    <3>2. Shares(u)
      BY <1>4, <3>1, ZenonT(60) DEF WaitersShare
    <3>3. CASE slot[u] = slot[t]
      <4>1. base'[u] = newest[slot[u]]
        BY <2>3, <3>1, <3>3, ZenonT(60)
      <4>2. newest[slot[u]] \in Nat /\ base[u] \in Nat /\ stale[u] \in Nat
        BY <1>2, <3>1, ZenonT(60)
      <4>3. /\ base[u] <= newest[slot[u]]
            /\ call[u] = "reconnect_if_stale" => stale[u] <= base[u]
        BY <3>2, ZenonT(60) DEF Shares
      <4>4. /\ newest[slot[u]] <= newest[slot[u]]
            /\ call[u] = "reconnect_if_stale" => stale[u] <= newest[slot[u]]
        BY <4>2, <4>3
      <4> QED
        BY <2>1, <2>2, <3>1, <4>1, <4>4, ZenonT(60) DEF Shares
    <3>4. CASE slot[u] # slot[t]
      <4>1. base'[u] = base[u]
        BY <2>3, <3>1, <3>4, ZenonT(60)
      <4>2. \A v \in Tasks : Installing(v) /\ slot[v] = slot[u] =>
                             Installing(v)' /\ slot'[v] = slot[u]
        BY <2>2, <3>4, ZenonT(60) DEF Installing
      <4> QED
        BY <2>1, <2>2, <3>1, <3>2, <4>1, <4>2, ZenonT(60) DEF Shares, Coalesced
    <3> QED BY <3>3, <3>4, ZenonT(60)
  <2>5. WaitersShare'
    BY <2>4, ZenonT(60) DEF WaitersShare
  <2>6. HandshakesNeeded'
    <3> SUFFICES ASSUME NEW u \in Tasks, Handshaking(u)', call'[u] # "reconnect"
                 PROVE  newest'[slot'[u]] = base'[u]
      BY ZenonT(60) DEF HandshakesNeeded
    <3>1. u # t /\ Handshaking(u) /\ pc[u] \notin {"idle", "drop_locks"}
      BY <2>2, ZenonT(60) DEF Handshaking
    <3>2. slot[u] # slot[t]
      BY <1>5, <2>1, <3>1, ZenonT(60)
    <3> QED
      BY <1>4, <2>1, <2>2, <2>3, <3>1, <3>2, ZenonT(60) DEF HandshakesNeeded
  <2>7. FreshNewer'
    <3>1. \A u \in Tasks : pc'[u] = "insert" => u # t
      BY <2>2, ZenonT(60)
    <3> QED
      BY <1>4, <2>1, <2>2, <3>1, ZenonT(60) DEF FreshNewer
  <2>8. ClientsInstalled'
    BY <1>4, <2>1, <2>2, ZenonT(60) DEF ClientsInstalled
  <2> QED BY <2>5, <2>6, <2>7, <2>8, ZenonT(60) DEF Good
<1>20. ASSUME NEW t \in Tasks, Insert(t) PROVE Good'
  <2>1. pc[t] = "insert" /\ slot[t] \in Slots /\ fresh[t] \in Nat /\ Handshaking(t)
    BY <1>1, <1>2, <1>20, ZenonT(60) DEF Insert, Handshaking
  <2>2. newest[slot[t]] < fresh[t]
    BY <1>4, <2>1, ZenonT(60) DEF FreshNewer
  <2>3. /\ newest'[slot[t]] = fresh[t] /\ clients'[slot[t]] = fresh[t]
        /\ \A s \in Slots \ {slot[t]} : newest'[s] = newest[s] /\ clients'[s] = clients[s]
    BY <1>2, <1>20, <2>1, <2>2, ZenonT(60) DEF Insert
  <2>4. /\ pc'[t] = "idle" /\ client'[t] = fresh[t]
        /\ \A u \in Tasks \ {t} : Same(u)
    BY <1>1, <1>2, <1>20, ZenonT(60) DEF Insert, Return
  <2>5. WaitersShare'
    <3> SUFFICES ASSUME NEW u \in Tasks, Waiting(u)' PROVE Shares(u)'
      BY ZenonT(60) DEF WaitersShare
    <3>1. u # t /\ Waiting(u) /\ Same(u) /\ slot[u] \in Slots
      BY <1>1, <2>4, ZenonT(60) DEF Waiting
    <3>2. Shares(u)
      BY <1>4, <3>1, ZenonT(60) DEF WaitersShare
    <3>3. CASE slot[u] = slot[t]
      <4>1. clients'[slot[u]] = fresh[t] /\ newest'[slot[u]] = fresh[t]
        BY <2>3, <3>3, ZenonT(60)
      <4>2. newest[slot[u]] \in Nat /\ base[u] \in Nat /\ stale[u] \in Nat
        BY <1>2, <3>1, ZenonT(60)
      <4>3. /\ base[u] <= newest[slot[u]]
            /\ call[u] = "reconnect_if_stale" => stale[u] <= base[u]
        BY <3>2, ZenonT(60) DEF Shares
      <4>4. call[u] = "reconnect" \/ stale[u] <= base[u]
        BY <1>6, <3>1, <4>2, <4>3
      <4>5. newest[slot[u]] < fresh[t]
        BY <2>2, <3>3, ZenonT(60)
      <4>6. /\ base[u] <= fresh[t] /\ fresh[t] # 0
            /\ call[u] = "reconnect" \/ fresh[t] > stale[u]
        BY <2>1, <4>2, <4>3, <4>4, <4>5
      <4> QED
        BY <3>1, <4>1, <4>3, <4>6, ZenonT(60) DEF Shares, Coalesced
    <3>4. CASE slot[u] # slot[t]
      <4>1. clients'[slot[u]] = clients[slot[u]] /\ newest'[slot[u]] = newest[slot[u]]
        BY <2>3, <3>1, <3>4, ZenonT(60)
      <4>2. \A v \in Tasks : Installing(v) /\ slot[v] = slot[u] =>
                             Installing(v)' /\ slot'[v] = slot[u]
        BY <2>4, <3>4, ZenonT(60) DEF Installing
      <4> QED
        BY <3>1, <3>2, <4>1, <4>2, ZenonT(60) DEF Shares, Coalesced
    <3> QED BY <3>3, <3>4, ZenonT(60)
  <2>6. ASSUME NEW u \in Tasks, Handshaking(u)' 
        PROVE  /\ u # t /\ Handshaking(u) /\ Same(u)
               /\ newest'[slot'[u]] = newest[slot[u]]
    <3>1. u # t /\ Handshaking(u) /\ Same(u) /\ slot[u] \in Slots
      BY <1>1, <2>4, <2>6, ZenonT(60) DEF Handshaking
    <3>2. slot[u] # slot[t]
      BY <1>5, <2>1, <3>1, ZenonT(60)
    <3> QED
      BY <2>3, <3>1, <3>2, ZenonT(60)
  <2>7. HandshakesNeeded'
    BY <1>4, <2>6, ZenonT(60) DEF HandshakesNeeded
  <2>8. FreshNewer'
    BY <1>4, <2>6, ZenonT(60) DEF FreshNewer, Handshaking
  <2>9. ClientsInstalled'
    <3>1. \A s \in Slots : newest[s] <= newest'[s]
      BY <1>2, <2>1, <2>2, <2>3
    <3>2. /\ \A s \in Slots : newest[s] \in Nat /\ newest'[s] \in Nat
          /\ \A u \in Tasks : client[u] \in Nat
      BY <1>2, <2>1, <2>3, ZenonT(60)
    <3>3. fresh[t] <= newest'[slot[t]]
      BY <2>1, <2>3
    <3>4. \A u \in Tasks \ {t} : client'[u] = client[u]
      BY <2>4, ZenonT(60)
    <3>5. ASSUME NEW u \in Tasks \ {t}, client[u] # 0
          PROVE  \E s \in Slots : client[u] <= newest'[s]
      <4>1. PICK s \in Slots : client[u] <= newest[s]
        BY <1>4, <3>5, ZenonT(60) DEF ClientsInstalled
      <4>2. client[u] <= newest'[s]
        BY <3>1, <3>2, <4>1
      <4> QED BY <4>2, ZenonT(60)
    <3> QED
      BY <2>1, <2>4, <3>3, <3>4, <3>5, ZenonT(60) DEF ClientsInstalled
  <2> QED BY <2>5, <2>7, <2>8, <2>9, ZenonT(60) DEF Good
<1>21. ASSUME NEW t \in Tasks, DropLock(t) PROVE FALSE
  BY <1>21, ZenonT(60) DEF DropLock, PoolInv, MutexHeld
<1>22. CASE UNCHANGED vars
  BY <1>4, <1>22, ZenonT(60) DEF vars, shared, local, Good, WaitersShare, HandshakesNeeded,
    Shares, FreshNewer, ClientsInstalled, Handshaking, Waiting, Installing, Coalesced
<1> QED
  BY <1>12, <1>13, <1>14, <1>15, <1>16, <1>17, <1>18, <1>19, <1>20, <1>21,
     <1>22, ZenonT(60)
  DEF Next, Step

(* The invariant of the pool holds in every reachable state. *)
LEMMA PoolInvariance == Init /\ [][Next]_vars => []PoolInv
<1>1. Init => PoolInv
  <2> SUFFICES ASSUME Init PROVE PoolInv
    BY ZenonT(60)
  <2>1. TypeOK
    BY PoolValues, PoolAssumption DEF Init, TypeOK, Steps
  <2>2. CallsKnown /\ MutexHeld
    BY ZenonT(60) DEF Init, CallsKnown, MutexHeld, Handshaking
  <2>3. GenerationsUnique /\ SharedOrReplaced
    BY DEF Init, GenerationsUnique, SharedOrReplaced, WaitersShare, HandshakesNeeded,
           FreshNewer, ClientsInstalled, Handshaking, Waiting
  <2> QED
    BY <2>1, <2>2, <2>3, ZenonT(60) DEF PoolInv
<1>2. PoolInv /\ [Next]_vars => PoolInv'
  BY PoolTypeStep, CallsStep, GenerationsStep, MutexStep, SharedStep, ZenonT(60) DEF PoolInv
<1> QED
  BY <1>1, <1>2, PTL

(* A step of the suite is a step of its component, or leaves it alone. *)
LEMMA SuiteSteps == SuiteSpec => Init /\ [][Next]_vars
<1>1. SuiteInit => Init
  BY ZenonT(60) DEF SuiteInit
<1>2. [SuiteNext]_all => [Next]_vars
  BY ZenonT(60) DEF SuiteNext, all
<1> QED
  BY <1>1, <1>2, PTL DEF SuiteSpec

(* However acquire, reconnect_if_stale, reconnect and failed handshakes of  *)
(* any number of tasks interleave, one task is in the handshake of a slot,  *)
(* and none makes a connection that another has already made for it, until  *)
(* the first invalidate.                                                    *)
THEOREM HandshakeIsSingle == SuiteSpec => []OneHandshake
<1>1. PoolInv => OneHandshake
  BY OneHolder, ZenonT(60) DEF PoolInv, OneHandshake, SharedOrReplaced, HandshakesNeeded,
                   NoDuplicateHandshake
<1> QED
  BY <1>1, SuiteSteps, PoolInvariance, PTL

(* reconnect_if_stale never returns the client its caller saw fail, whatever *)
(* is invalidated and reconnected meanwhile.                                 *)
THEOREM StaleNeverReturned == SuiteSpec => NeverStaleAgain
<1> DEFINE Again == \A t \in Tasks :
         /\ ReconnectIfStale(t) \/ call[t] \in {"reconnect_if_stale", "reacquire"}
         /\ pc'[t] = "idle"
         /\ client'[t] # 0
         => client'[t] # client[t]
<1>1. PoolInv /\ [Next]_vars => [Again]_vars
  <2> SUFFICES ASSUME PoolInv, Next, NEW t \in Tasks,
                      ReconnectIfStale(t) \/ call[t] \in {"reconnect_if_stale", "reacquire"},
                      pc'[t] = "idle", client'[t] # 0
               PROVE  client'[t] # client[t]
    BY ZenonT(60) DEF vars
  <2>1. /\ pc \in [Tasks -> Steps] /\ client \in [Tasks -> Nat]
        /\ clients \in [Slots -> Nat] /\ slot \in [Tasks -> Slots] /\ addr_rr \in Slots
        /\ call \in [Tasks -> {"none", "reacquire"} \cup AllCalls]
        /\ stale \in [Tasks -> Nat]
    BY PoolValues, ZenonT(60) DEF PoolInv, TypeOK
  <2>2. CASE ReconnectIfStale(t)
    BY <2>1, <2>2, ZenonT(60) DEF ReconnectIfStale, AcquireNext, GoFor, Return
  <2>3. CASE call[t] \in {"reconnect_if_stale", "reacquire"}
    <3>1. pc[t] \notin {"idle", "drop_locks"}
      BY <2>3, ZenonT(60) DEF PoolInv, CallsKnown
    <3>2. PICK u \in Tasks : Acquire(u) \/ ReconnectIfStale(u) \/ Reconnect(u)
                              \/ Invalidate(u) \/ Step(u)
      BY ZenonT(60) DEF Next
    <3>3. u = t
      BY <2>1, <3>1, <3>2, ZenonT(60) DEF Acquire, ReconnectIfStale, Reconnect, Invalidate, Step,
        AcquireNext, GoFor, Return, LockRef, Lock, Remove, Connect, ConnectFails,
        Insert, DropLock
    <3>4. CASE Lock(t)
      BY <2>1, <2>3, <3>4 DEF Lock, Coalesced, Return, PoolInv, CallsKnown
    <3>5. CASE Insert(t)
      BY <2>1, <3>5, ZenonT(60) DEF Insert, Return, PoolInv, GenerationsUnique
    <3>6. CASE ~Lock(t) /\ ~Insert(t)
      BY <2>1, <3>1, <3>2, <3>3, <3>6, ZenonT(60) DEF Acquire, ReconnectIfStale, Reconnect,
        Invalidate, Step, LockRef, Remove, Connect, ConnectFails, DropLock, Return
    <3> QED BY <3>4, <3>5, <3>6, ZenonT(60)
  <2> QED BY <2>2, <2>3, ZenonT(60)
<1> QED
  BY <1>1, SuiteSteps, PoolInvariance, PTL DEF NeverStaleAgain

----------------------------------------------------------------------------
(* Retry: the budget left at each place of the loop. *)
RetryInv ==
    /\ policy \in {"time", "count"} /\ loop \in {"ask", "attempt", "sleep", "over"}
    /\ max_sleep \in Nat /\ initial_sleep \in Nat
    /\ attempts \in Nat /\ current_sleep \in Nat /\ elapsed \in Nat
    /\ attempts = 0 => loop = "ask" /\ elapsed = 0
    /\ retry!SleepCapped
    /\ policy = "count" => attempts <= MaxRetries + 1
    /\ policy = "time" =>
         LET deadline == retry!Larger(MaxDuration, 1) IN
         /\ loop = "attempt" => elapsed < deadline
         /\ loop = "sleep" => elapsed < deadline + MaxAttemptTime
         /\ elapsed < deadline + MaxAttemptTime + retry!LongestSleep + 1

(* A step of the loop keeps the budget. *)
LEMMA RetryStep == RetryInv /\ [retry!Next]_retryVars => RetryInv'
<1> SUFFICES ASSUME RetryInv, [retry!Next]_retryVars PROVE RetryInv'
  BY ZenonT(60)
<1>1. MaxDuration \in Nat /\ MaxRetries \in Nat /\ MaxAttemptTime \in Nat \ {0}
  BY LinkAssumption, ZenonT(60) DEF retry!RetryAssumption
<1> USE <1>1 DEF RetryInv, retry!SleepCapped, retry!LongestSleep, retry!Larger
<1>2. CASE retry!should_retry
  BY <1>2 DEF retry!should_retry, retry!Spent, retry!Doubled, retry!Smaller
<1>3. CASE retry!Attempt
  BY <1>3 DEF retry!Attempt
<1>4. CASE retry!next_sleep
  BY <1>4 DEF retry!next_sleep, retry!Smaller
<1>5. CASE retry!Over \/ UNCHANGED retryVars
  BY <1>5, ZenonT(60) DEF retry!Over, retry!vars, retryVars
<1> QED
  BY <1>2, <1>3, <1>4, <1>5, ZenonT(60) DEF retry!Next

(* The retry loops keep their budget, of attempts or of time, and no sleep   *)
(* after a retry is above the ceiling, for any configured durations.          *)
THEOREM RetryIsBounded == SuiteSpec => []RetryBounded
<1> DEFINE Inv == on = "retry" => RetryInv
<1>1. SuiteInit => Inv
  <2> SUFFICES ASSUME SuiteInit, on = "retry" PROVE RetryInv
    BY ZenonT(60)
  <2>1. retry!Init
    BY ZenonT(60) DEF SuiteInit
  <2>2. Sleeps \subseteq Nat /\ MaxDuration \in Nat /\ MaxRetries \in Nat
        /\ MaxAttemptTime \in Nat \ {0}
    BY LinkAssumption, ZenonT(60) DEF retry!RetryAssumption
  <2>3. max_sleep \in Nat /\ initial_sleep \in Nat
    BY <2>1, <2>2, ZenonT(60) DEF retry!Init
  <2> QED
    BY <2>1, <2>2, <2>3 DEF retry!Init, RetryInv, retry!SleepCapped,
      retry!LongestSleep, retry!Larger
<1>2. Inv /\ [SuiteNext]_all => Inv'
  <2>1. on = "retry" /\ [SuiteNext]_all => [retry!Next]_retryVars
    BY ZenonT(60) DEF SuiteNext, all
  <2>2. [SuiteNext]_all => on' = on
    BY ZenonT(60) DEF SuiteNext, all
  <2> QED
    BY <2>1, <2>2, RetryStep, ZenonT(60)
<1>3. Inv => RetryBounded
  BY ZenonT(60) DEF RetryBounded, RetryInv, retry!BudgetKept
<1> QED
  BY <1>1, <1>2, <1>3, PTL DEF SuiteSpec

----------------------------------------------------------------------------
(* Session: ids are drawn once; the one of a handshake is registered with its *)
(* SUCCESS and not before, and none comes back after a restart.               *)
IdsDrawnOnce ==
    /\ current <= last_id /\ shake.id <= last_id
    /\ \A u \in Users : clone[u] <= last_id
    /\ \A id \in registered \cup revoked : id <= last_id
    /\ registered \cap revoked = {}
    /\ shake.at # "idle" => shake.id # 0
    /\ shake.at = "idle" => shake.message = "none"
    /\ IF shake.message = "SUCCESS" THEN shake.id \in registered \cup revoked
       ELSE shake.id \notin registered \cup revoked

SessionInv == session!TypeOK /\ IdsDrawnOnce /\ session!SessionHeld

(* The users that wait are served or refused: their types. *)
LEMMA SessionTypes ==
  ASSUME session!TypeOK
  PROVE  /\ \A id \in 0 .. MaxIds : session!Serve(id) =>
              /\ auth_type' = auth_type /\ shake' \in session!Shakes /\ current' = id
              /\ clone' \in [Users -> 0 .. MaxIds]
              /\ use' \in [Users -> {"idle", "connect", "call"}]
              /\ DOMAIN outcome' = Users
         /\ \A error : session!Refuse(error) =>
              /\ auth_type' = auth_type /\ shake' \in session!Shakes
              /\ current' = current /\ clone' = clone
              /\ use' \in [Users -> {"idle", "connect", "call"}]
              /\ DOMAIN outcome' = Users
<1>1. session!NoShake \in session!Shakes
  BY LinkAssumption DEF session!NoShake, session!Shakes, session!SessionAssumption
<1> QED
  BY <1>1, ZenonT(60) DEF session!TypeOK, session!Serve, session!Refuse

(* A step keeps the types. *)
LEMMA SessionTypeStep ==
  ASSUME SessionInv, [session!Next]_sessionVars
  PROVE  session!TypeOK'
<1>1. MaxIds \in Nat /\ MaxTroubles \in Nat
  BY LinkAssumption, ZenonT(60) DEF session!SessionAssumption
<1>2. session!TypeOK /\ IdsDrawnOnce
  BY ZenonT(60) DEF SessionInv
<1>3. session!Trouble \/ session!NoTrouble => troubles' \in 0 .. MaxTroubles
  BY <1>1, <1>2 DEF session!Trouble, session!NoTrouble, session!TypeOK
<1>4. last_id < MaxIds => last_id + 1 \in 0 .. MaxIds
  BY <1>1, <1>2 DEF session!TypeOK
<1>5. CASE session!connect
  <2>1. last_id + 1 \in 0 .. MaxIds /\ last_id' = last_id + 1
    BY <1>4, <1>5, ZenonT(60) DEF session!connect
  <2>2. CASE session!Refuse(session!TransportError)
    BY <1>2, <1>3, <1>5, <2>1, <2>2, SessionTypes, ZenonT(60)
    DEF session!TypeOK, session!connect, session!serverVars
  <2>3. CASE session!authenticate_nosasl
    BY <1>2, <1>3, <1>5, <2>1, <2>3, SessionTypes, ZenonT(60)
    DEF session!TypeOK, session!connect, session!authenticate_nosasl, session!serverVars
  <2>4. CASE session!authenticate_simple
    BY <1>2, <1>3, <1>5, <2>1, <2>4, ZenonT(60)
    DEF session!TypeOK, session!connect, session!authenticate_simple, session!Shakes,
        session!serverVars
  <2> QED
    BY <1>5, <2>2, <2>3, <2>4, ZenonT(60) DEF session!connect
<1>6. CASE session!ServerAnswers
  <2>1. shake.id \in session!Ids
    BY <1>1, <1>2, <1>6 DEF session!TypeOK, session!Shakes, session!Ids, IdsDrawnOnce,
      session!ServerAnswers
  <2> QED
    BY <1>2, <1>3, <1>6, <2>1, ZenonT(60)
    DEF session!TypeOK, session!ServerAnswers, session!Shakes
<1>7. CASE session!handle_message
  <2>1. shake.id \in 0 .. MaxIds
    BY <1>2, ZenonT(60) DEF session!TypeOK, session!Shakes
  <2>2. CASE session!Serve(shake.id)
    BY <1>2, <1>3, <1>7, <2>1, <2>2, SessionTypes, ZenonT(60)
    DEF session!TypeOK, session!handle_message, session!serverVars
  <2>3. CASE shake' = [shake EXCEPT !.at = "response", !.message = "none"]
             /\ UNCHANGED <<auth_type, current, clone, use, outcome>>
    BY <1>2, <1>3, <1>7, <2>3, ZenonT(60)
    DEF session!TypeOK, session!handle_message, session!serverVars, session!Shakes
  <2> QED
    BY <1>7, <2>2, <2>3, ZenonT(60) DEF session!handle_message
<1>8. CASE session!handshake_fails \/ session!auth_timeout
  BY <1>2, <1>3, <1>8, SessionTypes, ZenonT(60)
  DEF session!TypeOK, session!handshake_fails, session!auth_timeout, session!serverVars
<1>9. ASSUME NEW u \in Users, session!Acquire(u) PROVE session!TypeOK'
  BY <1>2, <1>3, <1>9, ZenonT(60) DEF session!TypeOK, session!Acquire, session!serverVars
<1>10. ASSUME NEW u \in Users, session!Rpc(u) PROVE session!TypeOK'
  <2>1. 0 \in 0 .. MaxIds
    BY <1>1
  <2>2. current' \in {0, current} /\ (session!Trouble \/ session!NoTrouble)
        /\ \E c \in {0, current}, s \in {"call", "connect", "idle"} : \E e :
             /\ clone' = [clone EXCEPT ![u] = c]
             /\ use' = [use EXCEPT ![u] = s]
             /\ outcome' = [outcome EXCEPT ![u] = e]
    BY <1>10, ZenonT(60) DEF session!Rpc
  <2> QED
    BY <1>2, <1>3, <1>10, <2>1, <2>2 DEF session!TypeOK, session!Rpc, session!serverVars
<1>11. CASE session!Unregister \/ session!Restart
  BY <1>2, <1>3, <1>11, ZenonT(60) DEF session!TypeOK, session!Unregister, session!Restart
<1>12. CASE session!Exhausted \/ UNCHANGED sessionVars
  BY <1>2, <1>12, ZenonT(60) DEF session!TypeOK, session!Exhausted, session!vars, sessionVars
<1> QED
  BY <1>5, <1>6, <1>7, <1>8, <1>9, <1>10, <1>11, <1>12, ZenonT(60)
  DEF session!Next, session!ClientStep, session!AnswerOrTimeout

(* A step draws an id at most once, and lets go of no id that is in use. *)
LEMMA SessionStep ==
  ASSUME SessionInv, [session!Next]_sessionVars
  PROVE  SessionInv'
<1> DEFINE Held == auth_type = "SIMPLE" =>
             /\ current # 0 => current \in registered \cup revoked
             /\ \A u \in Users : clone[u] # 0 => clone[u] \in registered \cup revoked
<1>1. /\ MaxIds \in Nat /\ last_id \in Nat /\ current \in Nat /\ clone \in [Users -> Nat]
      /\ shake.id \in Nat /\ registered \subseteq Nat /\ revoked \subseteq Nat
      /\ shake \in session!Shakes /\ 0 \notin registered \cup revoked
      /\ auth_type \in {"NOSASL", "SIMPLE"} /\ DOMAIN outcome = Users
      /\ use \in [Users -> {"idle", "connect", "call"}]
  BY LinkAssumption DEF SessionInv, session!TypeOK, session!Shakes, session!Ids,
    session!SessionAssumption
<1>2. session!TypeOK => (session!SessionHeld <=> Held)
  BY LinkAssumption DEF session!SessionHeld, session!TypeOK, session!Ids,
    session!SessionAssumption
<1>3. session!TypeOK'
  BY SessionTypeStep, ZenonT(60)
<1>4. session!TypeOK' => (session!SessionHeld' <=> Held')
  BY LinkAssumption DEF session!SessionHeld, session!TypeOK, session!Ids,
    session!SessionAssumption
<1> SUFFICES (IdsDrawnOnce /\ Held)'
  BY <1>3, <1>4, ZenonT(60) DEF SessionInv
<1>5. IdsDrawnOnce /\ Held
  BY <1>2, ZenonT(60) DEF SessionInv
<1> HIDE DEF Held
<1> USE <1>1, <1>5 DEF IdsDrawnOnce
<1>6. CASE session!connect
  <2>1. CASE session!Refuse(session!TransportError)
    BY <1>6, <2>1 DEF session!connect, session!Refuse, session!NoShake,
      session!serverVars, Held
  <2>2. CASE session!authenticate_nosasl
    BY <1>6, <2>2 DEF session!connect, session!authenticate_nosasl, session!Serve,
      session!NoShake, session!serverVars, Held
  <2>3. CASE session!authenticate_simple
    BY <1>6, <2>3 DEF session!connect, session!authenticate_simple,
      session!serverVars, Held
  <2> QED
    BY <1>6, <2>1, <2>2, <2>3, ZenonT(60) DEF session!connect
<1>7. CASE session!ServerAnswers
  BY <1>7 DEF session!ServerAnswers, session!Shakes, Held
<1>8. CASE session!handle_message
  <2>1. UNCHANGED <<last_id, registered, revoked>>
    BY <1>8, ZenonT(60) DEF session!handle_message, session!serverVars
  <2>2. CASE shake.message = "SUCCESS" /\ session!Serve(shake.id)
    BY <2>1, <2>2 DEF session!Serve, session!NoShake, Held
  <2>3. CASE /\ shake.message = "CHALLENGE"
             /\ shake' = [shake EXCEPT !.at = "response", !.message = "none"]
             /\ UNCHANGED <<auth_type, current, clone, use, outcome>>
    <3>1. shake'.id = shake.id /\ shake'.at = "response" /\ shake'.message = "none"
      BY <2>3, ZenonT(60) DEF session!Shakes
    <3> QED
      BY <2>1, <2>3, <3>1, ZenonT(60) DEF Held
  <2> QED
    BY <1>8, <2>2, <2>3, ZenonT(60) DEF session!handle_message
<1>9. CASE session!handshake_fails \/ session!auth_timeout
  <2>1. /\ UNCHANGED <<last_id, registered, revoked, auth_type, current, clone>>
        /\ shake' = session!NoShake
    BY <1>9, ZenonT(60) DEF session!handshake_fails, session!auth_timeout, session!Refuse,
      session!serverVars
  <2> QED
    BY <2>1 DEF session!NoShake, Held
<1>10. ASSUME NEW u \in Users, session!Acquire(u) PROVE (IdsDrawnOnce /\ Held)'
  BY <1>10, ZenonT(60) DEF session!Acquire, session!serverVars, Held
<1>11. ASSUME NEW u \in Users, session!Rpc(u) PROVE (IdsDrawnOnce /\ Held)'
  <2>1. current' \in {0, current}
        /\ \E c \in {0, current} : clone' = [clone EXCEPT ![u] = c]
    BY <1>11, ZenonT(60) DEF session!Rpc
  <2> QED
    BY <1>11, <2>1 DEF session!Rpc, session!serverVars, Held
<1>12. CASE session!Unregister
  BY <1>12, ZenonT(60) DEF session!Unregister, session!guarded, Held
<1>13. CASE session!Restart
  BY <1>13, ZenonT(60) DEF session!Restart, Held
<1>14. CASE session!Exhausted \/ UNCHANGED sessionVars
  BY <1>14, ZenonT(60) DEF session!Exhausted, session!vars, sessionVars, Held
<1> QED
  BY <1>6, <1>7, <1>8, <1>9, <1>10, <1>11, <1>12, <1>13, <1>14, ZenonT(60)
  DEF session!Next, session!ClientStep, session!AnswerOrTimeout

(* An RPC on a connection whose id a restart revoked is answered              *)
(* UNAUTHENTICATED, which asks for another handshake.                         *)
LEMMA RefusedStep ==
  ASSUME SessionInv, session!Next
  PROVE  session!RefusedRetries
<1> SUFFICES ASSUME NEW u \in Users, use[u] = "call", clone[u] \in revoked,
                    use'[u] # "call", scheme = "SIMPLE"
             PROVE  /\ session!is_authentication_failed(outcome'[u])
                    /\ session!is_retriable(outcome'[u])
                    /\ ~session!is_unavailable(outcome'[u])
  BY ZenonT(60) DEF session!RefusedRetries
<1>1. clone[u] \notin registered
  BY ZenonT(60) DEF SessionInv, IdsDrawnOnce
<1>2. use \in [Users -> {"idle", "connect", "call"}] /\ DOMAIN outcome = Users
  BY ZenonT(60) DEF SessionInv, session!TypeOK
<1>3. session!Rpc(u)
  <2>1. CASE session!ClientStep \/ session!AnswerOrTimeout
    BY <1>2, <2>1, ZenonT(60) DEF session!ClientStep, session!AnswerOrTimeout, session!connect,
      session!authenticate_nosasl, session!authenticate_simple, session!Serve,
      session!Refuse, session!Waiting, session!handle_message, session!handshake_fails,
      session!auth_timeout, session!ServerAnswers
  <2>2. CASE session!Unregister \/ session!Restart \/ session!Exhausted
    BY <1>2, <2>2, ZenonT(60) DEF session!Unregister, session!Restart, session!Exhausted,
       session!vars
  <2>3. ASSUME NEW v \in Users, session!Acquire(v) \/ session!Rpc(v) PROVE v = u
    BY <1>2, <2>3, ZenonT(60) DEF session!Acquire, session!Rpc
  <2>4. ~session!Acquire(u)
    BY ZenonT(60) DEF session!Acquire
  <2> QED
    BY <2>1, <2>2, <2>3, <2>4, ZenonT(60) DEF session!Next
<1>4. outcome'[u] = session!from_status("Unauthenticated")
  BY <1>1, <1>2, <1>3, ZenonT(60) DEF session!Rpc
<1>5. outcome'[u] = [kind |-> "AuthenticationFailed", code |-> "none"]
  BY <1>4, ZenonT(60) DEF session!from_status, session!ErrorOf, session!NoCode
<1> QED
  BY <1>5 DEF session!is_authentication_failed, session!is_retriable,
    session!is_unavailable

(* A connection in use keeps an id that the server takes, and an RPC refused  *)
(* after a restart asks for another handshake without marking the worker      *)
(* failed, for any number of users, handshakes and faults.                    *)
THEOREM SessionIsHeld == SuiteSpec => SessionHeld
<1> DEFINE Inv == on = "session" => SessionInv
<1>1. SuiteInit => Inv
  <2> SUFFICES ASSUME SuiteInit, on = "session" PROVE SessionInv
    BY ZenonT(60)
  <2>1. session!Init
    BY ZenonT(60) DEF SuiteInit
  <2>2. MaxIds \in Nat /\ MaxTroubles \in Nat
    BY LinkAssumption, ZenonT(60) DEF session!SessionAssumption
  <2> QED
    BY <2>1, <2>2 DEF session!Init, SessionInv, session!TypeOK, session!Shakes,
      session!NoShake, IdsDrawnOnce, session!SessionHeld, session!Ids
<1>2. on = "session" /\ [SuiteNext]_all => [session!Next]_sessionVars
  BY ZenonT(60) DEF SuiteNext, all
<1>3. Inv /\ [SuiteNext]_all => Inv'
  <2>1. [SuiteNext]_all => on' = on
    BY ZenonT(60) DEF SuiteNext, all
  <2> QED
    BY <1>2, <2>1, SessionStep, ZenonT(60)
<1>4. Inv => (on = "session" => session!TypeOK /\ session!SessionHeld)
  BY ZenonT(60) DEF SessionInv
<1>5. Inv /\ [SuiteNext]_all => [on = "session" => session!RefusedRetries]_sessionVars
  BY <1>2, RefusedStep, ZenonT(60)
<1> QED
  BY <1>1, <1>3, <1>4, <1>5, PTL DEF SuiteSpec, SessionHeld

----------------------------------------------------------------------------
(* BlockStream: the chunks that were written are at the worker or, in order,  *)
(* in the channel.                                                            *)
ChunksConserved ==
    /\ worker.got <= written
    /\ \A i \in 1 .. Len(requests) :
         requests[i] # 0 => worker.got < requests[i] /\ requests[i] <= written
    /\ \A i, j \in 1 .. Len(requests) :
         i < j /\ requests[i] # 0 /\ requests[j] # 0 => requests[i] < requests[j]
    /\ \A k \in worker.got + 1 .. written : \E i \in 1 .. Len(requests) : requests[i] = k

(* BlockStream: where the caller is and what it still has to send. *)
CallerKnown ==
    /\ sender <=> caller \in {"idle", "send", "ack"}
    /\ sending # "nothing" <=> caller = "send"
    /\ written + (IF sending = "chunk" THEN 1 ELSE 0) <= used.writes

(* BlockStream: how the task ended is known to whoever closes the stream. *)
EndReported ==
    /\ worker.out # <<>> => worker.headers
    /\ worker.end = "committed" => requests = <<>> /\ ~sender
    /\ task = "aborted" => caller = "cancelled"
    /\ task = "finished" =>
         \/ worker.end = "committed" \/ failed
         \/ \E i \in 1 .. Len(responses) : responses[i] = -1
         \/ caller \in {"joinErr", "closeErr", "cancelled"}
    /\ (\E i \in 1 .. Len(responses) : responses[i] = -1) => task \in {"finished", "aborted"}
    /\ caller \in {"joinOk", "closed"} =>
         task \in {"finished", "aborted"} /\ (failed \/ worker.end = "committed")

(* BlockStream: the places a flush that has been sent can be at. *)
FlushQueued == task \notin {"finished", "aborted"}
               /\ \E i \in 1 .. Len(requests) : requests[i] = 0
FlushAnswered == task \notin {"finished", "aborted"} /\ worker.out # <<>>
AckForwarded == task = "send" /\ forward # -1
AckDelivered == \E i \in 1 .. Len(responses) : responses[i] # -1

(* BlockStream: while no flush has been given up, an acknowledgement on its   *)
(* way is the one the caller waits for.                                       *)
AcksMatched ==
    used.givenUp = 0 =>
      /\ flushed <= worker.got
      /\ sender /\ caller # "ack" =>
           ~FlushQueued /\ ~FlushAnswered /\ ~AckForwarded /\ ~AckDelivered
      /\ caller = "ack" =>
           /\ FlushQueued =>
                /\ ~FlushAnswered /\ ~AckForwarded /\ ~AckDelivered
                /\ \A i \in 1 .. Len(requests) : requests[i] = 0 => i = Len(requests)
           /\ FlushAnswered => ~AckForwarded /\ ~AckDelivered /\ Len(worker.out) = 1
           /\ AckForwarded => ~AckDelivered
           /\ FlushAnswered \/ AckForwarded \/ AckDelivered => worker.got = written
           /\ \A i \in 1 .. Len(responses) : responses[i] # -1 => i = 1

StreamInv ==
    /\ stream!TypeOK
    /\ ChunksConserved
    /\ CallerKnown
    /\ EndReported
    /\ AcksMatched

(* What Append and Tail do to the elements of a sequence. *)
LEMMA AppendTail ==
  ASSUME NEW S, NEW s \in Seq(S)
  PROVE  /\ Len(s) \in Nat
         /\ \A e \in S :
              /\ Append(s, e) \in Seq(S) /\ Len(Append(s, e)) = Len(s) + 1
              /\ Append(s, e)[Len(s) + 1] = e
              /\ \A i \in 1 .. Len(s) : Append(s, e)[i] = s[i]
         /\ s # <<>> =>
              /\ Len(s) >= 1 /\ Head(s) = s[1] /\ Head(s) \in S
              /\ Tail(s) \in Seq(S) /\ Len(Tail(s)) = Len(s) - 1
              /\ \A i \in 1 .. Len(s) - 1 : Tail(s)[i] = s[i + 1]
  OBVIOUS

(* The fields of the records of a stream, before and after an update. *)
LEMMA UsedFields ==
  ASSUME NEW A, NEW B, NEW u \in [writes : A, givenUp : B]
  PROVE  /\ u.writes \in A /\ u.givenUp \in B
         /\ \A n \in A : /\ [u EXCEPT !.writes = n] \in [writes : A, givenUp : B]
                         /\ [u EXCEPT !.writes = n].writes = n
                         /\ [u EXCEPT !.writes = n].givenUp = u.givenUp
         /\ \A n \in B : /\ [u EXCEPT !.givenUp = n] \in [writes : A, givenUp : B]
                         /\ [u EXCEPT !.givenUp = n].givenUp = n
                         /\ [u EXCEPT !.givenUp = n].writes = u.writes
  BY ZenonT(60)

\* The fields of the record of a worker.
LEMMA WorkerFields ==
  ASSUME NEW A, NEW B, NEW C, NEW D,
         NEW w \in [got : A, headers : B, out : C, end : D],
         NEW n \in A, NEW h \in B, NEW o \in C, NEW e \in D
  PROVE  /\ w.got \in A /\ w.headers \in B /\ w.out \in C /\ w.end \in D
         /\ [got |-> n, headers |-> h, out |-> o, end |-> e]
              \in [got : A, headers : B, out : C, end : D]
         /\ w = [got |-> w.got, headers |-> w.headers, out |-> w.out, end |-> w.end]
  BY ZenonT(60)

\* The bounds of BlockStream, under the assumption of the suite.
LEMMA StreamBounds ==
    /\ RequestCap \in Nat \ {0} /\ ResponseCap \in Nat \ {0}
    /\ MaxWrites \in Nat /\ MaxGivenUp \in Nat
  BY LinkAssumption, ZenonT(60) DEF stream!StreamAssumption

Workers == [got : 0 .. MaxWrites, headers : BOOLEAN, out : Seq(Nat),
            end : {"open", "committed", "error", "silent"}]

(* The worker after each step that changes it. *)
LEMMA WorkerSteps ==
  ASSUME stream!TypeOK, ChunksConserved
  PROVE  /\ stream!Message =>
              \/ worker' = worker
              \/ /\ worker.out # <<>> /\ Tail(worker.out) \in Seq(Nat)
                 /\ worker' = [got |-> worker.got, headers |-> worker.headers,
                               out |-> Tail(worker.out), end |-> worker.end]
                 /\ worker' \in Workers
         /\ stream!Receive /\ requests[1] # 0 =>
              /\ worker' = [got |-> worker.got + 1, headers |-> worker.headers,
                            out |-> worker.out, end |-> worker.end]
              /\ worker' \in Workers
         /\ stream!Receive /\ requests[1] = 0 =>
              /\ worker' = [got |-> worker.got, headers |-> TRUE,
                            out |-> Append(worker.out, worker.got), end |-> worker.end]
              /\ worker' \in Workers
         /\ stream!Commit =>
              /\ worker' = [got |-> worker.got, headers |-> TRUE,
                            out |-> Append(worker.out, worker.got), end |-> "committed"]
              /\ worker' \in Workers
         /\ stream!WorkerFails =>
              /\ \E h \in {TRUE, worker.headers}, e \in {"error", "silent"} :
                   worker' = [got |-> worker.got, headers |-> h, out |-> worker.out,
                              end |-> e]
              /\ worker' \in Workers
<1>1. /\ worker \in Workers /\ requests \in Seq(Nat) /\ written \in 0 .. MaxWrites
      /\ worker.got \in 0 .. MaxWrites /\ worker.headers \in BOOLEAN
      /\ worker.out \in Seq(Nat) /\ worker.end \in {"open", "committed", "error", "silent"}
  BY ZenonT(60) DEF stream!TypeOK, Workers
<1>2. worker = [got |-> worker.got, headers |-> worker.headers, out |-> worker.out,
                end |-> worker.end]
  BY <1>1, WorkerFields, ZenonT(60) DEF Workers
<1>3. ASSUME stream!Message, worker' # worker
      PROVE  /\ worker.out # <<>> /\ Tail(worker.out) \in Seq(Nat)
             /\ worker' = [got |-> worker.got, headers |-> worker.headers,
                           out |-> Tail(worker.out), end |-> worker.end]
             /\ worker' \in Workers
  <2>1. worker.out # <<>> /\ worker' = [worker EXCEPT !.out = Tail(@)]
    BY <1>3, ZenonT(60) DEF stream!Message
  <2>2. Tail(worker.out) \in Seq(Nat)
    BY <1>1, <2>1, AppendTail, ZenonT(60)
  <2>3. worker' = [got |-> worker.got, headers |-> worker.headers,
                   out |-> Tail(worker.out), end |-> worker.end]
    BY <1>1, <1>2, <2>1, ZenonT(60)
  <2> QED
    BY <1>1, <2>1, <2>2, <2>3, ZenonT(60) DEF Workers
<1>4. ASSUME stream!Receive, requests[1] # 0
      PROVE  /\ worker' = [got |-> worker.got + 1, headers |-> worker.headers,
                           out |-> worker.out, end |-> worker.end]
             /\ worker' \in Workers
  <2>1. requests # <<>> /\ Head(requests) = requests[1] /\ 1 \in 1 .. Len(requests)
    BY <1>1, <1>4, AppendTail DEF stream!Receive
  <2>2. worker' = [worker EXCEPT !.got = @ + 1]
    BY <1>4, <2>1, ZenonT(60) DEF stream!Receive
  <2>3. worker.got < requests[1] /\ requests[1] <= written /\ requests[1] \in Nat
    BY <1>1, <1>4, <2>1 DEF ChunksConserved
  <2>4. worker.got + 1 \in 0 .. MaxWrites
    BY <1>1, <2>3, StreamBounds
  <2>5. worker' = [got |-> worker.got + 1, headers |-> worker.headers,
                   out |-> worker.out, end |-> worker.end]
    BY <1>1, <1>2, <2>2, ZenonT(60)
  <2> QED
    BY <1>1, <2>4, <2>5, ZenonT(60) DEF Workers
<1>5. Append(worker.out, worker.got) \in Seq(Nat)
  BY <1>1, AppendTail, StreamBounds
<1>6. ASSUME stream!Receive, requests[1] = 0
      PROVE  /\ worker' = [got |-> worker.got, headers |-> TRUE,
                           out |-> Append(worker.out, worker.got), end |-> worker.end]
             /\ worker' \in Workers
  <2>1. requests # <<>> /\ Head(requests) = requests[1]
    BY <1>1, <1>6, AppendTail, ZenonT(60) DEF stream!Receive
  <2>2. worker' = [worker EXCEPT !.headers = TRUE, !.out = Append(@, worker.got)]
    BY <1>6, <2>1, ZenonT(60) DEF stream!Receive
  <2>3. worker' = [got |-> worker.got, headers |-> TRUE,
                   out |-> Append(worker.out, worker.got), end |-> worker.end]
    BY <1>1, <1>2, <2>2, ZenonT(60)
  <2> QED
    BY <1>1, <1>5, <2>3, ZenonT(60) DEF Workers
<1>7. ASSUME stream!Commit
      PROVE  /\ worker' = [got |-> worker.got, headers |-> TRUE,
                           out |-> Append(worker.out, worker.got), end |-> "committed"]
             /\ worker' \in Workers
  <2>1. worker' = [got |-> worker.got, headers |-> TRUE,
                   out |-> Append(worker.out, worker.got), end |-> "committed"]
    BY <1>1, <1>2, <1>7, ZenonT(60) DEF stream!Commit
  <2> QED
    BY <1>1, <1>5, <2>1, ZenonT(60) DEF Workers
<1>8. ASSUME stream!WorkerFails
      PROVE  /\ \E h \in {TRUE, worker.headers}, e \in {"error", "silent"} :
                  worker' = [got |-> worker.got, headers |-> h, out |-> worker.out,
                             end |-> e]
             /\ worker' \in Workers
  <2>1. \E h \in {TRUE, worker.headers}, e \in {"error", "silent"} :
          worker' = [got |-> worker.got, headers |-> h, out |-> worker.out, end |-> e]
    BY <1>1, <1>2, <1>8, ZenonT(60) DEF stream!WorkerFails
  <2>2. PICK h \in {TRUE, worker.headers}, e \in {"error", "silent"} :
          worker' = [got |-> worker.got, headers |-> h, out |-> worker.out, end |-> e]
    BY <2>1, ZenonT(60)
  <2>3. h \in BOOLEAN /\ e \in {"open", "committed", "error", "silent"}
    BY <1>1, ZenonT(60)
  <2> QED
    BY <1>1, <2>1, <2>2, <2>3, ZenonT(60) DEF Workers
<1> QED
  BY <1>3, <1>4, <1>6, <1>7, <1>8, ZenonT(60)

(* The types hold after every step of a stream. *)
LEMMA StreamTypeStep ==
  ASSUME stream!TypeOK, ChunksConserved, CallerKnown, [stream!Next]_streamVars
  PROVE  stream!TypeOK'
<1> USE DEF stream!Chunk, stream!Flush, stream!Nothing, stream!Err, stream!callerVars
<1>1. /\ requests \in Seq(Nat) /\ Len(requests) <= RequestCap /\ Len(requests) \in Nat
      /\ responses \in Seq(Int) /\ Len(responses) <= ResponseCap /\ Len(responses) \in Nat
      /\ written \in 0 .. MaxWrites /\ flushed \in 0 .. MaxWrites
      /\ used \in [writes : 0 .. MaxWrites, givenUp : 0 .. MaxGivenUp]
      /\ used.writes \in 0 .. MaxWrites /\ used.givenUp \in 0 .. MaxGivenUp
      /\ worker \in Workers /\ worker.out \in Seq(Nat)
      /\ failed \in BOOLEAN /\ forward \in Int
      /\ sending \in {"chunk", "flush", "nothing"}
      /\ task \in {"call", "message", "send", "finished", "aborted"}
  BY UsedFields, AppendTail, ZenonT(60) DEF stream!TypeOK, Workers
<1>2. ASSUME NEW r \in {"chunk", "flush"}, stream!Begin(r) PROVE stream!TypeOK'
  <2>1. used.writes + 1 \in 0 .. MaxWrites
    BY <1>1, <1>2, StreamBounds DEF stream!Begin
  <2>2. used' \in [writes : 0 .. MaxWrites, givenUp : 0 .. MaxGivenUp]
    BY <1>1, <1>2, <2>1, UsedFields, ZenonT(60) DEF stream!Begin
  <2>3. caller' = "send" /\ sending' = r
    BY <1>2, ZenonT(60) DEF stream!Begin
  <2> QED
    BY <1>2, <2>2, <2>3, ZenonT(60) DEF stream!Begin, stream!TypeOK
<1>3. ASSUME stream!Sent PROVE stream!TypeOK'
  <2>1. CASE UNCHANGED <<requests, written>> /\ caller' = "idle" /\ failed' = TRUE
    BY <1>3, <2>1, ZenonT(60) DEF stream!Sent, stream!TypeOK
  <2>2. CASE /\ Len(requests) < RequestCap
             /\ requests' = Append(requests, stream!Request)
             /\ caller' = IF sending = "flush" THEN "ack" ELSE "idle"
             /\ written' = written + IF sending = "chunk" THEN 1 ELSE 0
             /\ UNCHANGED failed
    <3>1. stream!Request \in Nat
      BY <1>1, StreamBounds DEF stream!Request
    <3>2. requests' \in Seq(Nat) /\ Len(requests') = Len(requests) + 1
      BY <1>1, <2>2, <3>1, AppendTail
    <3>3. Len(requests') <= RequestCap
      BY <1>1, <2>2, <3>2, StreamBounds
    <3>4. written' \in 0 .. MaxWrites
      BY <1>1, <2>2, StreamBounds DEF CallerKnown
    <3>5. caller' \in {"idle", "ack"}
      BY <2>2, ZenonT(60)
    <3> QED
      BY <1>3, <2>2, <3>2, <3>3, <3>4, <3>5, ZenonT(60) DEF stream!Sent, stream!TypeOK
  <2> QED
    BY <1>3, <2>1, <2>2, ZenonT(60) DEF stream!Sent
<1>4. ASSUME responses # <<>>, responses' = Tail(responses)
      PROVE  responses' \in Seq(Int) /\ Len(responses') <= ResponseCap
  <2>1. responses' \in Seq(Int) /\ Len(responses') = Len(responses) - 1
    BY <1>1, <1>4, AppendTail, ZenonT(60)
  <2> QED
    BY <1>1, <2>1, StreamBounds
<1>5. ASSUME stream!recv_response PROVE stream!TypeOK'
  <2>1. responses' \in Seq(Int) /\ Len(responses') <= ResponseCap
    BY <1>1, <1>4, <1>5, ZenonT(60) DEF stream!recv_response
  <2>2. failed' \in BOOLEAN /\ flushed' \in 0 .. MaxWrites /\ caller' = "idle"
    BY <1>1, <1>5, ZenonT(60) DEF stream!recv_response
  <2> QED
    BY <1>5, <2>1, <2>2, ZenonT(60) DEF stream!recv_response, stream!TypeOK
<1>6. ASSUME stream!GiveUp PROVE stream!TypeOK'
  <2>1. used.givenUp + 1 \in 0 .. MaxGivenUp
    BY <1>1, <1>6, StreamBounds DEF stream!GiveUp
  <2>2. used' \in [writes : 0 .. MaxWrites, givenUp : 0 .. MaxGivenUp]
    BY <1>1, <1>6, <2>1, UsedFields, ZenonT(60) DEF stream!GiveUp
  <2> QED
    BY <1>6, <2>2, ZenonT(60) DEF stream!GiveUp, stream!TypeOK
<1>7. ASSUME stream!close PROVE stream!TypeOK'
  BY <1>7, ZenonT(60) DEF stream!close, stream!TypeOK
<1>8. ASSUME stream!Drain PROVE stream!TypeOK'
  <2>1. responses' \in Seq(Int) /\ Len(responses') <= ResponseCap
    BY <1>1, <1>4, <1>8, ZenonT(60) DEF stream!Drain
  <2>2. caller' \in {"joinErr", "drain", "joinOk"}
    BY <1>8, ZenonT(60) DEF stream!Drain
  <2> QED
    BY <1>8, <2>1, <2>2 DEF stream!Drain, stream!TypeOK
<1>9. ASSUME stream!Joined PROVE stream!TypeOK'
  BY <1>9, ZenonT(60) DEF stream!Joined, stream!TypeOK
<1>10. ASSUME stream!cancel PROVE stream!TypeOK'
  <2>1. responses' \in Seq(Int) /\ Len(responses') = 0
    BY <1>10 DEF stream!cancel
  <2>2. Len(responses') <= ResponseCap
    BY <2>1, StreamBounds
  <2>3. /\ task' \in {"call", "message", "send", "finished", "aborted"}
        /\ sender' = FALSE /\ caller' = "cancelled" /\ sending' = "nothing"
    BY <1>1, <1>10, ZenonT(60) DEF stream!cancel
  <2> QED
    BY <1>10, <2>1, <2>2, <2>3, ZenonT(60) DEF stream!cancel, stream!TypeOK
<1>11. ASSUME stream!Headers PROVE stream!TypeOK'
  BY <1>11 DEF stream!Headers, stream!TypeOK
<1>12. ASSUME stream!Message PROVE stream!TypeOK'
  <2>1. worker' \in Workers
    BY <1>1, <1>12, WorkerSteps, ZenonT(60)
  <2>2. forward' \in Int
    <3>1. worker.out # <<>> => Head(worker.out) \in Nat
      BY <1>1, AppendTail, ZenonT(60)
    <3> QED
      BY <1>12, <3>1 DEF stream!Message
  <2>3. task' \in {"send", "finished"}
    BY <1>12, ZenonT(60) DEF stream!Message
  <2> QED
    BY <1>12, <2>1, <2>2, <2>3, ZenonT(60) DEF stream!Message, stream!TypeOK, Workers
<1>13. ASSUME stream!ForwardResponse PROVE stream!TypeOK'
  <2>1. responses' \in Seq(Int) /\ Len(responses') = Len(responses) + 1
    BY <1>1, <1>13, AppendTail DEF stream!ForwardResponse
  <2>2. Len(responses') <= ResponseCap
    BY <1>1, <1>13, <2>1, StreamBounds DEF stream!ForwardResponse
  <2>3. task' \in {"message", "finished"}
    BY <1>13, ZenonT(60) DEF stream!ForwardResponse
  <2> QED
    BY <1>13, <2>1, <2>2, <2>3 DEF stream!ForwardResponse, stream!TypeOK
<1>14. ASSUME stream!Receive PROVE stream!TypeOK'
  <2>1. worker' \in Workers
    BY <1>14, WorkerSteps, ZenonT(60)
  <2>2. requests' \in Seq(Nat) /\ Len(requests') = Len(requests) - 1
    BY <1>1, <1>14, AppendTail, ZenonT(60) DEF stream!Receive
  <2>3. Len(requests') <= RequestCap
    BY <1>1, <2>2, StreamBounds
  <2> QED
    BY <1>14, <2>1, <2>2, <2>3, ZenonT(60) DEF stream!Receive, stream!TypeOK, Workers
<1>15. ASSUME stream!Commit PROVE stream!TypeOK'
  <2>1. worker' \in Workers
    BY <1>15, WorkerSteps, ZenonT(60)
  <2> QED
    BY <1>15, <2>1, ZenonT(60) DEF stream!Commit, stream!TypeOK, Workers
<1>16. ASSUME stream!WorkerFails PROVE stream!TypeOK'
  <2>1. worker' \in Workers
    BY <1>16, WorkerSteps, ZenonT(60)
  <2> QED
    BY <1>16, <2>1, ZenonT(60) DEF stream!WorkerFails, stream!TypeOK, Workers
<1>17. ASSUME UNCHANGED streamVars PROVE stream!TypeOK'
  BY <1>17 DEF streamVars, stream!TypeOK
<1>18. stream!Done => UNCHANGED streamVars
  BY ZenonT(60) DEF stream!Done, stream!vars, streamVars
<1> QED
  BY <1>2, <1>3, <1>5, <1>6, <1>7, <1>8, <1>9, <1>10, <1>11, <1>12, <1>13, <1>14,
     <1>15, <1>16, <1>17, <1>18, ZenonT(60)
  DEF stream!Next, stream!CallerStep, stream!TaskStep, stream!WorkerStep,
      stream!write_chunk, stream!flush

(* The steps that leave the records of the worker or the caller alone. *)
LEMMA StreamFrames ==
  ASSUME stream!TypeOK, ChunksConserved
  PROVE  /\ stream!Message \/ stream!Commit \/ stream!WorkerFails =>
              worker'.got = worker.got
         /\ stream!Message \/ (stream!Receive /\ requests[1] # 0) =>
              worker'.end = worker.end /\ worker'.headers = worker.headers
         /\ stream!WorkerFails =>
              /\ worker'.out = worker.out /\ worker'.end \in {"error", "silent"}
              /\ worker.headers => worker'.headers
         /\ stream!Receive =>
              /\ worker'.end = worker.end /\ (worker.headers => worker'.headers)
              /\ requests[1] # 0 => worker'.got = worker.got + 1 /\ worker'.out = worker.out
              /\ requests[1] = 0 => /\ worker'.got = worker.got /\ worker'.headers
                                    /\ worker'.out = Append(worker.out, worker.got)
         /\ stream!Commit => /\ worker'.end = "committed" /\ worker'.headers
                             /\ worker'.out = Append(worker.out, worker.got)
         /\ stream!Message => \/ worker' = worker
                              \/ worker.out # <<>> /\ worker'.out = Tail(worker.out)
<1>1. worker.got \in 0 .. MaxWrites /\ worker.headers \in BOOLEAN
  BY ZenonT(60) DEF stream!TypeOK
<1>2. ASSUME stream!Message
      PROVE  /\ worker'.got = worker.got /\ worker'.end = worker.end
             /\ worker'.headers = worker.headers
             /\ \/ worker' = worker
                \/ worker.out # <<>> /\ worker'.out = Tail(worker.out)
  <2>1. CASE worker' = worker
    BY <2>1, ZenonT(60)
  <2>2. CASE worker' # worker
    <3>1. /\ worker.out # <<>>
          /\ worker' = [got |-> worker.got, headers |-> worker.headers,
                        out |-> Tail(worker.out), end |-> worker.end]
      BY <1>2, <2>2, WorkerSteps, ZenonT(60)
    <3> QED
      BY <3>1, ZenonT(60)
  <2> QED
    BY <2>1, <2>2, ZenonT(60)
<1>3. stream!Receive /\ requests[1] # 0 =>
        /\ worker'.got = worker.got + 1 /\ worker'.end = worker.end
        /\ worker'.headers = worker.headers /\ worker'.out = worker.out
  BY WorkerSteps
<1>4. stream!Receive /\ requests[1] = 0 =>
        /\ worker'.got = worker.got /\ worker'.end = worker.end
        /\ worker'.headers /\ worker'.out = Append(worker.out, worker.got)
  BY WorkerSteps
<1>5. stream!Commit =>
        /\ worker'.got = worker.got /\ worker'.end = "committed"
        /\ worker'.headers /\ worker'.out = Append(worker.out, worker.got)
  BY WorkerSteps
<1>6. ASSUME stream!WorkerFails
      PROVE  /\ worker'.got = worker.got /\ worker'.out = worker.out
             /\ worker'.end \in {"error", "silent"} /\ (worker.headers => worker'.headers)
  <2>1. PICK h \in {TRUE, worker.headers}, e \in {"error", "silent"} :
          worker' = [got |-> worker.got, headers |-> h, out |-> worker.out, end |-> e]
    BY <1>6, WorkerSteps, ZenonT(60)
  <2>2. worker'.got = worker.got /\ worker'.out = worker.out /\ worker'.end = e
        /\ worker'.headers = h
    BY <2>1, ZenonT(60)
  <2> QED
    BY <2>2, ZenonT(60)
<1> QED
  BY <1>2, <1>3, <1>4, <1>5, <1>6, ZenonT(60)

\* Every step keeps what the caller knows of its calls.
LEMMA CallerStep ==
  ASSUME stream!TypeOK, CallerKnown, [stream!Next]_streamVars
  PROVE  CallerKnown'
<1> USE DEF stream!Chunk, stream!Flush, stream!Nothing, stream!Err
<1>1. /\ written \in 0 .. MaxWrites
      /\ used \in [writes : 0 .. MaxWrites, givenUp : 0 .. MaxGivenUp]
      /\ used.writes \in 0 .. MaxWrites /\ used.givenUp \in 0 .. MaxGivenUp
      /\ written \in Nat /\ used.writes \in Nat
  BY StreamBounds, UsedFields DEF stream!TypeOK
<1>2. ASSUME NEW r \in {"chunk", "flush"}, stream!Begin(r) PROVE CallerKnown'
  <2>1. used.writes + 1 \in 0 .. MaxWrites
    BY <1>1, <1>2, StreamBounds DEF stream!Begin
  <2>2. used'.writes = used.writes + 1
    BY <1>1, <1>2, <2>1, UsedFields, ZenonT(60) DEF stream!Begin
  <2>3. caller' = "send" /\ sending' = r /\ written' = written /\ sender' = sender
        /\ caller = "idle"
    BY <1>2, ZenonT(60) DEF stream!Begin
  <2> QED
    BY <1>1, <2>2, <2>3 DEF CallerKnown
<1>3. ASSUME stream!Sent PROVE CallerKnown'
  <2>1. /\ caller' \in {"idle", "ack"} /\ sending' = "nothing" /\ sender' = sender
        /\ used' = used /\ caller = "send"
    BY <1>3, ZenonT(60) DEF stream!Sent
  <2>2. written' <= written + IF sending = "chunk" THEN 1 ELSE 0
    BY <1>1, <1>3 DEF stream!Sent
  <2>3. written' \in Nat
    BY <1>1, <1>3 DEF stream!Sent
  <2> QED
    BY <1>1, <2>1, <2>2, <2>3 DEF CallerKnown
<1>4. ASSUME stream!GiveUp PROVE CallerKnown'
  <2>1. used.givenUp + 1 \in 0 .. MaxGivenUp
    BY <1>1, <1>4, StreamBounds DEF stream!GiveUp
  <2>2. used'.writes = used.writes
    BY <1>1, <1>4, <2>1, UsedFields, ZenonT(60) DEF stream!GiveUp
  <2>3. caller \in {"send", "ack"} /\ caller' = "idle" /\ sending' = "nothing"
        /\ written' = written /\ sender' = sender
    BY <1>4, ZenonT(60) DEF stream!GiveUp
  <2> QED
    BY <1>1, <2>2, <2>3 DEF CallerKnown
<1>5. ASSUME stream!cancel PROVE CallerKnown'
  BY <1>1, <1>5 DEF stream!cancel, CallerKnown
<1>6. ASSUME stream!recv_response PROVE CallerKnown'
  BY <1>1, <1>6, ZenonT(60) DEF stream!recv_response, CallerKnown
<1>7. ASSUME stream!close PROVE CallerKnown'
  BY <1>1, <1>7, ZenonT(60) DEF stream!close, CallerKnown
<1>8. ASSUME stream!Drain PROVE CallerKnown'
  <2>1. caller = "drain" /\ caller' \in {"joinErr", "drain", "joinOk"}
        /\ UNCHANGED <<sender, sending, written, used>>
    BY <1>8, ZenonT(60) DEF stream!Drain
  <2> QED
    BY <1>1, <2>1, ZenonT(60) DEF CallerKnown
<1>9. ASSUME stream!Joined PROVE CallerKnown'
  BY <1>1, <1>9, ZenonT(60) DEF stream!Joined, CallerKnown
<1>10. ASSUME stream!TaskStep \/ stream!WorkerStep \/ stream!WorkerFails PROVE CallerKnown'
  <2>1. UNCHANGED <<caller, sending, sender, written, used>>
    BY <1>10, ZenonT(60) DEF stream!TaskStep, stream!WorkerStep, stream!WorkerFails, stream!Headers,
         stream!Message, stream!ForwardResponse, stream!Receive, stream!Commit,
         stream!callerVars
  <2> QED
    BY <2>1, ZenonT(60) DEF CallerKnown
<1>11. ASSUME UNCHANGED streamVars PROVE CallerKnown'
  BY <1>11, ZenonT(60) DEF streamVars, CallerKnown
<1>12. stream!Done => UNCHANGED streamVars
  BY ZenonT(60) DEF stream!Done, stream!vars, streamVars
<1> QED
  BY <1>2, <1>3, <1>4, <1>5, <1>6, <1>7, <1>8, <1>9, <1>10, <1>11, <1>12, ZenonT(60)
  DEF stream!Next, stream!CallerStep, stream!write_chunk, stream!flush

(* The chunks between the worker's count and the caller's stay queued, in     *)
(* order.                                                                     *)
LEMMA ChunksStep ==
  ASSUME stream!TypeOK, ChunksConserved, [stream!Next]_streamVars
  PROVE  ChunksConserved'
<1> USE DEF stream!Chunk, stream!Flush, stream!Nothing, stream!Err
<1>1. /\ requests \in Seq(Nat) /\ Len(requests) \in Nat
      /\ written \in Nat /\ worker.got \in Nat
  BY StreamBounds, AppendTail DEF stream!TypeOK
<1>2. ASSUME UNCHANGED <<requests, written>>, worker'.got = worker.got
      PROVE  ChunksConserved'
  BY <1>2, ZenonT(60) DEF ChunksConserved
<1>3. ASSUME stream!Sent PROVE ChunksConserved'
  <2>1. worker' = worker
    BY <1>3, ZenonT(60) DEF stream!Sent
  <2>2. CASE UNCHANGED <<requests, written>>
    BY <1>2, <2>1, <2>2, ZenonT(60)
  <2>3. CASE /\ requests' = Append(requests, stream!Request)
             /\ written' = written + IF sending = "chunk" THEN 1 ELSE 0
    <3>1. stream!Request = IF sending = "chunk" THEN written + 1 ELSE 0
      BY ZenonT(60) DEF stream!Request
    <3>2. /\ Len(requests') = Len(requests) + 1
          /\ requests'[Len(requests) + 1] = stream!Request
          /\ \A i \in 1 .. Len(requests) : requests'[i] = requests[i]
      BY <1>1, <2>3, <3>1, AppendTail
    <3>3. \A i \in 1 .. Len(requests') : i \in 1 .. Len(requests) \/ i = Len(requests) + 1
      BY <1>1, <3>2
    <3>4. \A i \in 1 .. Len(requests) : i \in 1 .. Len(requests') /\ i < Len(requests) + 1
                                        /\ requests[i] \in Nat
      BY <1>1, <3>2
    <3>5. written' \in Nat /\ worker.got <= written' /\ worker.got <= written
      BY <1>1, <2>3 DEF ChunksConserved
    <3>6. \A i \in 1 .. Len(requests') :
            requests'[i] # 0 => worker.got < requests'[i] /\ requests'[i] <= written'
      BY <1>1, <2>3, <3>1, <3>2, <3>3, <3>4, <3>5 DEF ChunksConserved
    <3>7. \A i, j \in 1 .. Len(requests') :
            i < j /\ requests'[i] # 0 /\ requests'[j] # 0 => requests'[i] < requests'[j]
      <4> SUFFICES ASSUME NEW i \in 1 .. Len(requests'), NEW j \in 1 .. Len(requests'),
                          i < j, requests'[i] # 0, requests'[j] # 0
                   PROVE  requests'[i] < requests'[j]
        BY ZenonT(60)
      <4>1. i \in 1 .. Len(requests)
        BY <1>1, <3>2
      <4>2. CASE j \in 1 .. Len(requests)
        BY <3>2, <4>1, <4>2, ZenonT(60) DEF ChunksConserved
      <4>3. CASE j = Len(requests) + 1
        BY <1>1, <3>1, <3>2, <3>4, <4>1, <4>3 DEF ChunksConserved
      <4> QED
        BY <3>3, <4>2, <4>3, ZenonT(60)
    <3>8. \A k \in worker.got + 1 .. written' :
            \E i \in 1 .. Len(requests') : requests'[i] = k
      <4> SUFFICES ASSUME NEW k \in worker.got + 1 .. written'
                   PROVE  \E i \in 1 .. Len(requests') : requests'[i] = k
        BY ZenonT(60)
      <4>1. CASE k \in worker.got + 1 .. written
        <5>1. PICK i \in 1 .. Len(requests) : requests[i] = k
          BY <4>1, ZenonT(60) DEF ChunksConserved
        <5> QED
          BY <3>2, <3>4, <5>1, ZenonT(60)
      <4>2. CASE sending = "chunk" /\ k = written + 1
        <5>1. Len(requests) + 1 \in 1 .. Len(requests')
          BY <1>1, <3>2
        <5> QED
          BY <3>1, <3>2, <4>2, <5>1, ZenonT(60)
      <4> QED
        BY <1>1, <2>3, <4>1, <4>2
    <3> QED
      BY <2>1, <3>5, <3>6, <3>7, <3>8, ZenonT(60) DEF ChunksConserved
  <2> QED
    BY <1>3, <2>2, <2>3, ZenonT(60) DEF stream!Sent
<1>4. ASSUME stream!Receive PROVE ChunksConserved'
  <2>1. /\ requests # <<>> /\ Len(requests) >= 1 /\ 1 \in 1 .. Len(requests)
        /\ Len(requests') = Len(requests) - 1
        /\ \A i \in 1 .. Len(requests') : requests'[i] = requests[i + 1]
        /\ written' = written
    BY <1>1, <1>4, AppendTail DEF stream!Receive, stream!callerVars
  <2>2. \A i \in 1 .. Len(requests') : i + 1 \in 1 .. Len(requests) /\ requests[i + 1] \in Nat
                                       /\ 1 < i + 1 /\ i \in Nat
    BY <1>1, <2>1
  <2>3. \A j \in 1 .. Len(requests) : j # 1 => j - 1 \in 1 .. Len(requests') /\ j - 1 + 1 = j
    BY <1>1, <2>1
  <2>4. /\ worker'.got = IF requests[1] = 0 THEN worker.got ELSE worker.got + 1
        /\ requests[1] \in Nat
    BY <1>1, <1>4, <2>1, StreamFrames
  <2>5. requests[1] # 0 => requests[1] = worker.got + 1
    <3> SUFFICES ASSUME requests[1] # 0 PROVE requests[1] = worker.got + 1
      BY ZenonT(60)
    <3>1. worker.got < requests[1] /\ requests[1] <= written
      BY <2>1, ZenonT(60) DEF ChunksConserved
    <3>2. worker.got + 1 \in worker.got + 1 .. written
      BY <1>1, <2>4, <3>1
    <3>3. PICK i \in 1 .. Len(requests) : requests[i] = worker.got + 1
      BY <3>2, ZenonT(60) DEF ChunksConserved
    <3>4. CASE i = 1
      BY <3>3, <3>4, ZenonT(60)
    <3>5. CASE i # 1
      <4>1. 1 < i
        BY <1>1, <3>5
      <4>2. requests[1] < requests[i]
        BY <1>1, <2>1, <3>3, <4>1 DEF ChunksConserved
      <4> QED
        BY <1>1, <2>4, <3>1, <3>3, <4>2
    <3> QED
      BY <3>4, <3>5, ZenonT(60)
  <2>6. worker'.got \in Nat /\ worker'.got <= written
    BY <1>1, <2>1, <2>4 DEF ChunksConserved
  <2>7. \A i \in 1 .. Len(requests') :
          requests'[i] # 0 => worker'.got < requests'[i] /\ requests'[i] <= written
    BY <1>1, <2>1, <2>2, <2>4, <2>5, ZenonT(60) DEF ChunksConserved
  <2>8. \A i, j \in 1 .. Len(requests') :
          i < j /\ requests'[i] # 0 /\ requests'[j] # 0 => requests'[i] < requests'[j]
    <3> SUFFICES ASSUME NEW i \in 1 .. Len(requests'), NEW j \in 1 .. Len(requests'),
                        i < j, requests'[i] # 0, requests'[j] # 0
                 PROVE  requests'[i] < requests'[j]
      BY ZenonT(60)
    <3>1. i + 1 < j + 1
      BY <2>2
    <3> QED
      BY <2>1, <2>2, <3>1, ZenonT(60) DEF ChunksConserved
  <2>9. \A k \in worker'.got + 1 .. written : \E i \in 1 .. Len(requests') : requests'[i] = k
    <3> SUFFICES ASSUME NEW k \in worker'.got + 1 .. written
                 PROVE  \E i \in 1 .. Len(requests') : requests'[i] = k
      BY ZenonT(60)
    <3>1. k \in worker.got + 1 .. written /\ k # requests[1]
      BY <1>1, <2>4, <2>5, <2>6
    <3>2. PICK j \in 1 .. Len(requests) : requests[j] = k
      BY <3>1, ZenonT(60) DEF ChunksConserved
    <3>3. j # 1
      BY <3>1, <3>2, ZenonT(60)
    <3> QED
      BY <2>1, <2>3, <3>2, <3>3, ZenonT(60)
  <2> QED
    BY <2>1, <2>6, <2>7, <2>8, <2>9, ZenonT(60) DEF ChunksConserved
<1>5. ASSUME stream!Message \/ stream!Commit \/ stream!WorkerFails PROVE ChunksConserved'
  <2>1. worker'.got = worker.got
    BY <1>5, StreamFrames, ZenonT(60)
  <2> QED
    BY <1>2, <1>5, <2>1, ZenonT(60)
    DEF stream!Message, stream!Commit, stream!WorkerFails, stream!callerVars
<1>6. ASSUME \/ stream!write_chunk \/ stream!flush \/ stream!GiveUp \/ stream!close
             \/ stream!cancel \/ stream!recv_response \/ stream!Drain \/ stream!Joined
             \/ stream!Headers \/ stream!ForwardResponse \/ UNCHANGED streamVars
      PROVE  ChunksConserved'
  <2>1. UNCHANGED <<requests, written, worker>>
    BY <1>6, ZenonT(60) DEF stream!write_chunk, stream!flush, stream!Begin, stream!GiveUp,
       stream!close,
         stream!cancel, stream!recv_response, stream!Drain, stream!Joined, stream!Headers,
         stream!ForwardResponse, stream!callerVars, streamVars
  <2> QED
    BY <1>2, <2>1, ZenonT(60)
<1>7. stream!Done => UNCHANGED streamVars
  BY ZenonT(60) DEF stream!Done, stream!vars, streamVars
<1> QED
  BY <1>3, <1>4, <1>5, <1>6, <1>7, ZenonT(60)
  DEF stream!Next, stream!CallerStep, stream!TaskStep, stream!WorkerStep

(* How the task ended stays known to whoever closes the stream. *)
LEMMA EndStep ==
  ASSUME stream!TypeOK, ChunksConserved, CallerKnown, EndReported, [stream!Next]_streamVars
  PROVE  EndReported'
<1> USE DEF stream!Chunk, stream!Flush, stream!Nothing, stream!Err, stream!NoTask,
            stream!NoReceiver, stream!callerVars
<1> DEFINE HasErr == \E i \in 1 .. Len(responses) : responses[i] = -1
<1>1. /\ requests \in Seq(Nat) /\ Len(requests) \in Nat
      /\ responses \in Seq(Int) /\ Len(responses) \in Nat
      /\ worker.out \in Seq(Nat) /\ worker.got \in Nat /\ forward \in Int
      /\ worker.headers \in BOOLEAN /\ failed \in BOOLEAN /\ sender \in BOOLEAN
      /\ task \in {"call", "message", "send", "finished", "aborted"}
      /\ worker.end \in {"open", "committed", "error", "silent"}
  BY StreamBounds, AppendTail DEF stream!TypeOK
<1>2. ASSUME responses # <<>>, responses' = Tail(responses)
      PROVE  /\ HasErr' => HasErr
             /\ HasErr /\ Head(responses) # -1 => HasErr'
             /\ Head(responses) = -1 => HasErr
  <2>1. /\ Len(responses') = Len(responses) - 1 /\ Head(responses) = responses[1]
        /\ Len(responses) >= 1 /\ 1 \in 1 .. Len(responses)
        /\ \A i \in 1 .. Len(responses') : responses'[i] = responses[i + 1]
    BY <1>1, <1>2, AppendTail
  <2>2. \A i \in 1 .. Len(responses') : i + 1 \in 1 .. Len(responses)
    BY <1>1, <2>1
  <2>3. \A i \in 1 .. Len(responses) : i # 1 => i - 1 \in 1 .. Len(responses') /\ i - 1 + 1 = i
    BY <1>1, <2>1
  <2> QED
    BY <2>1, <2>2, <2>3, ZenonT(60)
<1>3. ASSUME UNCHANGED <<worker, requests, sender, task, responses, failed, caller>>
      PROVE  EndReported'
  BY <1>3, ZenonT(60) DEF EndReported
<1>4. ASSUME stream!write_chunk \/ stream!flush \/ stream!GiveUp PROVE EndReported'
  <2>1. /\ UNCHANGED <<worker, requests, sender, task, responses, failed>>
        /\ caller \in {"idle", "send", "ack"} /\ caller' \in {"idle", "send"}
    BY <1>4, ZenonT(60) DEF stream!write_chunk, stream!flush, stream!Begin, stream!GiveUp
  <2> QED
    BY <2>1, ZenonT(60) DEF EndReported
<1>5. ASSUME stream!Sent PROVE EndReported'
  <2>1. /\ UNCHANGED <<worker, sender, task, responses>> /\ caller = "send"
        /\ caller' \in {"idle", "ack"} /\ (failed => failed')
    BY <1>1, <1>5, ZenonT(60) DEF stream!Sent
  <2>2. sender /\ worker.end # "committed"
    BY <2>1, ZenonT(60) DEF CallerKnown, EndReported
  <2> QED
    BY <2>1, <2>2, ZenonT(60) DEF EndReported
<1>6. ASSUME stream!recv_response PROVE EndReported'
  <2>1. /\ UNCHANGED <<worker, requests, sender, task>> /\ caller = "ack" /\ caller' = "idle"
    BY <1>6, ZenonT(60) DEF stream!recv_response
  <2>2. CASE responses # <<>> /\ responses' = Tail(responses)
             /\ failed' = (failed \/ Head(responses) = -1)
    BY <1>1, <1>2, <2>1, <2>2, ZenonT(60) DEF EndReported
  <2>3. CASE responses = <<>> /\ failed' = TRUE /\ UNCHANGED responses
    BY <2>1, <2>3, ZenonT(60) DEF EndReported
  <2> QED
    BY <1>6, <2>2, <2>3, ZenonT(60) DEF stream!recv_response
<1>7. ASSUME stream!close PROVE EndReported'
  <2>1. UNCHANGED <<worker, requests, task, responses, failed>> /\ caller = "idle"
        /\ caller' = "drain" /\ sender' = FALSE
    BY <1>7, ZenonT(60) DEF stream!close
  <2> QED
    BY <2>1, ZenonT(60) DEF EndReported
<1>8. ASSUME stream!Drain PROVE EndReported'
  <2>1. UNCHANGED <<worker, requests, sender, task, failed>> /\ caller = "drain"
    BY <1>8, ZenonT(60) DEF stream!Drain
  <2>2. CASE responses # <<>> /\ responses' = Tail(responses)
             /\ caller' = IF Head(responses) = -1 THEN "joinErr" ELSE "drain"
    BY <1>1, <1>2, <2>1, <2>2, ZenonT(60) DEF EndReported
  <2>3. CASE responses = <<>> /\ caller' = "joinOk" /\ UNCHANGED responses
             /\ task \in {"finished", "aborted"}
    <3>1. ~HasErr
      BY <2>3
    <3>2. task = "finished"
      BY <2>1, <2>3, ZenonT(60) DEF EndReported
    <3> QED
      BY <2>1, <2>3, <3>1, <3>2, ZenonT(60) DEF EndReported
  <2> QED
    BY <1>8, <2>2, <2>3, ZenonT(60) DEF stream!Drain
<1>9. ASSUME stream!Joined PROVE EndReported'
  BY <1>9, ZenonT(60) DEF stream!Joined, EndReported
<1>10. ASSUME stream!cancel PROVE EndReported'
  <2>1. /\ UNCHANGED <<worker, requests, failed>> /\ caller' = "cancelled"
        /\ sender' = FALSE /\ responses' = <<>> /\ task' \in {"finished", "aborted"}
    BY <1>10, ZenonT(60) DEF stream!cancel
  <2> QED
    BY <2>1, ZenonT(60) DEF EndReported
<1>11. ASSUME stream!Headers PROVE EndReported'
  <2>1. /\ UNCHANGED <<worker, requests, sender, responses, failed, caller>>
        /\ task = "call" /\ task' \in {"message", "send"}
    BY <1>11, ZenonT(60) DEF stream!Headers
  <2> QED
    BY <2>1, ZenonT(60) DEF EndReported
<1>12. ASSUME stream!Message PROVE EndReported'
  <2>1. /\ UNCHANGED <<requests, sender, responses, failed, caller>> /\ task = "message"
        /\ task' \in {"send", "finished"}
        /\ task' = "finished" => worker.end # "error" /\ worker.end \in {"committed", "error"}
    BY <1>12, ZenonT(60) DEF stream!Message, stream!Ended
  <2>2. /\ worker'.end = worker.end /\ worker'.headers = worker.headers
        /\ worker'.out # <<>> => worker.out # <<>>
    BY <1>12, StreamFrames, ZenonT(60)
  <2> QED
    BY <2>1, <2>2, ZenonT(60) DEF EndReported
<1>13. ASSUME stream!ForwardResponse PROVE EndReported'
  <2>1. /\ UNCHANGED <<worker, requests, sender, failed, caller>> /\ task = "send"
        /\ task' = IF forward = -1 THEN "finished" ELSE "message"
    BY <1>13, ZenonT(60) DEF stream!ForwardResponse
  <2>2. /\ Len(responses') = Len(responses) + 1 /\ responses'[Len(responses) + 1] = forward
        /\ \A i \in 1 .. Len(responses) : responses'[i] = responses[i]
    BY <1>1, <1>13, AppendTail DEF stream!ForwardResponse
  <2>3. ~HasErr
    BY <2>1, ZenonT(60) DEF EndReported
  <2>4. HasErr' <=> forward = -1
    <3>1. \A i \in 1 .. Len(responses') : i \in 1 .. Len(responses) \/ i = Len(responses) + 1
      BY <1>1, <2>2
    <3>2. Len(responses) + 1 \in 1 .. Len(responses')
      BY <1>1, <2>2
    <3> QED
      BY <2>2, <2>3, <3>1, <3>2, ZenonT(60)
  <2> QED
    BY <2>1, <2>4, ZenonT(60) DEF EndReported
<1>14. ASSUME stream!Receive PROVE EndReported'
  <2>1. /\ UNCHANGED <<sender, responses, failed, caller, task>> /\ worker.end = "open"
        /\ worker'.end = "open"
    BY <1>14, StreamFrames, ZenonT(60) DEF stream!Receive
  <2>2. worker'.out # <<>> => worker'.headers
    BY <1>14, StreamFrames, ZenonT(60) DEF EndReported
  <2> QED
    BY <2>1, <2>2, ZenonT(60) DEF EndReported
<1>15. ASSUME stream!Commit PROVE EndReported'
  <2>1. /\ UNCHANGED <<sender, responses, failed, caller, task, requests>>
        /\ worker'.end = "committed" /\ worker'.headers /\ requests = <<>> /\ ~sender
    BY <1>15, StreamFrames, ZenonT(60) DEF stream!Commit
  <2> QED
    BY <2>1, ZenonT(60) DEF EndReported
<1>16. ASSUME stream!WorkerFails PROVE EndReported'
  <2>1. /\ UNCHANGED <<sender, responses, failed, caller, task, requests>>
        /\ worker.end = "open" /\ worker'.end \in {"error", "silent"}
        /\ worker'.out = worker.out /\ (worker.headers => worker'.headers)
    BY <1>16, StreamFrames, ZenonT(60) DEF stream!WorkerFails
  <2> QED
    BY <2>1, ZenonT(60) DEF EndReported
<1>17. stream!Done \/ UNCHANGED streamVars => EndReported'
  BY <1>3, ZenonT(60) DEF stream!Done, stream!vars, streamVars
<1> QED
  BY <1>4, <1>5, <1>6, <1>7, <1>8, <1>9, <1>10, <1>11, <1>12, <1>13, <1>14, <1>15, <1>16,
     <1>17, ZenonT(60)
  DEF stream!Next, stream!CallerStep, stream!TaskStep, stream!WorkerStep

(* While no flush has been given up, an acknowledgement on its way is the one *)
(* the caller waits for.                                                      *)
LEMMA AcksStep ==
  ASSUME stream!TypeOK, ChunksConserved, CallerKnown, EndReported, AcksMatched,
         [stream!Next]_streamVars
  PROVE  AcksMatched'
<1> USE DEF stream!Chunk, stream!Flush, stream!Nothing, stream!Err, stream!NoTask,
            stream!NoReceiver, stream!callerVars
<1>1. /\ requests \in Seq(Nat) /\ Len(requests) \in Nat
      /\ responses \in Seq(Int) /\ Len(responses) \in Nat
      /\ worker.out \in Seq(Nat) /\ Len(worker.out) \in Nat
      /\ worker.got \in Nat /\ forward \in Int /\ written \in Nat /\ flushed \in Nat
      /\ sender \in BOOLEAN
      /\ task \in {"call", "message", "send", "finished", "aborted"}
      /\ used \in [writes : 0 .. MaxWrites, givenUp : 0 .. MaxGivenUp]
      /\ used.writes \in 0 .. MaxWrites /\ used.givenUp \in 0 .. MaxGivenUp
      /\ used.givenUp \in Nat
  BY StreamBounds, AppendTail, UsedFields DEF stream!TypeOK
<1>2. ASSUME stream!write_chunk \/ stream!flush PROVE AcksMatched'
  <2>1. PICK r \in {"chunk", "flush"} : stream!Begin(r)
    BY <1>2, ZenonT(60) DEF stream!write_chunk, stream!flush
  <2>2. used.writes + 1 \in 0 .. MaxWrites
    BY <1>1, <2>1, StreamBounds DEF stream!Begin
  <2>3. used'.givenUp = used.givenUp
    BY <1>1, <2>1, <2>2, UsedFields, ZenonT(60) DEF stream!Begin
  <2>4. /\ UNCHANGED <<worker, requests, sender, task, responses, flushed, written, forward>>
        /\ caller = "idle" /\ caller' = "send"
    BY <2>1, ZenonT(60) DEF stream!Begin
  <2>5. /\ FlushQueued' <=> FlushQueued
        /\ FlushAnswered' <=> FlushAnswered
        /\ AckForwarded' <=> AckForwarded
        /\ AckDelivered' <=> AckDelivered
    BY <2>4, ZenonT(60) DEF FlushQueued, FlushAnswered, AckForwarded, AckDelivered
  <2> QED
    BY <2>3, <2>4, <2>5, ZenonT(60) DEF AcksMatched
<1>3. ASSUME stream!GiveUp PROVE AcksMatched'
  <2>1. used.givenUp + 1 \in 0 .. MaxGivenUp
    BY <1>1, <1>3, StreamBounds DEF stream!GiveUp
  <2>2. used'.givenUp = used.givenUp + 1
    BY <1>1, <1>3, <2>1, UsedFields, ZenonT(60) DEF stream!GiveUp
  <2>3. used'.givenUp # 0
    BY <1>1, <2>2
  <2> QED
    BY <2>3, ZenonT(60) DEF AcksMatched
<1>4. ASSUME stream!Sent, used.givenUp = 0 PROVE AcksMatched'
  <2>1. /\ UNCHANGED <<worker, sender, task, responses, flushed, forward, used>>
        /\ caller = "send" /\ sender
    BY <1>4, ZenonT(60) DEF stream!Sent, CallerKnown
  <2>2. ~FlushQueued /\ ~FlushAnswered /\ ~AckForwarded /\ ~AckDelivered
    BY <1>4, <2>1, ZenonT(60) DEF AcksMatched
  <2>3. ~FlushAnswered' /\ ~AckForwarded' /\ ~AckDelivered'
    BY <2>1, <2>2, ZenonT(60) DEF FlushAnswered, AckForwarded, AckDelivered
  <2>4. CASE UNCHANGED <<requests, written>> /\ caller' = "idle"
    <3>1. ~FlushQueued'
      BY <2>1, <2>2, <2>4, ZenonT(60) DEF FlushQueued
    <3> QED
      BY <1>4, <2>1, <2>3, <2>4, <3>1, ZenonT(60) DEF AcksMatched
  <2>5. CASE /\ requests' = Append(requests, stream!Request) /\ ~stream!NoTask
             /\ caller' = IF sending = "flush" THEN "ack" ELSE "idle"
    <3>1. /\ stream!Request = IF sending = "chunk" THEN written + 1 ELSE 0
          /\ stream!Request \in Nat
      BY <1>1 DEF stream!Request
    <3>2. /\ Len(requests') = Len(requests) + 1
          /\ requests'[Len(requests) + 1] = stream!Request
          /\ \A i \in 1 .. Len(requests) : requests'[i] = requests[i]
      BY <1>1, <2>5, <3>1, AppendTail
    <3>3. \A i \in 1 .. Len(requests') : i \in 1 .. Len(requests) \/ i = Len(requests) + 1
      <4>1. Len(requests) \in Nat
        BY <1>1, ZenonT(60)
      <4> QED
        BY <3>2, <4>1
    <3>4. \A i \in 1 .. Len(requests') : requests'[i] = 0 => i = Len(requests')
      BY <2>2, <2>5, <3>2, <3>3, ZenonT(60) DEF FlushQueued
    <3>5. CASE sending = "chunk"
      <4>1. ~FlushQueued'
        BY <1>1, <2>2, <2>5, <3>1, <3>2, <3>3, <3>5 DEF FlushQueued
      <4>2. caller' = "idle"
        BY <2>5, <3>5, ZenonT(60)
      <4> QED
        BY <1>4, <2>1, <2>3, <4>1, <4>2, ZenonT(60) DEF AcksMatched
    <3>6. CASE sending # "chunk"
      <4>1. caller' = "ack"
        BY <2>1, <2>5, <3>6, ZenonT(60) DEF CallerKnown, stream!TypeOK
      <4>2. \A i \in 1 .. Len(responses') : responses'[i] # -1 => i = 1
        BY <2>3, ZenonT(60) DEF AckDelivered
      <4> QED
        BY <1>4, <2>1, <2>3, <3>4, <4>1, <4>2, ZenonT(60) DEF AcksMatched
    <3> QED
      BY <3>5, <3>6, ZenonT(60)
  <2> QED
    BY <1>4, <2>4, <2>5, ZenonT(60) DEF stream!Sent
<1>5. ASSUME stream!recv_response, used.givenUp = 0 PROVE AcksMatched'
  <2>1. /\ UNCHANGED <<worker, sender, task, requests, forward, used, written>>
        /\ caller = "ack" /\ caller' = "idle"
    BY <1>5, ZenonT(60) DEF stream!recv_response
  <2>2. CASE responses # <<>> /\ responses' = Tail(responses)
             /\ flushed' = IF Head(responses) = -1 THEN flushed ELSE written
    <3>1. /\ Len(responses') = Len(responses) - 1 /\ Head(responses) = responses[1]
          /\ Len(responses) >= 1 /\ 1 \in 1 .. Len(responses)
          /\ \A i \in 1 .. Len(responses') : responses'[i] = responses[i + 1]
      BY <1>1, <2>2, AppendTail
    <3>2. \A i \in 1 .. Len(responses') : i + 1 \in 1 .. Len(responses) /\ i + 1 # 1
      <4>1. Len(responses) \in Nat
        BY <1>1, ZenonT(60)
      <4> QED
        BY <3>1, <4>1
    <3>3. ~AckDelivered'
      BY <1>5, <2>1, <3>1, <3>2, ZenonT(60) DEF AcksMatched, AckDelivered
    <3>4. CASE responses[1] = -1
      <4>1. task \in {"finished", "aborted"}
        BY <3>1, <3>4, ZenonT(60) DEF EndReported
      <4>2. ~FlushQueued' /\ ~FlushAnswered' /\ ~AckForwarded'
        BY <2>1, <4>1, ZenonT(60) DEF FlushQueued, FlushAnswered, AckForwarded
      <4> QED
        BY <1>5, <2>1, <2>2, <3>1, <3>3, <3>4, <4>2, ZenonT(60) DEF AcksMatched
    <3>5. CASE responses[1] # -1
      <4>1. AckDelivered
        BY <3>1, <3>5, ZenonT(60) DEF AckDelivered
      <4>2. ~FlushQueued /\ ~FlushAnswered /\ ~AckForwarded /\ worker.got = written
        BY <1>5, <2>1, <4>1, ZenonT(60) DEF AcksMatched
      <4>3. ~FlushQueued' /\ ~FlushAnswered' /\ ~AckForwarded'
        BY <2>1, <4>2, ZenonT(60) DEF FlushQueued, FlushAnswered, AckForwarded
      <4>4. flushed' <= worker'.got
        BY <1>1, <2>1, <2>2, <3>1, <3>5, <4>2
      <4> QED
        BY <1>5, <2>1, <3>3, <4>3, <4>4, ZenonT(60) DEF AcksMatched
    <3> QED
      BY <3>4, <3>5, ZenonT(60)
  <2>3. CASE responses = <<>> /\ UNCHANGED <<responses, flushed>>
             /\ task \in {"finished", "aborted"}
    <3>1. ~FlushQueued' /\ ~FlushAnswered' /\ ~AckForwarded' /\ ~AckDelivered'
      BY <2>1, <2>3 DEF FlushQueued, FlushAnswered, AckForwarded, AckDelivered
    <3> QED
      BY <1>5, <2>1, <2>3, <3>1, ZenonT(60) DEF AcksMatched
  <2> QED
    BY <1>5, <2>2, <2>3, ZenonT(60) DEF stream!recv_response
<1>6. ASSUME UNCHANGED <<worker, used, flushed>>, ~sender', caller' # "ack"
      PROVE  AcksMatched'
  BY <1>6, ZenonT(60) DEF AcksMatched
<1>7. ASSUME stream!close \/ stream!Drain \/ stream!Joined \/ stream!cancel
      PROVE  AcksMatched'
  <2>1. /\ UNCHANGED <<worker, used, flushed>>
        /\ caller' \in {"drain", "joinErr", "joinOk", "closed", "closeErr", "cancelled"}
    BY <1>7, ZenonT(60) DEF stream!close, stream!Drain, stream!Joined, stream!cancel
  <2>2. CallerKnown'
    BY CallerStep, ZenonT(60)
  <2> QED
    BY <1>6, <2>1, <2>2, ZenonT(60) DEF CallerKnown
<1>8. ASSUME stream!Headers, used.givenUp = 0 PROVE AcksMatched'
  <2>1. /\ UNCHANGED <<worker, sender, requests, responses, used, written, flushed, caller>>
        /\ task = "call"
        /\ task' = "message" \/ (task' = "send" /\ forward' = -1)
    BY <1>8, ZenonT(60) DEF stream!Headers
  <2>2. /\ FlushQueued' <=> FlushQueued
        /\ FlushAnswered' <=> FlushAnswered
        /\ ~AckForwarded'
        /\ AckDelivered' <=> AckDelivered
    BY <2>1, ZenonT(60) DEF FlushQueued, FlushAnswered, AckForwarded, AckDelivered
  <2> QED
    BY <1>8, <2>1, <2>2, ZenonT(60) DEF AcksMatched
<1>9. ASSUME stream!Message, used.givenUp = 0 PROVE AcksMatched'
  <2>1. /\ UNCHANGED <<sender, requests, responses, used, written, flushed, caller>>
        /\ task = "message" /\ task' \in {"send", "finished"} /\ worker'.got = worker.got
    BY <1>9, StreamFrames, ZenonT(60) DEF stream!Message
  <2>2. /\ FlushQueued' => FlushQueued
        /\ AckDelivered' <=> AckDelivered
        /\ ~AckForwarded
    BY <2>1, ZenonT(60) DEF FlushQueued, AckForwarded, AckDelivered
  <2>3. CASE worker.out # <<>> /\ worker' = [worker EXCEPT !.out = Tail(@)]
    <3>1. FlushAnswered
      BY <2>1, <2>3, ZenonT(60) DEF FlushAnswered
    <3>2. worker'.out = Tail(worker.out)
      BY <2>3, ZenonT(60) DEF stream!TypeOK
    <3>3. caller = "ack" => worker'.out = <<>>
      <4>1. caller = "ack" => Len(worker.out) = 1
        BY <1>9, <3>1, ZenonT(60) DEF AcksMatched
      <4>2. worker'.out \in Seq(Nat) /\ Len(worker'.out) = Len(worker.out) - 1
        BY <1>1, <2>3, <3>2, AppendTail
      <4>3. Len(worker'.out) = 0 => worker'.out = <<>>
        BY <4>2
      <4> QED
        BY <4>1, <4>2, <4>3
    <3>4. caller = "ack" => ~FlushAnswered'
      BY <3>3, ZenonT(60) DEF FlushAnswered
    <3> QED
      BY <1>9, <2>1, <2>2, <3>1, <3>4, ZenonT(60) DEF AcksMatched
  <2>4. CASE worker.out = <<>> /\ worker' = worker /\ forward' = -1
    <3>1. ~FlushAnswered' /\ ~AckForwarded'
      BY <2>4, ZenonT(60) DEF FlushAnswered, AckForwarded
    <3> QED
      BY <1>9, <2>1, <2>2, <3>1, ZenonT(60) DEF AcksMatched
  <2> QED
    BY <1>9, <2>3, <2>4, ZenonT(60) DEF stream!Message, stream!Ended
<1>10. ASSUME stream!ForwardResponse, used.givenUp = 0 PROVE AcksMatched'
  <2>1. /\ UNCHANGED <<sender, requests, worker, forward, used, written, flushed, caller>>
        /\ task = "send" /\ task' = IF forward = -1 THEN "finished" ELSE "message"
    BY <1>10, ZenonT(60) DEF stream!ForwardResponse
  <2>2. /\ Len(responses') = Len(responses) + 1 /\ responses'[Len(responses) + 1] = forward
        /\ \A i \in 1 .. Len(responses) : responses'[i] = responses[i]
    BY <1>1, <1>10, AppendTail DEF stream!ForwardResponse
  <2>3. \A i \in 1 .. Len(responses') : i \in 1 .. Len(responses) \/ i = Len(responses) + 1
    BY <1>1, <2>2
  <2>4. \A i \in 1 .. Len(responses) : i \in 1 .. Len(responses') /\ i \in Nat
    BY <1>1, <2>2
  <2>5. ~AckForwarded'
    BY <2>1, ZenonT(60) DEF AckForwarded
  <2>6. CASE forward = -1
    <3>1. ~FlushQueued' /\ ~FlushAnswered'
      BY <2>1, <2>6, ZenonT(60) DEF FlushQueued, FlushAnswered
    <3>2. AckDelivered' <=> AckDelivered
      BY <2>2, <2>3, <2>4, <2>6, ZenonT(60) DEF AckDelivered
    <3>3. caller = "ack" => \A i \in 1 .. Len(responses') : responses'[i] # -1 => i = 1
      BY <1>10, <2>2, <2>3, <2>6, ZenonT(60) DEF AcksMatched
    <3> QED
      BY <1>10, <2>1, <2>5, <3>1, <3>2, <3>3, ZenonT(60) DEF AcksMatched
  <2>7. CASE forward # -1
    <3>1. AckForwarded
      BY <2>1, <2>7, ZenonT(60) DEF AckForwarded
    <3>2. CASE caller = "ack"
      <4>1. ~FlushQueued /\ ~FlushAnswered /\ ~AckDelivered /\ worker.got = written
        BY <1>10, <3>1, <3>2, ZenonT(60) DEF AcksMatched
      <4>2. ~FlushQueued' /\ ~FlushAnswered'
        BY <2>1, <4>1, ZenonT(60) DEF FlushQueued, FlushAnswered
      <4>3. \A i \in 1 .. Len(responses) : FALSE
        BY <2>1, <4>1, ZenonT(60) DEF AckDelivered, EndReported
      <4>4. \A i \in 1 .. Len(responses') : i = 1
        <5>1. Len(responses) = 0
          BY <1>1, <4>3
        <5> QED
          BY <2>2, <5>1
      <4> QED
        BY <1>10, <2>1, <2>5, <3>2, <4>1, <4>2, <4>4, ZenonT(60) DEF AcksMatched
    <3>3. CASE caller # "ack"
      <4>1. ~sender
        BY <1>10, <3>1, <3>3, ZenonT(60) DEF AcksMatched
      <4> QED
        BY <1>10, <2>1, <3>3, <4>1, ZenonT(60) DEF AcksMatched
    <3> QED
      BY <3>2, <3>3, ZenonT(60)
  <2> QED
    BY <2>6, <2>7, ZenonT(60)
<1>11. ASSUME stream!Receive, used.givenUp = 0 PROVE AcksMatched'
  <2>1. /\ UNCHANGED <<sender, forward, used, written, flushed, caller, task, responses>>
        /\ task \notin {"finished", "aborted"}
    BY <1>11, ZenonT(60) DEF stream!Receive
  <2>2. /\ requests # <<>> /\ Len(requests) >= 1 /\ 1 \in 1 .. Len(requests)
        /\ Len(requests') = Len(requests) - 1 /\ requests[1] \in Nat
        /\ \A i \in 1 .. Len(requests') : requests'[i] = requests[i + 1]
    BY <1>1, <1>11, AppendTail DEF stream!Receive
  <2>3. \A i \in 1 .. Len(requests') : i + 1 \in 1 .. Len(requests) /\ i + 1 # 1 /\ i \in Nat
    BY <1>1, <2>2
  <2>4. FlushQueued' => FlushQueued
    BY <2>1, <2>2, <2>3, ZenonT(60) DEF FlushQueued
  <2>5. (AckForwarded' <=> AckForwarded) /\ (AckDelivered' <=> AckDelivered)
    BY <2>1, ZenonT(60) DEF AckForwarded, AckDelivered
  <2>6. CASE requests[1] # 0
    <3>1. worker'.got = worker.got + 1 /\ worker'.out = worker.out
      BY <1>11, <2>6, StreamFrames, ZenonT(60)
    <3>2. FlushAnswered' <=> FlushAnswered
      BY <2>1, <3>1, ZenonT(60) DEF FlushAnswered
    <3>3. worker.got < requests[1] /\ requests[1] <= written
      BY <2>2, <2>6, ZenonT(60) DEF ChunksConserved
    <3>4. worker.got # written
      BY <1>1, <2>2, <3>3
    <3>5. flushed <= worker'.got
      BY <1>1, <1>11, <3>1 DEF AcksMatched
    <3>6. caller = "ack" /\ FlushQueued' =>
            \A i \in 1 .. Len(requests') : requests'[i] = 0 => i = Len(requests')
      <4>1. caller = "ack" /\ FlushQueued' =>
              \A i \in 1 .. Len(requests) : requests[i] = 0 => i = Len(requests)
        BY <1>11, <2>4, ZenonT(60) DEF AcksMatched
      <4> QED
        BY <1>1, <2>2, <2>3, <4>1
    <3> QED
      BY <1>11, <2>1, <2>4, <2>5, <3>2, <3>4, <3>5, <3>6, ZenonT(60) DEF AcksMatched
  <2>7. CASE requests[1] = 0
    <3>1. worker'.got = worker.got /\ worker'.out = Append(worker.out, worker.got)
      BY <1>11, <2>7, StreamFrames, ZenonT(60)
    <3>2. FlushQueued
      BY <2>1, <2>2, <2>7, ZenonT(60) DEF FlushQueued
    <3>3. CASE caller = "ack"
      <4>1. /\ ~FlushAnswered /\ ~AckForwarded /\ ~AckDelivered
            /\ 1 = Len(requests)
        BY <1>11, <2>2, <2>7, <3>2, <3>3, ZenonT(60) DEF AcksMatched
      <4>2. ~FlushQueued'
        <5>1. Len(requests') = 0
          <6>1. Len(requests') = Len(requests) - 1
            BY <2>2, ZenonT(60)
          <6>2. Len(requests) = 1
            BY <4>1, ZenonT(60)
          <6> QED
            BY <6>1, <6>2
        <5>2. \A i \in 1 .. 0 : FALSE
          OBVIOUS
        <5> QED
          BY <5>1, <5>2, ZenonT(60) DEF FlushQueued
      <4>3. Len(worker'.out) = 1
        <5>1. worker.out = <<>>
          BY <2>1, <4>1, ZenonT(60) DEF FlushAnswered
        <5> QED
          BY <1>1, <3>1, <5>1, AppendTail
      <4>4. worker.got = written
        <5>1. ~(worker.got + 1 \in worker.got + 1 .. written)
          <6>1. \A i \in 1 .. 1 : i = 1
            OBVIOUS
          <6>2. worker.got + 1 # 0
            BY <1>1
          <6>3. \A i \in 1 .. Len(requests) : requests[i] # worker.got + 1
            BY <2>7, <4>1, <6>1, <6>2, ZenonT(60)
          <6> QED
            BY <6>3, ZenonT(60) DEF ChunksConserved
        <5> QED
          BY <1>1, <5>1 DEF ChunksConserved
      <4> QED
        BY <1>11, <2>1, <2>5, <3>1, <3>3, <4>1, <4>2, <4>3, <4>4, ZenonT(60) DEF AcksMatched
    <3>4. CASE caller # "ack"
      <4>1. ~sender
        BY <1>11, <3>2, <3>4, ZenonT(60) DEF AcksMatched
      <4> QED
        BY <1>11, <2>1, <3>1, <3>4, <4>1, ZenonT(60) DEF AcksMatched
    <3> QED
      BY <3>3, <3>4, ZenonT(60)
  <2> QED
    BY <2>6, <2>7, ZenonT(60)
<1>12. ASSUME stream!Commit PROVE AcksMatched'
  <2>1. UNCHANGED <<sender, used, flushed, caller>> /\ ~sender /\ worker'.got = worker.got
    BY <1>12, StreamFrames, ZenonT(60) DEF stream!Commit
  <2> QED
    BY <2>1, ZenonT(60) DEF AcksMatched, CallerKnown
<1>13. ASSUME UNCHANGED <<requests, sender, task, forward, responses, used, written, flushed,
                          caller>>,
              worker'.got = worker.got, worker'.out = worker.out
       PROVE  AcksMatched'
  <2>1. /\ FlushQueued' <=> FlushQueued
        /\ FlushAnswered' <=> FlushAnswered
        /\ AckForwarded' <=> AckForwarded
        /\ AckDelivered' <=> AckDelivered
    BY <1>13, ZenonT(60) DEF FlushQueued, FlushAnswered, AckForwarded, AckDelivered
  <2> QED
    BY <1>13, <2>1, ZenonT(60) DEF AcksMatched
<1>14. ASSUME stream!WorkerFails PROVE AcksMatched'
  <2>1. worker'.got = worker.got /\ worker'.out = worker.out
    BY <1>14, StreamFrames, ZenonT(60)
  <2> QED
    BY <1>13, <1>14, <2>1, ZenonT(60) DEF stream!WorkerFails
<1>15. stream!Done \/ UNCHANGED streamVars => AcksMatched'
  BY <1>13, ZenonT(60) DEF stream!Done, stream!vars, streamVars
<1>16. CASE used.givenUp # 0
  <2>1. used'.givenUp # 0
    <3>1. stream!write_chunk \/ stream!flush => used'.givenUp = used.givenUp
      <4>1. \A r \in {"chunk", "flush"} : stream!Begin(r) => used.writes + 1 \in 0 .. MaxWrites
        BY <1>1, StreamBounds DEF stream!Begin
      <4> QED
        BY <1>1, <4>1, UsedFields DEF stream!write_chunk, stream!flush, stream!Begin
    <3>2. stream!GiveUp => used'.givenUp = used.givenUp + 1
      <4>1. stream!GiveUp => used.givenUp + 1 \in 0 .. MaxGivenUp
        BY <1>1, StreamBounds DEF stream!GiveUp
      <4> QED
        BY <1>1, <4>1, UsedFields, ZenonT(60) DEF stream!GiveUp
    <3>3. \/ stream!write_chunk \/ stream!flush \/ stream!GiveUp \/ used' = used
      BY ZenonT(60) DEF stream!Next, stream!CallerStep, stream!TaskStep, stream!WorkerStep,
         stream!close, stream!cancel, stream!Sent, stream!recv_response, stream!Drain,
         stream!Joined, stream!Headers, stream!Message, stream!ForwardResponse,
         stream!Receive, stream!Commit, stream!WorkerFails, stream!Done, stream!vars,
         streamVars
    <3> QED
      BY <1>1, <1>16, <3>1, <3>2, <3>3
  <2> QED
    BY <2>1, ZenonT(60) DEF AcksMatched
<1> QED
  BY <1>2, <1>3, <1>4, <1>5, <1>7, <1>8, <1>9, <1>10, <1>11, <1>12, <1>14, <1>15, <1>16, ZenonT(60)
  DEF stream!Next, stream!CallerStep, stream!TaskStep, stream!WorkerStep

(* A flush of a write stream that returns an acknowledgement means that the   *)
(* worker has the chunks before it, unless an earlier flush was given up, and *)
(* a close that succeeds means a committed, whole block (flush, recv_response *)
(* and close in src/io/writer.rs and src/client/worker.rs).                   *)
THEOREM AcksAreStored == SuiteSpec => []AcksMeanStored
<1> DEFINE Inv == on = "stream" => StreamInv
<1>1. SuiteInit => Inv
  <2> SUFFICES ASSUME SuiteInit, on = "stream" PROVE StreamInv
    BY ZenonT(60)
  <2>1. stream!Init
    BY ZenonT(60) DEF SuiteInit
  <2> USE DEF stream!Chunk, stream!Flush, stream!Nothing, stream!Err
  <2>2. /\ 0 \in 0 .. MaxWrites /\ 0 \in 0 .. MaxGivenUp /\ 0 <= RequestCap
        /\ 0 <= ResponseCap
    BY StreamBounds
  <2>3. /\ worker.got = 0 /\ worker.headers = FALSE /\ worker.out = <<>>
        /\ worker.end = "open" /\ used.writes = 0 /\ used.givenUp = 0
    BY <2>1, ZenonT(60) DEF stream!Init
  <2>4. stream!TypeOK
    <3>1. /\ requests \in Seq(Nat) /\ Len(requests) = 0
          /\ responses \in Seq(Int) /\ Len(responses) = 0
      BY <2>1 DEF stream!Init
    <3>2. worker \in [got : 0 .. MaxWrites, headers : BOOLEAN, out : Seq(Nat),
                      end : {"open", "committed", "error", "silent"}]
      <4>1. <<>> \in Seq(Nat)
        OBVIOUS
      <4> QED
        BY <2>1, <2>2, <4>1, ZenonT(60) DEF stream!Init
    <3>3. used \in [writes : 0 .. MaxWrites, givenUp : 0 .. MaxGivenUp]
      BY <2>1, <2>2, ZenonT(60) DEF stream!Init
    <3>4. Len(requests) <= RequestCap /\ Len(responses) <= ResponseCap
      BY <2>2, <3>1, ZenonT(60)
    <3>5. caller = "idle" /\ sending = "nothing" /\ task = "call"
      BY <2>1, ZenonT(60) DEF stream!Init
    <3>7. sender \in BOOLEAN /\ failed \in BOOLEAN
      BY <2>1, ZenonT(60) DEF stream!Init
    <3>8. forward \in Int
      <4>1. forward = -1
        BY <2>1, ZenonT(60) DEF stream!Init
      <4> QED
        BY <4>1
    <3>6. written \in 0 .. MaxWrites /\ flushed \in 0 .. MaxWrites
      BY <2>1, <2>2, ZenonT(60) DEF stream!Init
    <3> QED
      BY <3>1, <3>2, <3>3, <3>4, <3>5, <3>6, <3>7, <3>8, ZenonT(60) DEF stream!TypeOK
  <2>5. ChunksConserved
    BY <2>1, <2>3 DEF stream!Init, ChunksConserved
  <2>6. CallerKnown /\ EndReported
    BY <2>1, <2>3 DEF stream!Init, CallerKnown, EndReported
  <2>7. AcksMatched
    BY <2>1, <2>3 DEF stream!Init, AcksMatched, FlushQueued, FlushAnswered, AckForwarded,
                      AckDelivered
  <2> QED
    BY <2>4, <2>5, <2>6, <2>7, ZenonT(60) DEF StreamInv
<1>2. on = "stream" /\ [SuiteNext]_all => [stream!Next]_streamVars
  BY ZenonT(60) DEF SuiteNext, all
<1>3. [SuiteNext]_all => on' = on
  BY ZenonT(60) DEF SuiteNext, all
<1>4. Inv /\ [SuiteNext]_all => Inv'
  BY <1>2, <1>3, StreamTypeStep, CallerStep, ChunksStep, EndStep, AcksStep, ZenonT(60) DEF StreamInv
<1>5. Inv => AcksMeanStored
  <2> SUFFICES ASSUME StreamInv
               PROVE  stream!TypeOK /\ stream!FlushReachesWorker /\ stream!CloseMeansCommitted
    BY ZenonT(60) DEF AcksMeanStored
  <2>1. stream!FlushReachesWorker
    BY ZenonT(60) DEF StreamInv, AcksMatched, stream!FlushReachesWorker
  <2>2. ASSUME caller = "closed", ~failed
        PROVE  worker.end = "committed" /\ worker.got = written
    <3>1. worker.end = "committed" /\ requests = <<>>
      BY <2>2, ZenonT(60) DEF StreamInv, EndReported
    <3>2. worker.got \in Nat /\ written \in Nat /\ worker.got <= written
      BY StreamBounds DEF StreamInv, stream!TypeOK, ChunksConserved
    <3>3. ~(worker.got + 1 \in worker.got + 1 .. written)
      BY <3>1, <3>2 DEF StreamInv, ChunksConserved
    <3> QED
      BY <3>1, <3>2, <3>3
  <2> QED
    BY <2>1, <2>2, ZenonT(60) DEF StreamInv, stream!CloseMeansCommitted
<1> QED
  BY <1>1, <1>4, <1>5, PTL DEF SuiteSpec
=============================================================================
