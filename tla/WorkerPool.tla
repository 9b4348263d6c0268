----------------------------- MODULE WorkerPool -----------------------------
(***************************************************************************)
(* WorkerClientPool (src/src/client/worker.rs): the cached channels to one *)
(* worker address, one per slot, and the tasks that acquire, reconnect and *)
(* invalidate them.  Addresses share nothing but the generation counter.   *)
(*                                                                         *)
(* The map of clients is an ArcSwap and the map of mutexes a DashMap: each *)
(* operation on one of them is a step.  A task suspends on the mutex of    *)
(* its slot and during the TCP+SASL handshake.                             *)
(***************************************************************************)
EXTENDS Integers, FiniteSets

CONSTANTS
    Tasks,
    PoolSize,       \* worker_connection_pool_size
    Calls,          \* the calls tasks make, of those in AllCalls
    MaxGen,         \* bound: clients created
    MaxInvalidates  \* bound: calls of invalidate

AllCalls == {"acquire", "reconnect_if_stale", "reconnect", "invalidate"}

ASSUME PoolAssumption ==
    /\ PoolSize \in Nat \ {0}
    /\ Calls \subseteq AllCalls
    /\ MaxGen \in Nat
    /\ MaxInvalidates \in Nat

Slots == 0 .. PoolSize - 1
Gens == 0 .. MaxGen
Max64 == MaxGen + 1     \* u64::MAX: no generation exceeds it

VARIABLES
    clients,        \* the generation cached in each slot, 0 for none
    lock_of,        \* reconnect_locks: the mutex of each slot, 0 for none
    guard,          \* the mutex a task holds, 0 for none
    locks,          \* mutexes created so far
    invalidates,    \* calls of invalidate so far
    addr_rr,        \* the next slot of the round robin
    next_generation,
    pc,
    call,           \* what a task is doing
    slot,           \* the slot it works on
    stale,          \* the generation it saw fail
    mine,           \* its reference to a mutex
    fresh,          \* the generation of the client it has connected
    client,         \* the client it was given last, 0 for none
    newest,         \* ghost: the newest generation installed in each slot
    base            \* ghost: newest of the task's slot when it was chosen, or
                    \* at the last handshake for it that failed

shared == <<clients, lock_of, guard, locks, invalidates, addr_rr, next_generation,
            newest>>
local == <<call, slot, stale, mine, fresh, base>>
vars == <<shared, pc, local, client>>

Return(t, g) ==
    /\ pc' = [pc EXCEPT ![t] = "idle"]
    /\ call' = [call EXCEPT ![t] = "none"]
    /\ slot' = [slot EXCEPT ![t] = 0]
    /\ stale' = [stale EXCEPT ![t] = 0]
    /\ mine' = [mine EXCEPT ![t] = 0]
    /\ fresh' = [fresh EXCEPT ![t] = 0]
    /\ client' = [client EXCEPT ![t] = g]

(* The task goes for the mutex of slot s. *)
GoFor(t, what, s, g) ==
    /\ pc' = [pc EXCEPT ![t] = "lock_ref"]
    /\ call' = [call EXCEPT ![t] = what]
    /\ slot' = [slot EXCEPT ![t] = s]
    /\ stale' = [stale EXCEPT ![t] = g]
    /\ base' = [base EXCEPT ![t] = newest[s]]
    /\ UNCHANGED <<mine, fresh, client>>

(* acquire: next_slot, then the wait-free lookup of acquire_by_key. *)
AcquireNext(t, what) ==
    /\ addr_rr' = (addr_rr + 1) % PoolSize
    /\ IF clients[addr_rr] # 0
       THEN Return(t, clients[addr_rr]) /\ UNCHANGED base
       ELSE GoFor(t, what, addr_rr, 0)
    /\ UNCHANGED <<clients, lock_of, guard, locks, invalidates, next_generation,
                   newest>>

Acquire(t) ==
    /\ pc[t] = "idle"
    /\ "acquire" \in Calls
    /\ AcquireNext(t, "acquire")

(* reconnect_if_stale, after the client the task was given failed: the slot  *)
(* that still caches it, or any client when none does.                       *)
ReconnectIfStale(t) ==
    /\ pc[t] = "idle"
    /\ "reconnect_if_stale" \in Calls
    /\ client[t] # 0
    /\ IF PoolSize = 1
       THEN GoFor(t, "reconnect_if_stale", 0, client[t]) /\ UNCHANGED shared
       ELSE \/ \E s \in Slots :
                 /\ clients[s] = client[t]
                 /\ GoFor(t, "reconnect_if_stale", s, client[t])
                 /\ UNCHANGED shared
            \/ /\ \A s \in Slots : clients[s] # client[t]
               /\ AcquireNext(t, "reacquire")

(* reconnect: the caller has no generation to compare. *)
Reconnect(t) ==
    /\ pc[t] = "idle"
    /\ "reconnect" \in Calls
    /\ addr_rr' = (addr_rr + 1) % PoolSize
    /\ GoFor(t, "reconnect", addr_rr, Max64)
    /\ UNCHANGED <<clients, lock_of, guard, locks, invalidates, next_generation,
                   newest>>

(* reconnect_lock_for *)
LockRef(t) ==
    /\ pc[t] = "lock_ref"
    /\ IF lock_of[slot[t]] # 0
       THEN /\ mine' = [mine EXCEPT ![t] = lock_of[slot[t]]]
            /\ UNCHANGED <<lock_of, locks>>
       ELSE /\ locks' = locks + 1
            /\ lock_of' = [lock_of EXCEPT ![slot[t]] = locks + 1]
            /\ mine' = [mine EXCEPT ![t] = locks + 1]
    /\ pc' = [pc EXCEPT ![t] = "lock"]
    /\ UNCHANGED <<clients, guard, invalidates, addr_rr, next_generation, newest, call,
                   slot, stale, fresh, base, client>>

(* Mutant of Coalesced: the client the caller saw fail is good enough. *)
CoalescedSame(t) ==
    clients[slot[t]] # 0 /\ clients[slot[t]] >= stale[t]

(* Mutant of Coalesced: nobody looks at the cache again under the mutex. *)
CoalescedNever(t) == FALSE

(* The check under the mutex: someone has installed a client meanwhile. *)
Coalesced(t) ==
    clients[slot[t]] # 0 /\ clients[slot[t]] > stale[t]

Free(l) == \A u \in Tasks : guard[u] # l

(* The mutex and the check under it; a call that shares a client drops the   *)
(* mutex again at once.                                                      *)
Lock(t) ==
    /\ pc[t] = "lock"
    /\ Free(mine[t])
    /\ IF Coalesced(t)
       THEN /\ Return(t, clients[slot[t]])
            /\ base' = [base EXCEPT ![t] = 0]
            /\ UNCHANGED guard
       ELSE /\ guard' = [guard EXCEPT ![t] = mine[t]]
            /\ pc' = [pc EXCEPT ![t] = IF call[t] \in {"acquire", "reacquire"}
                                       THEN "connect" ELSE "remove"]
            /\ UNCHANGED <<local, client>>
    /\ UNCHANGED <<clients, lock_of, locks, invalidates, addr_rr, next_generation,
                   newest>>

(* remove_client *)
Remove(t) ==
    /\ pc[t] = "remove"
    /\ clients' = [clients EXCEPT ![slot[t]] = 0]
    /\ pc' = [pc EXCEPT ![t] = "connect"]
    /\ UNCHANGED <<lock_of, guard, locks, invalidates, addr_rr, next_generation,
                   newest, local, client>>

(* WorkerClient::connect and the client's generation. *)
Connect(t) ==
    /\ pc[t] = "connect"
    /\ next_generation <= MaxGen
    /\ fresh' = [fresh EXCEPT ![t] = next_generation]
    /\ next_generation' = next_generation + 1
    /\ pc' = [pc EXCEPT ![t] = "insert"]
    /\ UNCHANGED <<clients, lock_of, guard, locks, invalidates, addr_rr, newest, call,
                   slot, stale, mine, base, client>>

Unlock(t) == guard' = [guard EXCEPT ![t] = 0]

ConnectFails(t) ==
    /\ pc[t] = "connect"
    /\ Unlock(t)
    /\ Return(t, 0)
    /\ base' = [u \in Tasks |-> IF u = t \/ pc[u] \in {"idle", "drop_locks"} THEN 0
                               ELSE IF slot[u] = slot[t] THEN newest[slot[t]]
                               ELSE base[u]]
    /\ UNCHANGED <<clients, lock_of, locks, invalidates, addr_rr, next_generation,
                   newest>>

(* insert_client; the mutex is released on return. *)
Insert(t) ==
    /\ pc[t] = "insert"
    /\ clients' = [clients EXCEPT ![slot[t]] = fresh[t]]
    /\ newest' = [newest EXCEPT ![slot[t]] = IF fresh[t] > @ THEN fresh[t] ELSE @]
    /\ Unlock(t)
    /\ Return(t, fresh[t])
    /\ base' = [base EXCEPT ![t] = 0]
    /\ UNCHANGED <<lock_of, locks, invalidates, addr_rr, next_generation>>

(* invalidate: the clients of every slot, then their mutexes one by one and   *)
(* the counter with the last.                                                *)
Invalidate(t) ==
    /\ pc[t] = "idle"
    /\ "invalidate" \in Calls
    /\ invalidates < MaxInvalidates
    /\ invalidates' = invalidates + 1
    /\ clients' = [s \in Slots |-> 0]
    /\ pc' = [pc EXCEPT ![t] = "drop_locks"]
    /\ UNCHANGED <<lock_of, guard, locks, addr_rr, next_generation, newest, local,
                   client>>

DropLock(t) ==
    /\ pc[t] = "drop_locks"
    /\ lock_of' = [lock_of EXCEPT ![slot[t]] = 0]
    /\ IF slot[t] < PoolSize - 1
       THEN /\ slot' = [slot EXCEPT ![t] = @ + 1]
            /\ UNCHANGED <<addr_rr, pc, call, stale, mine, fresh, client>>
       ELSE addr_rr' = 0 /\ Return(t, 0)
    /\ UNCHANGED <<clients, guard, locks, invalidates, next_generation, newest, base>>

Init ==
    /\ clients = [s \in Slots |-> 0]
    /\ lock_of = [s \in Slots |-> 0]
    /\ guard = [t \in Tasks |-> 0]
    /\ locks = 0
    /\ invalidates = 0
    /\ addr_rr = 0
    /\ next_generation = 1
    /\ pc = [t \in Tasks |-> "idle"]
    /\ call = [t \in Tasks |-> "none"]
    /\ slot = [t \in Tasks |-> 0]
    /\ stale = [t \in Tasks |-> 0]
    /\ mine = [t \in Tasks |-> 0]
    /\ fresh = [t \in Tasks |-> 0]
    /\ client = [t \in Tasks |-> 0]
    /\ newest = [s \in Slots |-> 0]
    /\ base = [t \in Tasks |-> 0]

Step(t) ==
    \/ LockRef(t) \/ Lock(t) \/ Remove(t) \/ Connect(t) \/ ConnectFails(t)
    \/ Insert(t) \/ DropLock(t)

Next ==
    \E t \in Tasks :
      Acquire(t) \/ ReconnectIfStale(t) \/ Reconnect(t) \/ Invalidate(t) \/ Step(t)

Spec == Init /\ [][Next]_vars

(* Tasks are polled while they can run, the tokio mutex is first come first   *)
(* served, and a handshake ends at the latest with its timeout.               *)
Fairness ==
    \A t \in Tasks : WF_vars(Step(t)) /\ SF_vars(Lock(t))

----------------------------------------------------------------------------
Steps == {"idle", "lock_ref", "lock", "remove", "connect", "insert", "drop_locks"}

TypeOK ==
    /\ clients \in [Slots -> Gens]
    /\ lock_of \in [Slots -> Nat]
    /\ guard \in [Tasks -> Nat]
    /\ locks \in Nat
    /\ invalidates \in 0 .. MaxInvalidates
    /\ addr_rr \in Slots
    /\ next_generation \in 1 .. MaxGen + 1
    /\ pc \in [Tasks -> Steps]
    /\ call \in [Tasks -> {"none", "reacquire"} \cup AllCalls]
    /\ slot \in [Tasks -> Slots]
    /\ stale \in [Tasks -> Gens \cup {Max64}]
    /\ mine \in [Tasks -> Nat]
    /\ fresh \in [Tasks -> Gens]
    /\ client \in [Tasks -> Gens]
    /\ newest \in [Slots -> Gens]
    /\ base \in [Tasks -> Gens]

Handshaking(t) == pc[t] \in {"remove", "connect", "insert"}

(* Until the first invalidate, at most one task is in the handshake for a     *)
(* slot (doc of WorkerClientPool: the herd of observers of one failure).      *)
SingleHandshake ==
    invalidates = 0 =>
      \A t, u \in Tasks :
        Handshaking(t) /\ Handshaking(u) /\ slot[t] = slot[u] => t = u

(* Until the first invalidate, a task that calls acquire or                  *)
(* reconnect_if_stale connects only if nobody has installed a client in its  *)
(* slot since the call chose the slot, or since the last handshake there     *)
(* failed: a call that waited for another's handshake shares its result (the *)
(* checks under the mutex in acquire_by_key and reconnect_by_key).           *)
NoDuplicateHandshake ==
    invalidates = 0 =>
      \A t \in Tasks :
        Handshaking(t) /\ call[t] # "reconnect" => newest[slot[t]] = base[t]

(* reconnect_if_stale never hands back the client that its caller saw fail,   *)
(* whatever is invalidated and reconnected meanwhile.                         *)
NeverStaleAgain ==
    [][\A t \in Tasks :
         /\ ReconnectIfStale(t) \/ call[t] \in {"reconnect_if_stale", "reacquire"}
         /\ pc'[t] = "idle"
         /\ client'[t] # 0
         => client'[t] # client[t]]_vars

(* Every call returns. *)
CallsReturn == \A t \in Tasks : pc[t] # "idle" ~> pc[t] = "idle"
=============================================================================
