--------------------------- MODULE MasterClientProofs ---------------------------
(***************************************************************************)
(* Proofs about the calls of the masters (MasterClient), for every number  *)
(* of tasks, masters and channels and every tree of directories.           *)
(***************************************************************************)
EXTENDS MasterClient, FiniteSetTheorems, SequenceTheorems, TLAPS

\* The time limits of the provers, in seconds.
USE SMTT(30), ZenonT(60)

Dirs == DOMAIN Listing

(* The tasks whose RPC is under way on client c. *)
OnClient(c) == {t \in Tasks : client[t] = c /\ pc[t] = "rpc"}

(* Every attempt of a mutating call carries one operation id, and what the    *)
(* masters know of it is what they have applied.                              *)
JournalExact ==
    \A t \in Tasks :
      /\ op_id[t] \in {0, 1}
      /\ op_id[t] # 0 => \/ applied[t] = 0 /\ journal[t] = {}
                         \/ applied[t] = 1 /\ journal[t] = {1}
      /\ t \in late => op_id[t] # 0
      /\ pc[t] = "ok" /\ listed[t] = <<>> => applied[t] >= 1

(* A session an attempt failed on is left behind before the next request. *)
FailedReconnects == \A t \in failed : pc[t] = "reconnect"

(* The directories a listing has listed or queued, in the order it met them:  *)
(* none twice, none outside the tree, and with a listed directory all its     *)
(* children.                                                                  *)
WalkOK(l, q, v) ==
    LET met == l \o q
    IN  /\ IsInjective(met)
        /\ ToSet(met) \subseteq Below
        /\ met # <<>> => Root \in ToSet(met)
        /\ \A d \in ToSet(l) : Listing[d] \subseteq ToSet(met)
        /\ q # <<>> => v = ToSet(met)
WalkSound ==
    \A t \in Tasks : /\ WalkOK(listed[t], queue[t], visited[t])
                     /\ pc[t] = "ok" => queue[t] = <<>>

MasterInv ==
    TypeOK /\ InflightExact /\ JournalExact /\ FailedReconnects /\ WalkSound

MasterTypes ==
    /\ primary \in Masters /\ state \in [Clients -> Masters]
    /\ schedule \in {"RoundRobin", "P2C"} /\ rr \in Clients
    /\ pc \in [Tasks -> Steps] /\ client \in [Tasks -> Clients]
    /\ attempt \in [Tasks -> 0 .. 2]
    /\ closed \subseteq Tasks /\ failed \subseteq Tasks /\ late \subseteq Tasks
    /\ op_id \in [Tasks -> Nat] /\ applied \in [Tasks -> Nat]
    /\ journal \in [Tasks -> SUBSET Nat]
    /\ visited \in [Tasks -> SUBSET Dirs]
    /\ queue \in [Tasks -> Seq(Dirs)] /\ listed \in [Tasks -> Seq(Dirs)]

----------------------------------------------------------------------------
(* The steps of a call, by what they may do. *)

\* The constants, under the assumption of MasterClient.
LEMMA Constants ==
    /\ IsFiniteSet(Tasks) /\ IsFiniteSet(Dirs) /\ Size \in Nat \ {0}
    /\ Root \in Dirs /\ Listing \in [Dirs -> SUBSET Dirs]
  BY MasterAssumption, ZenonT(60) DEF Dirs

\* The steps of the client and the masters, one by one.
LEMMA NextCases ==
  ASSUME Next
  PROVE  \/ Failover
         \/ \E t \in Tasks :
              \/ \E id \in {0, 1}, dirs \in {<<>>, <<Root>>} : Call(t, id, dirs)
              \/ Send(t) \/ Reply(t) \/ FailRetriable(t) \/ TimeOut(t) \/ FailFatal(t)
              \/ Reconnect(t) \/ ReconnectFails(t) \/ ServeLate(t) \/ Cancel(t)
<1>1. CASE Failover
  BY <1>1, ZenonT(60)
<1>2. ASSUME NEW t \in Tasks, Begin(t) \/ Step(t) \/ ServeLate(t) \/ Cancel(t)
      PROVE  \/ \E id \in {0, 1}, dirs \in {<<>>, <<Root>>} : Call(t, id, dirs)
             \/ Send(t) \/ Reply(t) \/ FailRetriable(t) \/ TimeOut(t) \/ FailFatal(t)
             \/ Reconnect(t) \/ ReconnectFails(t) \/ ServeLate(t) \/ Cancel(t)
  <2>1. Begin(t) => \E id \in {0, 1}, dirs \in {<<>>, <<Root>>} : Call(t, id, dirs)
    BY ZenonT(60) DEF Begin, get_status, list_status, schedule_async_persistence, commit_location,
           remove_blocks, create_file, complete_file, delete_with_options, rename,
           create_directory, new_fs_op_id
  <2> QED
    BY <1>2, <2>1, ZenonT(60) DEF Step
<1> QED
  BY <1>1, <1>2, ZenonT(60) DEF Next

(* NextAttempt and Abort take the task out of its RPC. *)
LEMMA AttemptMoves ==
  ASSUME NEW t \in Tasks, NextAttempt(t) \/ Abort(t)
  PROVE  \E s \in {"idle", "reconnect"} : pc' = [pc EXCEPT ![t] = s]
  BY ZenonT(60) DEF NextAttempt, Abort, Finish, Goto

(* Where the pc of a task goes, and what happens to the count of its client. *)
LEMMA RpcMoves ==
  ASSUME NEW t \in Tasks
  PROVE  /\ Reply(t) \/ FailRetriable(t) \/ TimeOut(t) \/ FailFatal(t)
              \/ (Cancel(t) /\ pc[t] = "rpc") =>
              /\ pc[t] = "rpc" /\ Leave(t) /\ client' = client
              /\ \E s \in Steps \ {"rpc"} : pc' = [pc EXCEPT ![t] = s]
         /\ Reconnect(t) \/ ReconnectFails(t) \/ (Cancel(t) /\ pc[t] # "rpc") =>
              /\ pc[t] = "reconnect" /\ UNCHANGED <<inflight, client>>
              /\ \E s \in Steps \ {"rpc"} : pc' = [pc EXCEPT ![t] = s]
<1> USE DEF Steps, Idle
<1>1. Reply(t) => \E s \in Steps \ {"rpc"} : pc' = [pc EXCEPT ![t] = s]
  BY ZenonT(60) DEF Reply, Return, ListNext, Finish, Goto
<1>2. FailRetriable(t) \/ TimeOut(t) \/ FailFatal(t) \/ ReconnectFails(t) \/ Cancel(t) =>
        \E s \in Steps \ {"rpc"} : pc' = [pc EXCEPT ![t] = s]
  BY AttemptMoves, ZenonT(60) DEF FailRetriable, TimeOut, FailFatal, ReconnectFails, Cancel
<1>3. Reconnect(t) => \E s \in Steps \ {"rpc"} : pc' = [pc EXCEPT ![t] = s]
  BY ZenonT(60) DEF Reconnect, Goto
<1> QED
  BY <1>1, <1>2, <1>3, ZenonT(60)
  DEF Reply, FailRetriable, TimeOut, FailFatal, Cancel, Reconnect, ReconnectFails, pool

----------------------------------------------------------------------------
(* The in-flight counts *)

(* The tasks on a client are finitely many, at most all. *)
LEMMA OnClientFinite ==
  ASSUME NEW S \in SUBSET Tasks
  PROVE  /\ IsFiniteSet(S) /\ Cardinality(S) \in 0 .. Cardinality(Tasks)
         /\ \A t : /\ Cardinality(S \cup {t}) = IF t \in S THEN Cardinality(S)
                                                ELSE Cardinality(S) + 1
                   /\ Cardinality(S \ {t}) = IF t \in S THEN Cardinality(S) - 1
                                             ELSE Cardinality(S)
<1>1. IsFiniteSet(S) /\ Cardinality(S) <= Cardinality(Tasks)
  BY Constants, FS_Subset, ZenonT(60)
<1>2. Cardinality(S) \in Nat /\ Cardinality(Tasks) \in Nat
  BY <1>1, Constants, FS_CardinalityType, ZenonT(60)
<1>3. ASSUME NEW t
      PROVE  /\ Cardinality(S \cup {t}) = IF t \in S THEN Cardinality(S)
                                          ELSE Cardinality(S) + 1
             /\ Cardinality(S \ {t}) = IF t \in S THEN Cardinality(S) - 1
                                       ELSE Cardinality(S)
  BY <1>1, FS_AddElement, FS_RemoveElement, ZenonT(60)
<1> QED
  BY <1>1, <1>2, <1>3

\* Every step keeps the in-flight counters exact.
LEMMA InflightStep ==
  ASSUME MasterTypes, inflight \in [Clients -> Int], InflightExact, [Next]_vars
  PROVE  InflightExact' /\ inflight' \in [Clients -> Int]
<1>1. \A c \in Clients : /\ inflight[c] = Cardinality(OnClient(c))
                         /\ OnClient(c) \in SUBSET Tasks
  BY ZenonT(60) DEF InflightExact, OnClient
<1>2. SUFFICES /\ \A c \in Clients : inflight'[c] = Cardinality(OnClient(c)')
               /\ inflight' \in [Clients -> Int]
  BY ZenonT(60) DEF InflightExact, OnClient
<1>3. pc \in [Tasks -> Steps] /\ client \in [Tasks -> Clients]
  BY ZenonT(60) DEF MasterTypes
<1>4. ASSUME UNCHANGED inflight, \A c \in Clients : OnClient(c)' = OnClient(c)
      PROVE  /\ \A c \in Clients : inflight'[c] = Cardinality(OnClient(c)')
             /\ inflight' \in [Clients -> Int]
  BY <1>1, <1>4, ZenonT(60)
<1>5. ASSUME NEW t \in Tasks, NEW s, pc' = [pc EXCEPT ![t] = s], client' = client
      PROVE  \A c \in Clients :
               OnClient(c)' = IF client[t] # c THEN OnClient(c)
                              ELSE IF s = "rpc" THEN OnClient(c) \cup {t}
                              ELSE OnClient(c) \ {t}
  BY <1>3, <1>5 DEF OnClient
<1>6. ASSUME NEW t \in Tasks, Send(t)
      PROVE  /\ \A c \in Clients : inflight'[c] = Cardinality(OnClient(c)')
             /\ inflight' \in [Clients -> Int]
  <2>1. /\ pc' = [pc EXCEPT ![t] = "rpc"] /\ client' = client /\ pc[t] = "send"
        /\ inflight' = [inflight EXCEPT ![client[t]] = @ + 1]
    BY <1>6, ZenonT(60) DEF Send, Goto
  <2>2. \A c \in Clients : t \notin OnClient(c)
    BY <2>1, ZenonT(60) DEF OnClient
  <2>3. \A c \in Clients : /\ client[t] # c => OnClient(c)' = OnClient(c)
                           /\ client[t] = c => OnClient(c)' = OnClient(c) \cup {t}
    BY <1>5, <2>1, ZenonT(60)
  <2>4. \A c \in Clients : client[t] = c => Cardinality(OnClient(c)') = inflight[c] + 1
    BY <1>1, <2>2, <2>3, OnClientFinite
  <2>5. \A c \in Clients : inflight'[c] = IF client[t] = c THEN inflight[c] + 1
                                          ELSE inflight[c]
    BY <1>3, <2>1, ZenonT(60)
  <2> QED
    BY <1>1, <1>3, <2>1, <2>3, <2>4, <2>5
<1>7. ASSUME NEW t \in Tasks, pc[t] = "rpc", Leave(t), client' = client,
             \E s \in Steps \ {"rpc"} : pc' = [pc EXCEPT ![t] = s]
      PROVE  /\ \A c \in Clients : inflight'[c] = Cardinality(OnClient(c)')
             /\ inflight' \in [Clients -> Int]
  <2>1. \A c \in Clients : client[t] = c => t \in OnClient(c)
    BY <1>7, ZenonT(60) DEF OnClient
  <2>2. \A c \in Clients : /\ client[t] # c => OnClient(c)' = OnClient(c)
                           /\ client[t] = c => OnClient(c)' = OnClient(c) \ {t}
    BY <1>5, <1>7, ZenonT(60)
  <2>3. \A c \in Clients : client[t] = c => Cardinality(OnClient(c)') = inflight[c] - 1
    BY <1>1, <2>1, <2>2, OnClientFinite
  <2>4. inflight' = [inflight EXCEPT ![client[t]] = @ - 1]
    BY <1>7, ZenonT(60) DEF Leave
  <2>5. \A c \in Clients : inflight'[c] = IF client[t] = c THEN inflight[c] - 1
                                          ELSE inflight[c]
    BY <1>3, <2>4, ZenonT(60)
  <2> QED
    BY <1>1, <1>3, <2>2, <2>3, <2>4, <2>5
<1>8. ASSUME NEW t \in Tasks, pc[t] = "reconnect", UNCHANGED <<inflight, client>>,
             \E s \in Steps \ {"rpc"} : pc' = [pc EXCEPT ![t] = s]
      PROVE  /\ \A c \in Clients : inflight'[c] = Cardinality(OnClient(c)')
             /\ inflight' \in [Clients -> Int]
  <2>1. \A c \in Clients : t \notin OnClient(c)
    BY <1>8, ZenonT(60) DEF OnClient
  <2>2. PICK s \in Steps \ {"rpc"} : pc' = [pc EXCEPT ![t] = s]
    BY <1>8, ZenonT(60)
  <2>3. \A c \in Clients : OnClient(c)' = OnClient(c) \/ OnClient(c)' = OnClient(c) \ {t}
    BY <1>5, <1>8, <2>2, ZenonT(60)
  <2>4. \A c \in Clients : OnClient(c)' = OnClient(c)
    BY <2>1, <2>3, ZenonT(60)
  <2> QED
    BY <1>4, <1>8, <2>4, ZenonT(60)
<1>9. ASSUME NEW t \in Tasks, NEW id, NEW dirs, Call(t, id, dirs)
      PROVE  /\ \A c \in Clients : inflight'[c] = Cardinality(OnClient(c)')
             /\ inflight' \in [Clients -> Int]
  <2>1. /\ pc[t] \in {"idle", "ok"} /\ pc' = [pc EXCEPT ![t] = "send"]
        /\ \E c \in pick : client' = [client EXCEPT ![t] = c]
        /\ UNCHANGED inflight
    BY <1>9, ZenonT(60) DEF Call, Goto, Idle
  <2>2. \A c \in Clients : OnClient(c)' = OnClient(c)
    BY <1>3, <2>1, ZenonT(60) DEF OnClient
  <2> QED
    BY <1>4, <2>1, <2>2, ZenonT(60)
<1>10. ASSUME UNCHANGED <<inflight, client, pc>>
       PROVE  /\ \A c \in Clients : inflight'[c] = Cardinality(OnClient(c)')
              /\ inflight' \in [Clients -> Int]
  BY <1>4, <1>10, ZenonT(60) DEF OnClient
<1>11. Failover \/ UNCHANGED vars => UNCHANGED <<inflight, client, pc>>
  BY ZenonT(60) DEF Failover, vars, pool
<1>12. \A t \in Tasks : ServeLate(t) => UNCHANGED <<inflight, client, pc>>
  BY ZenonT(60) DEF ServeLate, pool
<1> QED
  BY <1>6, <1>7, <1>8, <1>9, <1>10, <1>11, <1>12, NextCases, RpcMoves, ZenonT(60)

----------------------------------------------------------------------------
(* Operation ids and sessions *)

(* What a call leaves of the state of the other tasks, and of its own. *)
LEMMA AttemptLinks ==
  ASSUME NEW t \in Tasks, MasterTypes, NextAttempt(t) \/ Abort(t)
  PROVE  /\ \A u \in Tasks : u # t => pc'[u] = pc[u] /\ listed'[u] = listed[u]
         /\ pc'[t] \in {"idle", "reconnect"}
         /\ failed' \subseteq failed \cup {t}
         /\ pc'[t] = "idle" => t \notin failed'
<1>1. /\ pc \in [Tasks -> Steps] /\ failed \subseteq Tasks
      /\ listed \in [Tasks -> Seq(Dirs)]
  BY ZenonT(60) DEF MasterTypes
<1>2. CASE /\ failed' = IF pc[t] = "rpc" THEN failed \cup ({t} \ closed) ELSE failed
           /\ Goto(t, "reconnect") /\ UNCHANGED walk
  BY <1>1, <1>2, ZenonT(60) DEF Goto, walk
<1>3. CASE Abort(t)
  BY <1>1, <1>3, ZenonT(60) DEF Abort, Finish, Discard, Goto
<1> QED
  BY <1>2, <1>3, ZenonT(60) DEF NextAttempt

\* Every step sends a failed attempt to reconnect before it is repeated.
LEMMA SessionsStep ==
  ASSUME MasterTypes, FailedReconnects, [Next]_vars
  PROVE  FailedReconnects'
<1>1. pc \in [Tasks -> Steps] /\ failed \subseteq Tasks
  BY ZenonT(60) DEF MasterTypes
<1>2. ASSUME UNCHANGED <<pc, failed>> PROVE FailedReconnects'
  BY <1>2, ZenonT(60) DEF FailedReconnects
<1>3. Failover \/ UNCHANGED vars => UNCHANGED <<pc, failed>>
  BY ZenonT(60) DEF Failover, vars, link
<1>4. ASSUME NEW t \in Tasks, ServeLate(t) PROVE FailedReconnects'
  BY <1>2, <1>4, ZenonT(60) DEF ServeLate, link
<1>5. ASSUME NEW t \in Tasks, NEW id, NEW dirs, Call(t, id, dirs) PROVE FailedReconnects'
  BY <1>1, <1>5, ZenonT(60) DEF Call, Goto, Idle, link, FailedReconnects
<1>6. ASSUME NEW t \in Tasks, Send(t) PROVE FailedReconnects'
  BY <1>1, <1>6, ZenonT(60) DEF Send, Goto, link, FailedReconnects
<1>7. ASSUME NEW t \in Tasks, NextAttempt(t) \/ Abort(t) PROVE FailedReconnects'
  BY <1>1, <1>7, AttemptLinks DEF FailedReconnects
<1>8. ASSUME NEW t \in Tasks, Reply(t) PROVE FailedReconnects'
  BY <1>1, <1>8, ZenonT(60) DEF Reply, Return, ListNext, Finish, Goto, FailedReconnects
<1>9. ASSUME NEW t \in Tasks, Reconnect(t) PROVE FailedReconnects'
  <2>1. /\ pc' = [pc EXCEPT ![t] = "send"]
        /\ failed' = {s \in failed : client[s] # client[t]}
    BY <1>9, ZenonT(60) DEF Reconnect, Publish, Goto
  <2> QED
    BY <1>1, <2>1, ZenonT(60) DEF FailedReconnects
<1> QED
  BY <1>2, <1>3, <1>4, <1>5, <1>6, <1>7, <1>8, <1>9, NextCases, ZenonT(60)
  DEF FailRetriable, TimeOut, FailFatal, ReconnectFails, Cancel

(* One task's part of JournalExact. *)
JournalOf(t) ==
    /\ op_id[t] \in {0, 1}
    /\ op_id[t] # 0 => \/ applied[t] = 0 /\ journal[t] = {}
                       \/ applied[t] = 1 /\ journal[t] = {1}
    /\ t \in late => op_id[t] # 0
    /\ pc[t] = "ok" /\ listed[t] = <<>> => applied[t] >= 1

(* The primary executes a call once, and has done so afterwards. *)
LEMMA ExecuteOnce ==
  ASSUME NEW t \in Tasks, MasterTypes, JournalExact, Execute(t)
  PROVE  /\ \A u \in Tasks : u # t => applied'[u] = applied[u] /\ journal'[u] = journal[u]
         /\ applied'[t] >= 1
         /\ op_id[t] # 0 => applied'[t] = 1 /\ journal'[t] = {1}
<1>1. /\ applied \in [Tasks -> Nat] /\ journal \in [Tasks -> SUBSET Nat]
      /\ applied[t] \in Nat /\ op_id[t] \in {0, 1}
      /\ op_id[t] # 0 => \/ applied[t] = 0 /\ journal[t] = {}
                         \/ applied[t] = 1 /\ journal[t] = {1}
  BY ZenonT(60) DEF MasterTypes, JournalExact
<1>2. CASE op_id[t] # 0 /\ op_id[t] \in journal[t]
  BY <1>1, <1>2 DEF Execute
<1>3. CASE ~(op_id[t] # 0 /\ op_id[t] \in journal[t])
  <2>1. /\ journal' = [journal EXCEPT ![t] = @ \cup ({op_id[t]} \ {0})]
        /\ applied' = [applied EXCEPT ![t] = IF op_id[t] = 0 THEN 1 ELSE @ + 1]
    BY <1>3, ZenonT(60) DEF Execute
  <2>2. op_id[t] # 0 => applied[t] = 0 /\ journal[t] = {} /\ op_id[t] = 1
    BY <1>1, <1>3, ZenonT(60)
  <2>3. applied'[t] = IF op_id[t] = 0 THEN 1 ELSE applied[t] + 1
    BY <1>1, <2>1, ZenonT(60)
  <2>4. journal'[t] = journal[t] \cup ({op_id[t]} \ {0})
    BY <1>1, <2>1, ZenonT(60)
  <2> QED
    BY <1>1, <2>1, <2>2, <2>3, <2>4
<1> QED
  BY <1>2, <1>3, ZenonT(60)

\* Every step keeps the journal of the master exact.
LEMMA JournalStep ==
  ASSUME MasterTypes, JournalExact, [Next]_vars
  PROVE  JournalExact'
<1>1. /\ pc \in [Tasks -> Steps] /\ op_id \in [Tasks -> Nat] /\ applied \in [Tasks -> Nat]
      /\ journal \in [Tasks -> SUBSET Nat] /\ late \subseteq Tasks
      /\ listed \in [Tasks -> Seq(Dirs)]
  BY ZenonT(60) DEF MasterTypes
<1>2. \A t \in Tasks : JournalOf(t)
  BY ZenonT(60) DEF JournalExact, JournalOf
<1>3. SUFFICES \A t \in Tasks : JournalOf(t)'
  BY ZenonT(60) DEF JournalExact, JournalOf
<1>4. ASSUME NEW t \in Tasks, pc'[t] = pc[t] \/ pc'[t] # "ok",
             listed'[t] = listed[t] \/ pc'[t] # "ok",
             t \in late' => t \in late \/ op_id[t] # 0,
             op_id'[t] = op_id[t], applied'[t] = applied[t], journal'[t] = journal[t]
      PROVE  JournalOf(t)'
  BY <1>2, <1>4, ZenonT(60) DEF JournalOf
<1>5. Failover \/ UNCHANGED vars => \A t \in Tasks : JournalOf(t)'
  BY <1>4, ZenonT(60) DEF Failover, vars, world, walk
<1>6. ASSUME NEW t \in Tasks, NEW id \in {0, 1}, NEW dirs, Call(t, id, dirs)
      PROVE  \A u \in Tasks : JournalOf(u)'
  <2>1. /\ op_id' = [op_id EXCEPT ![t] = id] /\ listed' = [listed EXCEPT ![t] = <<>>]
        /\ journal' = [journal EXCEPT ![t] = {}] /\ late' = late \ {t}
        /\ applied' = [applied EXCEPT ![t] = 0] /\ pc' = [pc EXCEPT ![t] = "send"]
    BY <1>6, ZenonT(60) DEF Call, Goto
  <2>2. JournalOf(t)'
    BY <1>1, <2>1, ZenonT(60) DEF JournalOf
  <2>3. ASSUME NEW u \in Tasks, u # t PROVE JournalOf(u)'
    BY <1>1, <1>4, <2>1, <2>3, ZenonT(60)
  <2> QED
    BY <2>2, <2>3, ZenonT(60)
<1>7. ASSUME NEW t \in Tasks, Send(t) \/ Reconnect(t)
      PROVE  \A u \in Tasks : JournalOf(u)'
  <2>1. /\ UNCHANGED <<op_id, applied, journal, late, listed>>
        /\ \E s \in {"rpc", "send"} : pc' = [pc EXCEPT ![t] = s]
    BY <1>7, ZenonT(60) DEF Send, Reconnect, Goto, world, walk
  <2> QED
    BY <1>1, <1>4, <2>1, ZenonT(60)
<1>8. ASSUME NEW t \in Tasks, UNCHANGED <<op_id, applied, journal>>,
             NextAttempt(t) \/ Abort(t),
             \A u \in late' : u \in late \/ op_id[u] # 0
      PROVE  \A u \in Tasks : JournalOf(u)'
  <2>1. JournalOf(t)'
    BY <1>4, <1>8, AttemptLinks, ZenonT(60)
  <2>2. ASSUME NEW u \in Tasks, u # t PROVE JournalOf(u)'
    BY <1>4, <1>8, <2>2, AttemptLinks, ZenonT(60)
  <2> QED
    BY <2>1, <2>2, ZenonT(60)
<1>9. ASSUME NEW t \in Tasks,
             FailRetriable(t) \/ FailFatal(t) \/ ReconnectFails(t) \/ Cancel(t)
      PROVE  \A u \in Tasks : JournalOf(u)'
  BY <1>8, <1>9, ZenonT(60) DEF FailRetriable, FailFatal, ReconnectFails, Cancel, world
<1>10. ASSUME NEW t \in Tasks, TimeOut(t) PROVE \A u \in Tasks : JournalOf(u)'
  <2>2. \A u \in late' : u \in late \/ op_id[u] # 0
    BY <1>10, ZenonT(60) DEF TimeOut
  <2> QED
    BY <1>8, <1>10, <2>2, ZenonT(60) DEF TimeOut
<1>11. ASSUME NEW t \in Tasks, ServeLate(t) PROVE \A u \in Tasks : JournalOf(u)'
  <2>1. /\ UNCHANGED <<op_id, pc, listed>> /\ late' = late \ {t} /\ t \in late
        /\ Execute(t)
    BY <1>11, ZenonT(60) DEF ServeLate, walk
  <2>2. JournalOf(t)'
    BY <1>1, <1>2, <2>1, ExecuteOnce, ZenonT(60) DEF JournalOf
  <2>3. ASSUME NEW u \in Tasks, u # t PROVE JournalOf(u)'
    BY <1>1, <1>4, <2>1, <2>3, ExecuteOnce, ZenonT(60)
  <2> QED
    BY <2>2, <2>3, ZenonT(60)
<1>12. ASSUME NEW t \in Tasks, Reply(t) PROVE \A u \in Tasks : JournalOf(u)'
  <2>1. /\ UNCHANGED <<op_id, late>> /\ Execute(t)
        /\ \A u \in Tasks : u # t => pc'[u] = pc[u] /\ listed'[u] = listed[u]
    BY <1>1, <1>12, ZenonT(60) DEF Reply, Return, ListNext, Finish, Goto, walk
  <2>2. JournalOf(t)'
    BY <1>1, <1>2, <2>1, ExecuteOnce, ZenonT(60) DEF JournalOf
  <2>3. ASSUME NEW u \in Tasks, u # t PROVE JournalOf(u)'
    BY <1>1, <1>4, <2>1, <2>3, ExecuteOnce, ZenonT(60)
  <2> QED
    BY <2>2, <2>3, ZenonT(60)
<1> QED
  BY <1>5, <1>6, <1>7, <1>9, <1>10, <1>11, <1>12, NextCases, ZenonT(60)

----------------------------------------------------------------------------
(* The walk of a recursive listing *)

(* SetToSeq orders a finite set: every element comes once. *)
LEMMA Ordered ==
  ASSUME NEW S, IsFiniteSet(S)
  PROVE  /\ SetToSeq(S) \in Seq(S) /\ IsInjective(SetToSeq(S))
         /\ ToSet(SetToSeq(S)) = S
<1> DEFINE n == Cardinality(S)
<1>1. n \in Nat /\ ExistsBijection(1 .. n, S)
  BY FS_CardinalityType, ZenonT(60)
<1>2. \E f \in [1 .. n -> S] : IsInjective(f)
  BY <1>1, ZenonT(60) DEF ExistsBijection, Bijection, Injection
<1>3. SetToSeq(S) \in [1 .. n -> S] /\ IsInjective(SetToSeq(S))
  BY <1>2, ZenonT(60) DEF SetToSeq
<1>4. SetToSeq(S) \in Injection(1 .. n, S)
  BY <1>3, ZenonT(60) DEF Injection
<1>5. Cardinality(1 .. n) = Cardinality(S)
  BY <1>1, FS_Interval
<1>6. SetToSeq(S) \in Surjection(1 .. n, S)
  BY <1>4, <1>5, FS_Injection, ZenonT(60)
<1>7. ToSet(SetToSeq(S)) = S
  BY <1>3, <1>6, ZenonT(60) DEF Surjection, ToSet
<1>8. SetToSeq(S) \in Seq(S)
  BY <1>1, <1>3
<1> QED
  BY <1>3, <1>7, <1>8, ZenonT(60)

(* The elements of a concatenation. *)
LEMMA Joined ==
  ASSUME NEW S, NEW s \in Seq(S), NEW u \in Seq(S)
  PROVE  /\ s \o u \in Seq(S)
         /\ ToSet(s \o u) = ToSet(s) \cup ToSet(u)
         /\ IsInjective(s) /\ IsInjective(u) /\ ToSet(s) \cap ToSet(u) = {} =>
              IsInjective(s \o u)
         /\ IsInjective(s \o u) => IsInjective(s)
<1>1. /\ s \o u \in Seq(S) /\ Len(s \o u) = Len(s) + Len(u)
      /\ Len(s) \in Nat /\ Len(u) \in Nat
      /\ DOMAIN (s \o u) = 1 .. Len(s) + Len(u) /\ DOMAIN s = 1 .. Len(s)
      /\ DOMAIN u = 1 .. Len(u)
  BY ConcatProperties, LenProperties
<1>2. /\ \A i \in 1 .. Len(s) : i \in 1 .. Len(s) + Len(u) /\ (s \o u)[i] = s[i]
      /\ \A i \in 1 .. Len(u) : /\ Len(s) + i \in 1 .. Len(s) + Len(u)
                                /\ (s \o u)[Len(s) + i] = u[i]
  BY <1>1, ConcatProperties
<1>3. \A i \in 1 .. Len(s) + Len(u) :
        i \in 1 .. Len(s) \/ \E j \in 1 .. Len(u) : i = Len(s) + j
  <2> TAKE i \in 1 .. Len(s) + Len(u)
  <2>1. CASE i > Len(s)
    <3>1. i - Len(s) \in 1 .. Len(u) /\ i = Len(s) + (i - Len(s))
      BY <1>1, <2>1
    <3> QED
      BY <3>1, ZenonT(60)
  <2> QED
    BY <1>1, <2>1
<1>4. ToSet(s \o u) = ToSet(s) \cup ToSet(u)
  <2>1. ASSUME NEW x \in ToSet(s \o u) PROVE x \in ToSet(s) \cup ToSet(u)
    <3>1. PICK i \in 1 .. Len(s) + Len(u) : x = (s \o u)[i]
      BY <1>1, ZenonT(60) DEF ToSet
    <3>2. CASE i \in 1 .. Len(s)
      BY <1>1, <1>2, <3>1, <3>2, ZenonT(60) DEF ToSet
    <3>3. ASSUME NEW j \in 1 .. Len(u), i = Len(s) + j PROVE x \in ToSet(u)
      <4>1. x = u[j]
        BY <1>2, <3>1, <3>3, ZenonT(60)
      <4> QED
        BY <1>1, <4>1, ZenonT(60) DEF ToSet
    <3> QED
      BY <1>3, <3>2, <3>3, ZenonT(60)
  <2>2. ASSUME NEW x \in ToSet(s) PROVE x \in ToSet(s \o u)
    BY <1>1, <1>2, ZenonT(60) DEF ToSet
  <2>3. ASSUME NEW x \in ToSet(u) PROVE x \in ToSet(s \o u)
    <3>1. PICK i \in 1 .. Len(u) : x = u[i]
      BY <1>1, ZenonT(60) DEF ToSet
    <3>2. Len(s) + i \in 1 .. Len(s) + Len(u) /\ x = (s \o u)[Len(s) + i]
      BY <1>2, <3>1, ZenonT(60)
    <3> QED
      BY <1>1, <3>2, ZenonT(60) DEF ToSet
  <2> QED
    BY <2>1, <2>2, <2>3, ZenonT(60)
<1>5. ASSUME IsInjective(s), IsInjective(u), ToSet(s) \cap ToSet(u) = {}
      PROVE  IsInjective(s \o u)
  <2> SUFFICES ASSUME NEW a \in 1 .. Len(s) + Len(u), NEW b \in 1 .. Len(s) + Len(u),
                      (s \o u)[a] = (s \o u)[b]
               PROVE  a = b
    BY <1>1, ZenonT(60) DEF IsInjective
  <2>1. ASSUME NEW i \in 1 .. Len(s), NEW j \in 1 .. Len(u) PROVE s[i] # u[j]
    <3>1. s[i] \in ToSet(s) /\ u[j] \in ToSet(u)
      BY <1>1, ZenonT(60) DEF ToSet
    <3> QED
      BY <1>5, <3>1, ZenonT(60)
  <2>2. ASSUME a \in 1 .. Len(s), b \in 1 .. Len(s) PROVE a = b
    BY <1>1, <1>2, <1>5, <2>2, ZenonT(60) DEF IsInjective
  <2>3. ASSUME NEW i \in 1 .. Len(u), NEW j \in 1 .. Len(u), a = Len(s) + i, b = Len(s) + j
        PROVE  a = b
    <3>1. u[i] = u[j]
      BY <1>2, <2>3, ZenonT(60)
    <3> QED
      BY <1>1, <1>5, <2>3, <3>1, ZenonT(60) DEF IsInjective
  <2>4. ~(a \in 1 .. Len(s) /\ \E j \in 1 .. Len(u) : b = Len(s) + j)
    BY <1>2, <2>1
  <2>5. ~(b \in 1 .. Len(s) /\ \E j \in 1 .. Len(u) : a = Len(s) + j)
    BY <1>2, <2>1
  <2> QED
    BY <1>3, <2>2, <2>3, <2>4, <2>5, ZenonT(60)
<1>6. IsInjective(s \o u) => IsInjective(s)
  BY <1>1, <1>2, ZenonT(60) DEF IsInjective
<1> QED
  BY <1>1, <1>4, <1>5, <1>6, ZenonT(60)

\* Concatenation of three sequences.
LEMMA Associative ==
  ASSUME NEW S
  PROVE  \A x, y, z \in Seq(S) : (x \o y) \o z = x \o (y \o z)
  BY ConcatAssociative
LEMMA AssociativeTo ==
  ASSUME NEW S, NEW z \in Seq(S)
  PROVE  \A x, y \in Seq(S) : (x \o y) \o z = x \o (y \o z)
  BY Associative

(* The head of the queue moves to the end of what is listed. *)
LEMMA Moved ==
  ASSUME NEW S, NEW l \in Seq(S), NEW q \in Seq(S), NEW e \in Seq(S), q # <<>>
  PROVE  /\ Append(l, Head(q)) \in Seq(S) /\ Tail(q) \o e \in Seq(S)
         /\ Append(l, Head(q)) \o (Tail(q) \o e) = (l \o q) \o e
         /\ ToSet(Append(l, Head(q))) = ToSet(l) \cup {Head(q)}
         /\ Head(q) \in ToSet(q)
<1>1. /\ Head(q) \in S /\ Tail(q) \in Seq(S) /\ Len(Tail(q)) = Len(q) - 1
      /\ Head(q) = q[1] /\ Len(q) \in Nat /\ Len(q) >= 1 /\ Len(l) \in Nat /\ Len(e) \in Nat
      /\ \A i \in 1 .. Len(q) - 1 : Tail(q)[i] = q[i + 1]
  BY HeadTailProperties, LenProperties, EmptySeq
<1>2. /\ Append(l, Head(q)) \in Seq(S) /\ Len(Append(l, Head(q))) = Len(l) + 1
      /\ Append(l, Head(q))[Len(l) + 1] = Head(q)
      /\ \A i \in 1 .. Len(l) : Append(l, Head(q))[i] = l[i]
      /\ DOMAIN Append(l, Head(q)) = 1 .. Len(l) + 1 /\ DOMAIN l = 1 .. Len(l)
  BY <1>1, AppendProperties, LenProperties
<1> DEFINE a == Append(l, Head(q)) \o Tail(q)
           b == l \o q
<1>3. a \in Seq(S) /\ b \in Seq(S) /\ Len(a) = Len(l) + Len(q) /\ Len(b) = Len(l) + Len(q)
  BY <1>1, <1>2, ConcatProperties
<1>4. \A i \in 1 .. Len(a) : a[i] = b[i]
  <2> SUFFICES ASSUME NEW i \in 1 .. Len(l) + Len(q) PROVE a[i] = b[i]
    BY <1>3, ZenonT(60)
  <2>1. b[i] = IF i <= Len(l) THEN l[i] ELSE q[i - Len(l)]
    BY ConcatProperties, ZenonT(60)
  <2>2. a[i] = IF i <= Len(l) + 1 THEN Append(l, Head(q))[i] ELSE Tail(q)[i - (Len(l) + 1)]
    <3>1. i \in 1 .. Len(Append(l, Head(q))) + Len(Tail(q))
      BY <1>1, <1>2
    <3> QED
      BY <1>1, <1>2, <3>1, ConcatProperties
  <2>3. CASE i <= Len(l)
    BY <1>1, <1>2, <2>1, <2>2, <2>3
  <2>4. CASE i = Len(l) + 1
    <3>1. i - Len(l) = 1
      BY <1>1, <2>4
    <3> QED
      BY <1>1, <1>2, <2>1, <2>2, <2>4, <3>1
  <2>5. CASE i > Len(l) + 1
    <3>1. i - (Len(l) + 1) \in 1 .. Len(q) - 1 /\ i - (Len(l) + 1) + 1 = i - Len(l)
      BY <1>1, <2>5
    <3> QED
      BY <1>1, <2>1, <2>2, <2>5, <3>1
  <2> QED
    BY <1>1, <2>3, <2>4, <2>5
<1>5. a = b
  BY <1>3, <1>4, SeqEqual, ZenonT(60)
<1>6. Append(l, Head(q)) \o (Tail(q) \o e) = a \o e
  <2>1. Append(l, Head(q)) \in Seq(S) /\ Tail(q) \in Seq(S)
    BY <1>1, <1>2, ZenonT(60)
  <2>2. \A x, y \in Seq(S) : (x \o y) \o e = x \o (y \o e)
    BY AssociativeTo, ZenonT(60)
  <2> QED
    BY <2>1, <2>2, Zenon
<1>7. ToSet(Append(l, Head(q))) = ToSet(l) \cup {Head(q)}
  <2>1. \A i \in 1 .. Len(l) + 1 : i \in 1 .. Len(l) \/ i = Len(l) + 1
    BY <1>1
  <2>2. Len(l) + 1 \in 1 .. Len(l) + 1 /\ \A i \in 1 .. Len(l) : i \in 1 .. Len(l) + 1
    BY <1>1
  <2> QED
    BY <1>2, <2>1, <2>2, ZenonT(60) DEF ToSet
<1>8. Head(q) \in ToSet(q)
  <2>1. 1 \in 1 .. Len(q) /\ DOMAIN q = 1 .. Len(q)
    BY <1>1, LenProperties
  <2> QED
    BY <1>1, <2>1, ZenonT(60) DEF ToSet
<1>9. Tail(q) \o e \in Seq(S)
  BY <1>1, ConcatProperties, ZenonT(60)
<1> QED
  BY <1>2, <1>5, <1>6, <1>7, <1>8, <1>9, ZenonT(60)

(* A walk that begins, and one that goes on with the head of its queue. *)
LEMMA WalkBegins ==
    /\ WalkOK(<<>>, <<>>, {}) /\ WalkOK(<<>>, <<Root>>, ToSet(<<Root>>))
    /\ ToSet(<<Root>>) = {Root} /\ ToSet(<<>>) = {}
<1>1. ToSet(<<>>) = {} /\ ToSet(<<Root>>) = {Root} /\ IsInjective(<<>>)
      /\ IsInjective(<<Root>>)
  BY DEF ToSet, IsInjective
<1>2. <<>> \o <<>> = <<>> /\ <<>> \o <<Root>> = <<Root>> /\ <<Root>> # <<>>
  <2>1. <<>> \in Seq(Dirs) /\ <<Root>> \in Seq(Dirs)
    BY Constants
  <2> QED
    BY <2>1, ConcatEmptySeq, ZenonT(60)
<1>3. Root \in Below
  BY Constants, ZenonT(60) DEF Below, Whole, Dirs
<1> QED
  BY <1>1, <1>2, <1>3, ZenonT(60) DEF WalkOK

\* Listing one directory keeps the walk sound: what it adds was not seen
\* before.
LEMMA WalkMoves ==
  ASSUME NEW l \in Seq(Dirs), NEW q \in Seq(Dirs), NEW v, q # <<>>, WalkOK(l, q, v),
         NEW dirs, dirs = Listing[Head(q)] \ ({Head(q)} \cup v),
         NEW rest, rest = Tail(q) \o SetToSeq(dirs)
  PROVE  /\ dirs \subseteq Dirs /\ rest \in Seq(Dirs) /\ Append(l, Head(q)) \in Seq(Dirs)
         /\ WalkOK(Append(l, Head(q)), rest, IF rest = <<>> THEN {} ELSE v \cup dirs)
<1> DEFINE e == SetToSeq(dirs)
           met == l \o q
<1>1. Head(q) \in Dirs /\ Listing[Head(q)] \subseteq Dirs
  BY Constants, HeadTailProperties, ZenonT(60)
<1>2. dirs \subseteq Dirs /\ IsFiniteSet(dirs)
  BY <1>1, Constants, FS_Subset, ZenonT(60)
<1>3. e \in Seq(dirs) /\ IsInjective(e) /\ ToSet(e) = dirs
  BY <1>2, Ordered, Zenon
<1> HIDE DEF e, met
<1>4. e \in Seq(Dirs)
  BY <1>2, <1>3, SeqMonotonic, ZenonT(60)
<1>5. /\ Append(l, Head(q)) \in Seq(Dirs) /\ rest \in Seq(Dirs)
      /\ Append(l, Head(q)) \o rest = met \o e
      /\ ToSet(Append(l, Head(q))) = ToSet(l) \cup {Head(q)}
      /\ Head(q) \in ToSet(q)
  <2>1. Tail(q) \o e = rest
    BY ZenonT(60) DEF e
  <2>2. /\ Append(l, Head(q)) \in Seq(Dirs) /\ Tail(q) \o e \in Seq(Dirs)
        /\ Append(l, Head(q)) \o (Tail(q) \o e) = (l \o q) \o e
        /\ ToSet(Append(l, Head(q))) = ToSet(l) \cup {Head(q)}
        /\ Head(q) \in ToSet(q)
    BY <1>4, Moved, Zenon
  <2> QED
    BY <2>1, <2>2, Zenon DEF met
<1>6. /\ met \in Seq(Dirs) /\ ToSet(met) = ToSet(l) \cup ToSet(q)
  BY Joined DEF met
<1>7. /\ IsInjective(met) /\ ToSet(met) \subseteq Below /\ Root \in ToSet(met)
      /\ \A d \in ToSet(l) : Listing[d] \subseteq ToSet(met)
      /\ v = ToSet(met)
  <2>1. met # <<>>
    BY ConcatEqualIffEmpty DEF met
  <2> QED
    BY <2>1, ZenonT(60) DEF WalkOK, met
<1>8. ToSet(met \o e) = ToSet(met) \cup dirs
  BY <1>3, <1>4, <1>6, Joined
<1>9. ToSet(met) \cap ToSet(e) = {}
  BY <1>3, <1>7, ZenonT(60)
<1>10. IsInjective(met \o e)
  BY <1>3, <1>4, <1>6, <1>7, <1>9, Joined, ZenonT(60)
<1>11. dirs \subseteq Below
  <2>1. Head(q) \in Below
    BY <1>5, <1>6, <1>7, ZenonT(60)
  <2>2. \A d \in Listing[Head(q)] : d \in Below
    BY <1>1, <2>1, Zenon DEF Below, Whole, Dirs
  <2> QED
    BY <2>2, ZenonT(60)
<1>12. Listing[Head(q)] \subseteq ToSet(met) \cup dirs
  BY <1>5, <1>6, <1>7, ZenonT(60)
<1>13. WalkOK(Append(l, Head(q)), rest, IF rest = <<>> THEN {} ELSE v \cup dirs)
  <2>1. ToSet(Append(l, Head(q)) \o rest) = ToSet(met) \cup dirs
    BY <1>5, <1>8, Zenon
  <2>2. IsInjective(Append(l, Head(q)) \o rest)
    BY <1>5, <1>10, Zenon
  <2>3. \A d \in ToSet(Append(l, Head(q))) : Listing[d] \subseteq ToSet(met) \cup dirs
    BY <1>5, <1>7, <1>12, Zenon
  <2> QED
    BY <1>7, <1>11, <2>1, <2>2, <2>3, Zenon DEF WalkOK
<1> QED
  BY <1>2, <1>5, <1>13, ZenonT(60)

\* Every step keeps every walk sound.
LEMMA WalkStep ==
  ASSUME MasterTypes, WalkSound, [Next]_vars
  PROVE  /\ WalkSound' /\ visited' \in [Tasks -> SUBSET Dirs]
         /\ queue' \in [Tasks -> Seq(Dirs)] /\ listed' \in [Tasks -> Seq(Dirs)]
<1>1. /\ pc \in [Tasks -> Steps] /\ visited \in [Tasks -> SUBSET Dirs]
      /\ queue \in [Tasks -> Seq(Dirs)] /\ listed \in [Tasks -> Seq(Dirs)]
  BY ZenonT(60) DEF MasterTypes
<1> DEFINE Goal == /\ WalkSound' /\ visited' \in [Tasks -> SUBSET Dirs]
                   /\ queue' \in [Tasks -> Seq(Dirs)] /\ listed' \in [Tasks -> Seq(Dirs)]
<1>2. ASSUME NEW t \in Tasks, NEW l \in Seq(Dirs), NEW q \in Seq(Dirs),
             NEW v \in SUBSET Dirs, NEW s, WalkOK(l, q, v), s = "ok" => q = <<>>,
             listed' = [listed EXCEPT ![t] = l], queue' = [queue EXCEPT ![t] = q],
             visited' = [visited EXCEPT ![t] = v], pc' = [pc EXCEPT ![t] = s]
      PROVE  Goal
  <2>1. ASSUME NEW u \in Tasks
        PROVE  /\ WalkOK(listed'[u], queue'[u], visited'[u])
               /\ pc'[u] = "ok" => queue'[u] = <<>>
    <3>1. CASE u = t
      BY <1>1, <1>2, <3>1, ZenonT(60)
    <3>2. CASE u # t
      BY <1>1, <1>2, <3>2, ZenonT(60) DEF WalkSound
    <3> QED
      BY <3>1, <3>2, ZenonT(60)
  <2> QED
    BY <1>1, <1>2, <2>1, ZenonT(60) DEF WalkSound
<1>3. ASSUME UNCHANGED <<walk, pc>> PROVE Goal
  BY <1>1, <1>3, ZenonT(60) DEF walk, WalkSound
<1> HIDE DEF Goal
<1>4. ASSUME NEW t \in Tasks, UNCHANGED walk, NEW s,
             s = "ok" => queue[t] = <<>>, pc' = [pc EXCEPT ![t] = s]
      PROVE  Goal
  <2>1. /\ listed' = [listed EXCEPT ![t] = listed[t]] /\ queue' = [queue EXCEPT ![t] = queue[t]]
        /\ visited' = [visited EXCEPT ![t] = visited[t]]
    BY <1>1, <1>4, ZenonT(60) DEF walk
  <2>2. listed[t] \in Seq(Dirs) /\ queue[t] \in Seq(Dirs) /\ visited[t] \in SUBSET Dirs
        /\ WalkOK(listed[t], queue[t], visited[t])
    BY <1>1, ZenonT(60) DEF WalkSound
  <2> QED
    BY <1>2, <1>4, <2>1, <2>2, Zenon
<1>5. <<>> \in Seq(Dirs) /\ <<Root>> \in Seq(Dirs)
  BY Constants
<1>6. ASSUME NEW t \in Tasks, Abort(t) PROVE Goal
  <2>1. /\ listed' = [listed EXCEPT ![t] = <<>>] /\ queue' = [queue EXCEPT ![t] = <<>>]
        /\ visited' = [visited EXCEPT ![t] = {}] /\ pc' = [pc EXCEPT ![t] = "idle"]
    BY <1>6, ZenonT(60) DEF Abort, Discard, Finish, Goto
  <2> QED
    BY <1>2, <1>5, <2>1, WalkBegins, Zenon
<1>7. ASSUME NEW t \in Tasks, NextAttempt(t) PROVE Goal
  <2>1. CASE Goto(t, "reconnect") /\ UNCHANGED walk
    BY <1>4, <2>1, Zenon DEF Goto
  <2> QED
    BY <1>6, <1>7, <2>1, ZenonT(60) DEF NextAttempt
<1>8. ASSUME NEW t \in Tasks, NEW id, NEW dirs \in {<<>>, <<Root>>}, Call(t, id, dirs)
      PROVE  Goal
  <2>1. /\ listed' = [listed EXCEPT ![t] = <<>>] /\ queue' = [queue EXCEPT ![t] = dirs]
        /\ visited' = [visited EXCEPT ![t] = ToSet(dirs)] /\ pc' = [pc EXCEPT ![t] = "send"]
    BY <1>8, ZenonT(60) DEF Call, Goto
  <2>2. ToSet(dirs) \in SUBSET Dirs /\ dirs \in Seq(Dirs) /\ WalkOK(<<>>, dirs, ToSet(dirs))
    <3>1. CASE dirs = <<>>
      BY <1>5, <3>1, WalkBegins, ZenonT(60)
    <3>2. CASE dirs = <<Root>>
      <4>1. {Root} \in SUBSET Dirs
        BY Constants, ZenonT(60)
      <4> QED
        BY <1>5, <3>2, <4>1, WalkBegins, Zenon
    <3> QED
      BY <3>1, <3>2, ZenonT(60)
  <2> QED
    BY <1>2, <1>5, <2>1, <2>2, Zenon
<1>9. ASSUME NEW t \in Tasks, Send(t) \/ Reconnect(t) PROVE Goal
  BY <1>4, <1>9, Zenon DEF Send, Reconnect, Goto
<1>10. ASSUME NEW t \in Tasks, Return(t) PROVE Goal
  BY <1>4, <1>10, Zenon DEF Return, Finish, Goto
<1>11. ASSUME NEW t \in Tasks, ListNext(t) PROVE Goal
  <2> DEFINE q == queue[t]
             dirs == NewDirs(t, Head(q))
             rest == Tail(q) \o SetToSeq(dirs)
             v == IF rest = <<>> THEN {} ELSE visited[t] \cup dirs
             s == IF rest = <<>> THEN "ok" ELSE "send"
  <2>1. /\ q # <<>> /\ queue' = [queue EXCEPT ![t] = rest]
        /\ visited' = [visited EXCEPT ![t] = v]
        /\ listed' = [listed EXCEPT ![t] = Append(listed[t], Head(q))]
        /\ pc' = [pc EXCEPT ![t] = s]
    BY <1>11, ZenonT(60) DEF ListNext, Finish, Goto
  <2>2. /\ listed[t] \in Seq(Dirs) /\ q \in Seq(Dirs) /\ visited[t] \in SUBSET Dirs
        /\ WalkOK(listed[t], q, visited[t])
    BY <1>1, ZenonT(60) DEF WalkSound
  <2>3. dirs = Listing[Head(q)] \ ({Head(q)} \cup visited[t])
    BY ZenonT(60) DEF NewDirs
  <2>4. /\ dirs \subseteq Dirs /\ rest \in Seq(Dirs) /\ Append(listed[t], Head(q)) \in Seq(Dirs)
        /\ WalkOK(Append(listed[t], Head(q)), rest, v)
    <3>1. rest = Tail(q) \o SetToSeq(dirs) /\ q # <<>>
      BY <2>1, ZenonT(60)
    <3>2. v = IF rest = <<>> THEN {} ELSE visited[t] \cup dirs
      BY ZenonT(60)
    <3> HIDE DEF dirs, q, rest, v
    <3>3. /\ dirs \subseteq Dirs /\ rest \in Seq(Dirs) /\ Append(listed[t], Head(q)) \in Seq(Dirs)
          /\ WalkOK(Append(listed[t], Head(q)), rest,
                    IF rest = <<>> THEN {} ELSE visited[t] \cup dirs)
      BY <2>2, <2>3, <3>1, WalkMoves, Zenon
    <3> QED
      BY <3>2, <3>3, Zenon, Zenon
  <2>5. v \in SUBSET Dirs /\ (s = "ok" => rest = <<>>)
    BY <2>2, <2>4, ZenonT(60)
  <2> HIDE DEF q, dirs, rest, v, s
  <2> QED
    BY <1>2, <2>1, <2>4, <2>5, Zenon
<1>12. ASSUME NEW t \in Tasks, Reply(t) PROVE Goal
  BY <1>10, <1>11, <1>12, ZenonT(60) DEF Reply
<1>13. ASSUME NEW t \in Tasks,
              FailRetriable(t) \/ TimeOut(t) \/ FailFatal(t) \/ ReconnectFails(t) \/ Cancel(t)
       PROVE  Goal
  BY <1>6, <1>7, <1>13, ZenonT(60) DEF FailRetriable, TimeOut, FailFatal, ReconnectFails, Cancel
<1>14. ASSUME NEW t \in Tasks, ServeLate(t) PROVE Goal
  BY <1>3, <1>14, ZenonT(60) DEF ServeLate
<1>15. Failover \/ UNCHANGED vars => UNCHANGED <<walk, pc>>
  BY ZenonT(60) DEF Failover, vars
<1>16. Goal
  BY <1>3, <1>8, <1>9, <1>12, <1>13, <1>14, <1>15, NextCases, ZenonT(60)
<1> QED
  BY <1>16, ZenonT(60) DEF Goal

----------------------------------------------------------------------------
(* The pool picks one of its clients. *)
LEMMA PickIsClient ==
  ASSUME rr \in Clients, schedule \in {"RoundRobin", "P2C"}
  PROVE  pick \subseteq Clients
<1>1. Size \in Nat \ {0}
  BY Constants, ZenonT(60)
<1>2. CASE Size = 1
  BY <1>2 DEF pick, Clients
<1>3. CASE Size > 1 /\ schedule = "RoundRobin"
  BY <1>1, <1>3 DEF pick
<1>4. CASE Size > 1 /\ schedule = "P2C"
  <2>1. pick = {IF inflight[p[1]] <= inflight[p[2]] THEN p[1] ELSE p[2] :
                  p \in {q \in Clients \X Clients : q[1] # q[2]}}
    BY <1>1, <1>4 DEF pick
  <2> QED
    BY <2>1, ZenonT(60)
<1> QED
  BY <1>1, <1>2, <1>3, <1>4

(* Types, but for the counts and the listings *)
LEMMA TypesStep ==
  ASSUME MasterTypes, WalkSound, [Next]_vars
  PROVE  MasterTypes'
<1>1. /\ primary \in Masters /\ state \in [Clients -> Masters]
      /\ schedule \in {"RoundRobin", "P2C"} /\ rr \in Clients
      /\ pc \in [Tasks -> Steps] /\ client \in [Tasks -> Clients]
      /\ attempt \in [Tasks -> 0 .. 2]
      /\ closed \subseteq Tasks /\ failed \subseteq Tasks /\ late \subseteq Tasks
      /\ op_id \in [Tasks -> Nat] /\ applied \in [Tasks -> Nat]
      /\ journal \in [Tasks -> SUBSET Nat]
  BY ZenonT(60) DEF MasterTypes
<1> DEFINE World == /\ applied' \in [Tasks -> Nat] /\ journal' \in [Tasks -> SUBSET Nat]
                    /\ late' \subseteq Tasks /\ op_id' \in [Tasks -> Nat]
           Pool == /\ primary' \in Masters /\ state' \in [Clients -> Masters]
                   /\ schedule' \in {"RoundRobin", "P2C"} /\ rr' \in Clients
                   /\ client' \in [Tasks -> Clients]
           Loop == /\ pc' \in [Tasks -> Steps] /\ attempt' \in [Tasks -> 0 .. 2]
                   /\ closed' \subseteq Tasks /\ failed' \subseteq Tasks
<1>2. ASSUME UNCHANGED <<world, op_id>> PROVE World
  BY <1>1, <1>2, ZenonT(60) DEF world
<1>3. ASSUME UNCHANGED <<primary, state, schedule, rr, client>> PROVE Pool
  BY <1>1, <1>3, ZenonT(60)
<1>4. ASSUME UNCHANGED <<pc, attempt, link>> PROVE Loop
  BY <1>1, <1>4, ZenonT(60) DEF link
<1>5. ASSUME NEW t \in Tasks, NEW s \in Steps, Finish(t, s) PROVE Loop
  BY <1>1, <1>5 DEF Finish, Goto
<1>6. ASSUME NEW t \in Tasks, NextAttempt(t) \/ Abort(t) PROVE Loop
  <2>1. CASE Abort(t)
    BY <1>5, <2>1, ZenonT(60) DEF Abort, Steps, Idle
  <2>2. CASE /\ attempt[t] < MAX_RPC_RETRIES
             /\ attempt' = [attempt EXCEPT ![t] = @ + 1]
             /\ closed' = closed \ {t}
             /\ failed' = IF pc[t] = "rpc" THEN failed \cup ({t} \ closed) ELSE failed
             /\ Goto(t, "reconnect")
    <3>1. attempt[t] + 1 \in 0 .. 2 /\ "reconnect" \in Steps
      BY <1>1, <2>2 DEF MAX_RPC_RETRIES, Steps
    <3>2. closed' \subseteq Tasks /\ failed' \subseteq Tasks
      BY <1>1, <2>2, ZenonT(60)
    <3> QED
      BY <1>1, <2>2, <3>1, <3>2, ZenonT(60) DEF Goto
  <2> QED
    BY <1>6, <2>1, <2>2, ZenonT(60) DEF NextAttempt
<1>7. ASSUME NEW t \in Tasks, Execute(t)
      PROVE  applied' \in [Tasks -> Nat] /\ journal' \in [Tasks -> SUBSET Nat]
  BY <1>1, <1>7 DEF Execute
<1> DEFINE Goal == World /\ Pool /\ Loop
<1>8. ASSUME NEW t \in Tasks, NEW id \in {0, 1}, NEW dirs, Call(t, id, dirs) PROVE Goal
  <2>1. Loop
    BY <1>1, <1>8, ZenonT(60) DEF Call, Goto, link, Steps
  <2>2. World
    BY <1>1, <1>8 DEF Call
  <2>3. client' \in [Tasks -> Clients]
    <3>1. PICK c \in pick : client' = [client EXCEPT ![t] = c]
      BY <1>8, ZenonT(60) DEF Call
    <3>2. c \in Clients
      BY <1>1, PickIsClient, ZenonT(60)
    <3> QED
      BY <1>1, <3>1, <3>2, ZenonT(60)
  <2>4. (rr + 1) % Size \in Clients
    BY <1>1, Constants DEF Clients
  <2>5. Pool
    BY <1>1, <1>8, <2>3, <2>4, ZenonT(60) DEF Call
  <2> QED
    BY <2>1, <2>2, <2>5, ZenonT(60)
<1>9. ASSUME NEW t \in Tasks, Send(t) PROVE Goal
  <2>1. Loop
    BY <1>1, <1>9, ZenonT(60) DEF Send, Goto, link, Steps
  <2> QED
    BY <1>2, <1>3, <1>9, <2>1, ZenonT(60) DEF Send
<1>10. ASSUME NEW t \in Tasks, Reply(t) PROVE Goal
  <2>1. \E s \in Steps : Finish(t, s)
    <3>1. Return(t) => Finish(t, "ok")
      BY ZenonT(60) DEF Return
    <3>2. ListNext(t) => Finish(t, "ok") \/ Finish(t, "send")
      <4> DEFINE rest == Tail(queue[t]) \o SetToSeq(NewDirs(t, Head(queue[t])))
      <4>1. ListNext(t) => Finish(t, IF rest = <<>> THEN "ok" ELSE "send")
        BY ZenonT(60) DEF ListNext
      <4> HIDE DEF rest
      <4>2. CASE rest = <<>>
        BY <4>1, <4>2, Zenon
      <4>3. CASE rest # <<>>
        BY <4>1, <4>3, Zenon
      <4> QED
        BY <4>2, <4>3, ZenonT(60)
    <3>3. "ok" \in Steps /\ "send" \in Steps
      BY ZenonT(60) DEF Steps, Idle
    <3> QED
      BY <1>10, <3>1, <3>2, <3>3, Zenon DEF Reply
  <2>2. Loop
    BY <1>5, <2>1, ZenonT(60)
  <2>3. World
    BY <1>1, <1>7, <1>10, ZenonT(60) DEF Reply
  <2> QED
    BY <1>3, <1>10, <2>2, <2>3, ZenonT(60) DEF Reply
<1>11. ASSUME NEW t \in Tasks, FailRetriable(t) \/ FailFatal(t) \/ ReconnectFails(t) \/ Cancel(t)
       PROVE  Goal
  <2>1. Loop
    BY <1>6, <1>11, ZenonT(60) DEF FailRetriable, FailFatal, ReconnectFails, Cancel
  <2>2. UNCHANGED <<world, op_id, primary, state, schedule, rr, client>>
    BY <1>11, ZenonT(60) DEF FailRetriable, FailFatal, ReconnectFails, Cancel, pool
  <2> QED
    BY <1>2, <1>3, <2>1, <2>2, ZenonT(60)
<1>12. ASSUME NEW t \in Tasks, TimeOut(t) PROVE Goal
  <2>1. Loop
    BY <1>6, <1>12, ZenonT(60) DEF TimeOut
  <2>2. World
    BY <1>1, <1>12, ZenonT(60) DEF TimeOut
  <2> QED
    BY <1>3, <1>12, <2>1, <2>2, ZenonT(60) DEF TimeOut
<1>13. ASSUME NEW t \in Tasks, Reconnect(t) PROVE Goal
  <2>1. Loop
    BY <1>1, <1>13, ZenonT(60) DEF Reconnect, Publish, Goto, Steps
  <2>2. Pool
    BY <1>1, <1>13, ZenonT(60) DEF Reconnect, Publish
  <2> QED
    BY <1>2, <1>13, <2>1, <2>2, ZenonT(60) DEF Reconnect
<1>14. ASSUME NEW t \in Tasks, ServeLate(t) PROVE Goal
  <2>1. World
    BY <1>1, <1>7, <1>14, ZenonT(60) DEF ServeLate
  <2> QED
    BY <1>3, <1>4, <1>14, <2>1, ZenonT(60) DEF ServeLate, pool
<1>15. ASSUME Failover PROVE Goal
  <2>1. Pool
    BY <1>1, <1>15, ZenonT(60) DEF Failover, pool
  <2> QED
    BY <1>2, <1>4, <1>15, <2>1, ZenonT(60) DEF Failover
<1>16. ASSUME UNCHANGED vars PROVE Goal
  BY <1>2, <1>3, <1>4, <1>16, ZenonT(60) DEF vars, pool
<1>17. Goal
  <2> HIDE DEF Goal
  <2> QED
    BY <1>8, <1>9, <1>10, <1>11, <1>12, <1>13, <1>14, <1>15, <1>16, NextCases, ZenonT(60)
<1>18. /\ visited' \in [Tasks -> SUBSET Dirs] /\ queue' \in [Tasks -> Seq(Dirs)]
       /\ listed' \in [Tasks -> Seq(Dirs)]
  BY WalkStep, ZenonT(60)
<1> QED
  BY <1>17, <1>18, ZenonT(60) DEF MasterTypes

----------------------------------------------------------------------------
(* The inductive invariant, and what it implies *)
LEMMA MasterStep == MasterInv /\ [Next]_vars => MasterInv'
<1> SUFFICES ASSUME MasterInv, [Next]_vars PROVE MasterInv'
  BY ZenonT(60)
<1>1. /\ MasterTypes /\ InflightExact /\ JournalExact /\ FailedReconnects /\ WalkSound
      /\ inflight \in [Clients -> 0 .. Cardinality(Tasks)]
  BY ZenonT(60) DEF MasterInv, TypeOK, MasterTypes, MAX_RPC_RETRIES, Dirs
<1>2. inflight \in [Clients -> Int]
  <2>1. 0 .. Cardinality(Tasks) \subseteq Int
    OBVIOUS
  <2> QED
    BY <1>1, <2>1, ZenonT(60)
<1>3. InflightExact' /\ inflight' \in [Clients -> Int]
  BY <1>1, <1>2, InflightStep, ZenonT(60)
<1>4. MasterTypes'
  BY <1>1, TypesStep, ZenonT(60)
<1>5. JournalExact' /\ FailedReconnects' /\ WalkSound'
  BY <1>1, JournalStep, SessionsStep, WalkStep, ZenonT(60)
<1>6. inflight' \in [Clients -> 0 .. Cardinality(Tasks)]
  <2>1. ASSUME NEW c \in Clients PROVE inflight'[c] \in 0 .. Cardinality(Tasks)
    <3>1. inflight'[c] = Cardinality(OnClient(c)') /\ OnClient(c)' \in SUBSET Tasks
      BY <1>3, ZenonT(60) DEF InflightExact, OnClient
    <3> QED
      BY <3>1, OnClientFinite
  <2> QED
    BY <1>3, <2>1, ZenonT(60)
<1> QED
  BY <1>3, <1>4, <1>5, <1>6, ZenonT(60) DEF MasterInv, TypeOK, MasterTypes, MAX_RPC_RETRIES, Dirs

\* No call is under way at the start.
LEMMA MasterStart == Init => MasterInv
<1> SUFFICES ASSUME Init PROVE MasterInv
  BY ZenonT(60)
<1>1. Size \in Nat \ {0} /\ Root \in Dirs /\ IsFiniteSet(Tasks)
  BY Constants, ZenonT(60)
<1>2. Cardinality({}) = 0 /\ Cardinality(Tasks) \in Nat
  BY <1>1, FS_EmptySet, FS_CardinalityType, ZenonT(60)
<1>3. InflightExact
  <2>1. \A c \in Clients : {t \in Tasks : client[t] = c /\ pc[t] = "rpc"} = {}
    BY ZenonT(60) DEF Init
  <2>2. \A c \in Clients : inflight[c] = 0
    BY ZenonT(60) DEF Init
  <2> QED
    BY <1>2, <2>1, <2>2, Zenon DEF InflightExact
<1>4. <<>> \in Seq(Dirs)
  OBVIOUS
<1>5. TypeOK
  <2>1. 0 \in Clients /\ 0 \in 0 .. Cardinality(Tasks) /\ 0 \in 0 .. 2
    BY <1>1, <1>2 DEF Clients
  <2>2. /\ primary \in Masters /\ state \in [Clients -> Masters]
        /\ schedule \in {"RoundRobin", "P2C"} /\ rr \in Clients
        /\ inflight \in [Clients -> 0 .. Cardinality(Tasks)]
        /\ client \in [Tasks -> Clients] /\ attempt \in [Tasks -> 0 .. 2]
    BY <2>1, ZenonT(60) DEF Init
  <2>3. /\ pc \in [Tasks -> Steps]
        /\ closed \subseteq Tasks /\ failed \subseteq Tasks /\ late \subseteq Tasks
        /\ op_id \in [Tasks -> Nat] /\ applied \in [Tasks -> Nat]
        /\ journal \in [Tasks -> SUBSET Nat]
    BY ZenonT(60) DEF Init, Steps, Idle
  <2>4. /\ visited \in [Tasks -> SUBSET Dirs] /\ queue \in [Tasks -> Seq(Dirs)]
        /\ listed \in [Tasks -> Seq(Dirs)]
    BY <1>4, ZenonT(60) DEF Init
  <2> QED
    BY <2>2, <2>3, <2>4, ZenonT(60) DEF TypeOK, MAX_RPC_RETRIES, Dirs
<1>6. JournalExact /\ FailedReconnects
  BY ZenonT(60) DEF Init, JournalExact, FailedReconnects
<1>7. WalkSound
  <2>1. ASSUME NEW t \in Tasks
        PROVE  listed[t] = <<>> /\ queue[t] = <<>> /\ visited[t] = {} /\ pc[t] = "idle"
    BY ZenonT(60) DEF Init
  <2> QED
    BY <2>1, WalkBegins, Zenon DEF WalkSound
<1> QED
  BY <1>3, <1>5, <1>6, <1>7, ZenonT(60) DEF MasterInv

\* The inductive invariant holds throughout.
LEMMA MasterInvariance == Spec => []MasterInv
  BY MasterStart, MasterStep, PTL DEF Spec

(* The in-flight count of every client of the pool is the number of RPCs      *)
(* under way on it, on every path out of with_retry: an answer, an error, a   *)
(* timeout, and a caller that drops its future (InflightGuard).               *)
THEOREM InflightIsExact == Spec => []InflightExact
  BY MasterInvariance, PTL DEF MasterInv

(* Whatever requests and answers are lost, repeated or late, and however      *)
(* often the masters fail over, a mutating call is applied at most once, and  *)
(* once if it returns Ok; and no retry goes out on the session its last       *)
(* attempt failed on (with_retry, reconnect).                                 *)
THEOREM RetriesAreSafe == Spec => []RetriesSafely
<1>1. MasterInv => RetriesSafely
  <2> SUFFICES ASSUME MasterInv PROVE TypeOK /\ AppliedOnce /\ RetryOnNewSession
    BY ZenonT(60) DEF RetriesSafely
  <2>1. applied \in [Tasks -> Nat]
    BY ZenonT(60) DEF MasterInv, TypeOK
  <2>2. AppliedOnce
    BY <2>1 DEF MasterInv, JournalExact, AppliedOnce
  <2>3. RetryOnNewSession
    BY ZenonT(60) DEF MasterInv, FailedReconnects, RetryOnNewSession
  <2> QED
    BY <2>2, <2>3, ZenonT(60) DEF MasterInv
<1> QED
  BY <1>1, MasterInvariance, PTL

(* list_status_bfs lists no directory twice, and when it returns Ok it has    *)
(* listed the whole tree below its root, whatever directories the listings    *)
(* echo.                                                                      *)
THEOREM ListsTheTreeOnce == Spec => []ListsTreeOnce
<1>1. MasterInv => ListsTreeOnce
  <2> SUFFICES ASSUME MasterInv, NEW t \in Tasks
               PROVE  /\ IsInjective(listed[t])
                      /\ pc[t] = "ok" /\ listed[t] # <<>> => ToSet(listed[t]) = Below
    BY ZenonT(60) DEF ListsTreeOnce
  <2>1. listed[t] \in Seq(Dirs) /\ queue[t] \in Seq(Dirs)
    BY ZenonT(60) DEF MasterInv, TypeOK, Dirs
  <2>2. WalkOK(listed[t], queue[t], visited[t]) /\ (pc[t] = "ok" => queue[t] = <<>>)
    BY ZenonT(60) DEF MasterInv, WalkSound
  <2>3. IsInjective(listed[t] \o queue[t])
    BY <2>2, ZenonT(60) DEF WalkOK
  <2>4. IsInjective(listed[t])
    BY <2>1, <2>3, Joined, ZenonT(60)
  <2>5. ASSUME pc[t] = "ok", listed[t] # <<>> PROVE ToSet(listed[t]) = Below
    <3>1. listed[t] \o queue[t] = listed[t]
      <4>1. queue[t] = <<>> /\ listed[t] \o <<>> = listed[t]
        BY <2>1, <2>2, <2>5, ConcatEmptySeq, ZenonT(60)
      <4> QED
        BY <4>1, Zenon
    <3>2. /\ ToSet(listed[t]) \subseteq Below /\ Root \in ToSet(listed[t])
          /\ \A d \in ToSet(listed[t]) : Listing[d] \subseteq ToSet(listed[t])
      <4>1. WalkOK(listed[t], queue[t], visited[t]) => 
              /\ ToSet(listed[t] \o queue[t]) \subseteq Below
              /\ listed[t] \o queue[t] # <<>> => Root \in ToSet(listed[t] \o queue[t])
              /\ \A d \in ToSet(listed[t]) : Listing[d] \subseteq ToSet(listed[t] \o queue[t])
        BY ZenonT(60) DEF WalkOK
      <4> QED
        BY <2>2, <2>5, <3>1, <4>1, Zenon
    <3>3. Whole(ToSet(listed[t])) /\ ToSet(listed[t]) \in SUBSET DOMAIN Listing
      BY <3>2, ZenonT(60) DEF Whole, Below
    <3> QED
      BY <3>2, <3>3, ZenonT(60) DEF Below
  <2> QED
    BY <2>4, <2>5, ZenonT(60)
<1> QED
  BY <1>1, MasterInvariance, PTL
=============================================================================
