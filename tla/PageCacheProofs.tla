-------------------------- MODULE PageCacheProofs --------------------------
(***************************************************************************)
(* Proofs about PageCache: the inductive invariant, lemmas about the       *)
(* operations and type correctness; the roles of the tasks, the page locks,*)
(* restore and the page files; the accounting of page files, and the       *)
(* theorems.                                                               *)
(***************************************************************************)
EXTENDS PageCache, TLAPS

\* The time limits of the provers, in seconds.
USE SMTT(30), ZenonT(60)

(* Which steps each kind of task can be at. *)
ReaderSteps == {"idle", "open_check", "open_record", "invalidate",
                "delete_next", "delete_lock", "open_update", "get_lock",
                "get_read", "expire_lock", "fetch", "put_lock"}
               \cup PutSteps \cup RemoveSteps
FillerSteps == {"idle", "put_lock"} \cup PutSteps
ReaperSteps == {"idle", "reap_index", "reap_lock", "reap_store", "reap_identity"}
RestorerSteps == {"idle", "restore", "restore_page", "restore_index"}
Roles ==
    /\ \A t \in Readers : pc[t] \in ReaderSteps
    /\ \A t \in Fillers : pc[t] \in FillerSteps
    /\ pc[Reaper] \in ReaperSteps
    /\ pc[Restorer] \in RestorerSteps

(* Past these steps a task has a page in hand. *)
PageSteps == {"delete_lock", "get_lock", "get_read", "expire_lock", "fetch",
              "put_lock", "reap_index", "reap_lock", "reap_identity",
              "restore_index"} \cup WriteSteps
PageInHand == \A t \in Tasks : pc[t] \in PageSteps => page[t] \in PageIds

TypeInv == TypeOK /\ Roles /\ PageInHand

(* The page locks exclude each other. *)
LockInv ==
    /\ \A t \in Tasks : pc[t] \in WriteSteps => writer[Stripe(t)] = t
    /\ \A t \in Tasks : pc[t] = "get_read" => t \in readers[Stripe(t)]
    /\ \A s \in Stripes : writer[s] # NoTask => readers[s] = {}

(* Restore runs before any reader, and the pages it has still to visit are *)
(* in nobody else's hands.                                                 *)
RestoreInv ==
    /\ pc[Restorer] = "idle" => todo[Restorer] = {}
    /\ pc[Restorer] # "idle" => \A t \in Readers \cup Fillers : pc[t] = "idle"
    /\ \A p \in todo[Restorer] :
         /\ p \notin resident
         /\ \A k \in 1 .. Len(queue) : queue[k] # p
         /\ pc[Reaper] # "idle" => page[Reaper] # p

(* Versions are real: what is fetched and put is never "no bytes". *)
BytesInv ==
    /\ \A f \in Files : server[f] # 0
    /\ \A t \in Readers : pc[t] # "idle" => ver[t] # 0
    /\ \A t \in Tasks : pc[t] \in {"put_lock", "put_store"} => data[t] # 0

(* A page whose file is being written or deleted is not resident. *)
AbsentInv ==
    \A t \in Tasks :
      /\ pc[t] \in RemoveSteps \cup {"put_store", "put_insert", "reap_store"}
         => page[t] \notin resident
      /\ pc[t] = "put_insert" => store[page[t]] # 0

IInv == /\ TypeInv
        /\ LockInv
        /\ RestoreInv
        /\ BytesInv
        /\ AbsentInv
        /\ ResidentBacked
        /\ HitReadable

(* The reaper, the restorer and "no task" are distinct from the callers. *)
LEMMA TaskFacts ==
    /\ \A t \in Readers \cup Fillers : t \in Tasks /\ t # Reaper /\ t # Restorer
    /\ Reaper \in Tasks /\ Restorer \in Tasks /\ Reaper # Restorer
    /\ NoTask \notin Tasks
  BY TasksAssumption, ZenonT(60) DEF Tasks

(* Version numbers: zero is one, and counting up stays in range. *)
LEMMA VerFacts ==
    0 \in Ver /\ \A v \in Ver : v + 1 # 0 /\ (v < MaxVersion => v + 1 \in Ver)
  BY BoundsAssumption DEF Ver

(* The places of a queue but the first, counted from the second. *)
LEMMA Places ==
    \A n \in Nat : \A k \in 1 .. n :
      k = 1 \/ (k - 1 \in 1 .. (n - 1) /\ (k - 1) + 1 = k)
  OBVIOUS

(* What is left of a queue when its head is taken. *)
LEMMA TailPlaces ==
  ASSUME NEW S, NEW q \in Seq(S), q # <<>>
  PROVE  /\ Len(Tail(q)) = Len(q) - 1 /\ Len(q) \in Nat /\ Head(q) = q[1]
         /\ \A j \in 1 .. Len(Tail(q)) : Tail(q)[j] = q[j + 1]
  OBVIOUS

(* A page id is a file and a page index. *)
LEMMA PageParts ==
    /\ \A p \in PageIds : p[1] \in Files /\ p[2] \in PageIdx
    /\ \A f \in Files, i \in PageIdx : <<f, i>> \in PageIds
  BY ZenonT(60) DEF PageIds

(* foyer's insert, with its eviction and on_leave, keeps the types. *)
LEMMA InsertType ==
  ASSUME SharedOK, NEW p \in PageIds, Insert(p)
  PROVE  (/\ resident \subseteq PageIds /\ expired \subseteq resident
          /\ queue \in Seq(PageIds) /\ leaked \subseteq PageIds)'
<1>1. PICK victims \in Victims(resident \cup {p}) :
        /\ resident' = (resident \cup {p}) \ victims
        /\ expired' = expired \ (victims \cup {p})
        /\ on_leave(victims)
  BY ZenonT(60) DEF Insert
<1>2. victims \subseteq PageIds
  BY DEF Victims, SharedOK
<1>3. \A v \in PageIds : Append(queue, v) \in Seq(PageIds)
  BY DEF SharedOK
<1>4. queue' \in Seq(PageIds)
  BY <1>1, <1>2, <1>3, ZenonT(60) DEF on_leave, SharedOK
<1>5. leaked' \subseteq PageIds
  BY <1>1, <1>2, ZenonT(60) DEF on_leave, SharedOK
<1> QED
  BY <1>1, <1>2, <1>4, <1>5, ZenonT(60) DEF SharedOK

(* What insert may do: one page in, victims out, each of them queued for the*)
(* reaper or counted as leaked, and nothing lost from the queue.            *)
LEMMA InsertEffect ==
  ASSUME SharedOK, NEW p \in PageIds, Insert(p)
  PROVE  /\ resident' \subseteq resident \cup {p}
         /\ \A k \in 1 .. Len(queue') :
              \/ queue'[k] \in resident \cup {p}
              \/ \E j \in 1 .. Len(queue) : queue'[k] = queue[j]
         /\ \A j \in 1 .. Len(queue) : \E k \in 1 .. Len(queue') : queue'[k] = queue[j]
         /\ leaked \subseteq leaked'
         /\ \A q \in (resident \cup {p}) \ resident' :
              q \in leaked' \/ \E k \in 1 .. Len(queue') : queue'[k] = q
<1>1. PICK victims \in Victims(resident \cup {p}) :
        /\ resident' = (resident \cup {p}) \ victims
        /\ on_leave(victims)
  BY ZenonT(60) DEF Insert
<1>2. victims \subseteq resident \cup {p} /\ \A v, w \in victims : v = w
  BY ZenonT(60) DEF Victims
<1>3. CASE queue' = queue /\ victims \subseteq leaked' /\ leaked \subseteq leaked'
  BY <1>1, <1>3, ZenonT(60)
<1>4. ASSUME NEW v \in victims, queue' = Append(queue, v), leaked' = leaked
      PROVE  /\ \A k \in 1 .. Len(queue') :
                  queue'[k] = v \/ \E j \in 1 .. Len(queue) : queue'[k] = queue[j]
             /\ \A j \in 1 .. Len(queue) : \E k \in 1 .. Len(queue') : queue'[k] = queue[j]
             /\ \E k \in 1 .. Len(queue') : queue'[k] = v
  <2>1. Len(queue') = Len(queue) + 1 /\ Len(queue) \in Nat /\ queue'[Len(queue) + 1] = v
    BY <1>4 DEF SharedOK
  <2>2. \A j \in 1 .. Len(queue) : queue'[j] = queue[j]
    BY <1>4 DEF SharedOK
  <2> QED
    BY <2>1, <2>2
<1>5. CASE \E v \in victims : queue' = Append(queue, v) /\ leaked' = leaked
  BY <1>1, <1>2, <1>4, <1>5, ZenonT(60)
<1> QED
  BY <1>1, <1>3, <1>5, ZenonT(60) DEF on_leave

(* What a fetch does to the tasks: the caller returns or goes on to put, or a*)
(* filler takes the page over.                                              *)
LEMMA FetchEffect ==
  ASSUME TasksOK, NEW t \in Readers \cup Fillers, Fetch(t)
  PROVE  \A u \in Tasks :
           \/ pc'[u] = pc[u] /\ page'[u] = page[u] /\ data'[u] = data[u]
           \/ pc[u] = "fetch" /\ pc'[u] = "idle"
           \/ /\ u \in Fillers \cup {t} /\ pc[u] \in {"idle", "fetch"}
              /\ pc'[u] = "put_lock" /\ data'[u] \in {ver[t], server[file[t]]}
<1>1. PICK v \in {ver[t], server[file[t]]} :
        FillSync(t, v) \/ schedule_fill(t, v) \/ Return(t)
  BY ZenonT(60) DEF Fetch
<1>2. t \in Tasks /\ pc[t] = "fetch"
  BY TaskFacts, ZenonT(60) DEF Fetch
<1>3. CASE FillSync(t, v)
  BY <1>2, <1>3, ZenonT(60) DEF TasksOK, FillSync, Goto
<1>4. CASE Return(t)
  BY <1>2, <1>4, ZenonT(60) DEF TasksOK, Return, Goto
<1>5. ASSUME NEW w \in Fillers, pc[w] = "idle",
             /\ pc' = [pc EXCEPT ![t] = "idle", ![w] = "put_lock"]
             /\ page' = [page EXCEPT ![t] = NoPage, ![w] = page[t]]
             /\ data' = [data EXCEPT ![w] = v]
      PROVE  \A u \in Tasks :
               \/ pc'[u] = pc[u] /\ page'[u] = page[u] /\ data'[u] = data[u]
               \/ pc[u] = "fetch" /\ pc'[u] = "idle"
               \/ /\ u \in Fillers /\ pc[u] = "idle"
                  /\ pc'[u] = "put_lock" /\ data'[u] = v
  BY <1>2, <1>5, TaskFacts, ZenonT(60) DEF TasksOK
<1> QED
  BY <1>1, <1>3, <1>4, <1>5, ZenonT(60) DEF schedule_fill

(* The manager and its store keep their types. *)
LEMMA SharedStep == TypeInv /\ [Next]_vars => SharedOK'
<1> SUFFICES ASSUME TypeInv, [Next]_vars PROVE SharedOK'
  BY ZenonT(60)
<1> USE VerFacts, TaskFacts DEF TypeInv, TypeOK, SharedOK, TasksOK
<1>1. ASSUME NEW t \in Readers \cup Fillers,
             OpenCheck(t) \/ Invalidate(t) \/ DeleteNext(t)
             \/ InvalidateDone(t) \/ Get(t) \/ Put(t) \/ Hit(t)
             \/ ReadMiss(t) \/ Fetch(t) \/ PutFirst(t) \/ PutVersion(t)
      PROVE  SharedOK'
  BY <1>1, ZenonT(60)
  DEF OpenCheck, memory, disk, Invalidate, DeleteNext, InvalidateDone, Get,
  Put, Hit, ReadMiss, Fetch, PutFirst, PutVersion
<1>2. ASSUME NEW f \in Files, Overwrite(f) PROVE SharedOK'
  BY <1>2, ZenonT(60)
  DEF Overwrite, memory, disk
<1>3. ASSUME NEW p \in PageIds, Expire(p) PROVE SharedOK'
  BY <1>3, ZenonT(60)
  DEF Expire, disk
<1>4. ASSUME NEW t \in Readers, NEW f \in Files, Open(t, f) PROVE SharedOK'
  BY <1>4, ZenonT(60)
  DEF Open, memory, disk
<1>5. ASSUME NEW t \in Readers, NEW i \in PageIdx, Read(t, i) PROVE SharedOK'
  BY <1>5, ZenonT(60)
  DEF Read, memory, disk
<1>6. ASSUME NEW t \in Readers \cup Fillers, Delete(t) PROVE SharedOK'
  BY <1>6, ZenonT(60)
  DEF Delete, disk
<1>7. ASSUME NEW t \in Readers \cup Fillers, GetExpiredPath(t) PROVE SharedOK'
  BY <1>7, ZenonT(60)
  DEF GetExpiredPath, disk
<1>8. ASSUME NEW t \in Readers \cup Fillers, OpenRecord(t) PROVE SharedOK'
  <2>1. versions' \in [Files -> Ver]
    BY <1>8, ZenonT(60) DEF OpenRecord
  <2> QED
    BY <1>8, <2>1, ZenonT(60) DEF OpenRecord, disk
<1>9. ASSUME NEW t \in Readers \cup Fillers, OpenUpdate(t) PROVE SharedOK'
  BY <1>9, ZenonT(60)
  DEF OpenUpdate, disk
<1>10. ASSUME NEW t \in Readers \cup Fillers, RemoveIndex(t) PROVE SharedOK'
  BY <1>10, ZenonT(60)
  DEF RemoveIndex, Unindex, disk
<1>11. ASSUME NEW t \in Readers \cup Fillers, RemoveStore(t) PROVE SharedOK'
  <2>1. page[t] \in PageIds
    BY <1>11, ZenonT(60) DEF RemoveStore, PageInHand, PageSteps, WriteSteps, RemoveSteps
  <2>2. store' \in [PageIds -> Ver] /\ leaked' \subseteq PageIds
    BY <1>11, <2>1 DEF RemoveStore, StoreDelete
  <2> QED
    BY <1>11, <2>2, ZenonT(60) DEF RemoveStore, memory
<1>12. ASSUME NEW t \in Readers \cup Fillers, RemoveIdentity(t) PROVE SharedOK'
  <2>1. identity' \in [Files -> Ver]
    BY <1>12, ZenonT(60) DEF RemoveIdentity, DeleteIdentity
  <2> QED
    BY <1>12, <2>1, ZenonT(60) DEF RemoveIdentity, memory
<1>13. ASSUME NEW t \in Readers \cup Fillers, PutStore(t) PROVE SharedOK'
  <2>1. store' \in [PageIds -> Ver] /\ leaked' \subseteq PageIds
    BY <1>13, ZenonT(60) DEF PutStore
  <2> QED
    BY <1>13, <2>1, ZenonT(60) DEF PutStore, memory
<1>14. ASSUME NEW t \in Readers \cup Fillers, PutInsert(t) PROVE SharedOK'
  <2>1. page[t] \in PageIds
    BY <1>14, ZenonT(60) DEF PutInsert, PageInHand, PageSteps, WriteSteps, PutSteps
  <2> QED
    BY <1>14, <2>1, InsertType, ZenonT(60) DEF PutInsert
<1>15. ASSUME NEW t \in Readers \cup Fillers, PutIndex(t) PROVE SharedOK'
  <2>1. page[t] \in PageIds /\ page[t][2] \in PageIdx
    BY <1>15, PageParts, ZenonT(60)
    DEF PutIndex, PageInHand, PageSteps, WriteSteps, PutSteps
  <2> QED
    BY <1>15, <2>1, ZenonT(60) DEF PutIndex, disk
<1>16. ASSUME NEW t \in Readers \cup Fillers, PutIdentity(t) PROVE SharedOK'
  BY <1>16, ZenonT(60)
  DEF PutIdentity, memory
<1>17. CASE ReapLock
  BY <1>17, ZenonT(60)
  DEF ReapLock, memory, disk
<1>18. CASE ReapRecv
  BY <1>18
  DEF ReapRecv, disk
<1>19. CASE ReapIndex
  BY <1>19, ZenonT(60)
  DEF ReapIndex, Unindex, disk
<1>20. CASE ReapStore
  <2>1. page[Reaper] \in PageIds
    BY <1>20, ZenonT(60) DEF ReapStore, PageInHand, PageSteps, WriteSteps
  <2>2. store' \in [PageIds -> Ver] /\ leaked' \subseteq PageIds
    BY <1>20, <2>1 DEF ReapStore, StoreDelete
  <2> QED
    BY <1>20, <2>2, ZenonT(60) DEF ReapStore, memory
<1>21. CASE ReapIdentity
  BY <1>21
  DEF ReapIdentity, DeleteIdentity, memory
<1>22. ASSUME NEW f \in Files, RestoreFile(f) PROVE SharedOK'
  BY <1>22
  DEF RestoreFile, FilePages, memory
<1>23. ASSUME NEW p \in PageIds, RestorePage(p) PROVE SharedOK'
  BY <1>23, InsertType, ZenonT(60)
  DEF RestorePage
<1>24. CASE RestoreIndex
  <2>1. page[Restorer] \in PageIds /\ page[Restorer][2] \in PageIdx
    BY <1>24, PageParts, ZenonT(60) DEF RestoreIndex, PageInHand, PageSteps
  <2> QED
    BY <1>24, <2>1, ZenonT(60) DEF RestoreIndex, disk
<1>25. CASE RestoreFileDone
  BY <1>25
  DEF RestoreFileDone, FilePages
<1>26. CASE RestoreDone
  BY <1>26, ZenonT(60)
  DEF RestoreDone, memory, disk
<1>27. CASE Crash
  BY <1>27
  DEF Crash
<1>28. CASE UNCHANGED vars
  BY <1>28, ZenonT(60) DEF vars, memory, disk
<1> HIDE VerFacts, TaskFacts DEF TypeInv, TypeOK, SharedOK, TasksOK
<1> QED
  BY <1>1, <1>2, <1>3, <1>4, <1>5, <1>6, <1>7, <1>8, <1>9, <1>10, <1>11,
  <1>12, <1>13, <1>14, <1>15, <1>16, <1>17, <1>18, <1>19, <1>20, <1>21,
  <1>22, <1>23, <1>24, <1>25, <1>26, <1>27, <1>28, ZenonT(60)
  DEF Next, Acquire, Advance, OpenFile, Remove, PutRest, Reap, Restore

(* What the locals of the tasks may become. *)
LocalsOK ==
    /\ page \in [Tasks -> PageIds \cup {NoPage}]
    /\ data \in [Tasks -> Ver]
    /\ flag \in [Tasks -> BOOLEAN]
    /\ todo \in [Tasks -> SUBSET PageIds]
    /\ after \in [Tasks -> {"idle", "delete_next", "fetch"}]

(* A step of one task that moves it, locks or unlocks its page's stripe and *)
(* gives its locals proper values keeps the types.                          *)
LEMMA GotoMove ==
  ASSUME TasksOK, NEW t \in Tasks, NEW s \in Steps, Goto(t, s), LocalsOK',
         WriteLock(t) \/ WriteUnlock(t) \/ UNCHANGED locks, UNCHANGED stream
  PROVE  TasksOK'
<1>1. pc' \in [Tasks -> Steps]
  BY ZenonT(60) DEF TasksOK, Goto
<1>2. writer' \in [Stripes -> Tasks \cup {NoTask}] /\ readers' \in [Stripes -> SUBSET Tasks]
  BY ZenonT(60) DEF TasksOK, WriteLock, WriteUnlock, locks
<1> QED
  BY <1>1, <1>2, ZenonT(60) DEF TasksOK, LocalsOK, stream

(* So does the end of a call. *)
LEMMA ReturnLocals == ASSUME LocalsOK, NEW t \in Tasks, Return(t) PROVE LocalsOK'
  BY VerFacts, ZenonT(60) DEF LocalsOK, Return

(* So does the end of a call, with its lock released or not. *)
LEMMA ReturnMove ==
  ASSUME TasksOK, NEW t \in Tasks, Return(t),
         WriteLock(t) \/ WriteUnlock(t) \/ UNCHANGED locks, UNCHANGED stream
  PROVE  TasksOK'
<1>1. LocalsOK'
  BY ReturnLocals, ZenonT(60) DEF TasksOK, LocalsOK
<1> QED
  BY <1>1, GotoMove, ZenonT(60) DEF Return, Steps

(* The tasks keep their types. *)
LEMMA TasksStep == TypeInv /\ [Next]_vars => TasksOK'
<1> SUFFICES ASSUME TypeInv, [Next]_vars PROVE TasksOK'
  BY ZenonT(60)
<1>a. TasksOK /\ LocalsOK
  BY ZenonT(60) DEF TypeInv, TypeOK, TasksOK, LocalsOK
<1>b. /\ {"open_check", "open_record", "invalidate", "delete_next", "delete_lock",
          "open_update", "get_lock", "get_read", "expire_lock", "fetch", "put_lock",
          "put_store", "put_insert", "put_first", "put_version", "put_index",
          "put_identity", "rm_index", "rm_store", "rm_identity", "reap_index",
          "reap_lock", "reap_store", "reap_identity", "restore", "restore_page",
          "restore_index"} \subseteq Steps
      /\ {"idle", "delete_next", "fetch"} \subseteq Steps
  BY ZenonT(60) DEF Steps, WriteSteps, PutSteps, RemoveSteps
<1>c. ASSUME UNCHANGED locals PROVE LocalsOK'
  BY <1>a, <1>c, ZenonT(60) DEF LocalsOK, locals
<1>d. \A t \in Tasks : after[t] \in Steps
  BY <1>a, <1>b, ZenonT(60) DEF LocalsOK
<1>e. /\ file \in [Tasks -> Files] /\ ver \in [Tasks -> Ver] /\ pc \in [Tasks -> Steps]
      /\ readers \in [Stripes -> SUBSET Tasks]
      /\ server \in [Files -> Ver] /\ versions \in [Files -> Ver]
      /\ identity \in [Files -> Ver] /\ by_file \in [Files -> SUBSET PageIdx]
      /\ queue \in Seq(PageIds)
  BY ZenonT(60) DEF TypeInv, TypeOK, SharedOK, TasksOK
<1> USE <1>a, <1>b, TaskFacts
<1>1. ASSUME NEW t \in Readers \cup Fillers,
             OpenCheck(t) \/ OpenRecord(t) \/ InvalidateDone(t)
      PROVE  TasksOK'
  BY <1>1, <1>c, GotoMove, ZenonT(60) DEF OpenCheck, OpenRecord, InvalidateDone
<1>2. ASSUME NEW t \in Readers \cup Fillers, Invalidate(t) PROVE TasksOK'
  <2>1. {file[t]} \X by_file[file[t]] \subseteq PageIds
    BY <1>e, PageParts, ZenonT(60) DEF PageIds
  <2>2. LocalsOK'
    BY <1>2, <2>1, ZenonT(60) DEF Invalidate, LocalsOK
  <2> QED
    BY <1>2, <2>2, GotoMove, ZenonT(60) DEF Invalidate
<1>3. ASSUME NEW t \in Readers \cup Fillers, DeleteNext(t) PROVE TasksOK'
  <2>1. LocalsOK'
    BY <1>3 DEF DeleteNext, LocalsOK
  <2> QED
    BY <1>3, <2>1, GotoMove, ZenonT(60) DEF DeleteNext
<1>4. ASSUME NEW t \in Readers \cup Fillers, OpenUpdate(t) \/ PutIdentity(t)
      PROVE  TasksOK'
  BY <1>4, ReturnMove, ZenonT(60) DEF OpenUpdate, PutIdentity, PutReturn
<1>5. ASSUME NEW t \in Readers \cup Fillers, Delete(t) \/ Put(t) PROVE TasksOK'
  BY <1>5, <1>c, <1>d, GotoMove, ReturnMove, ZenonT(60) DEF Delete, Put
<1>6. ASSUME NEW t \in Readers \cup Fillers, GetExpiredPath(t) PROVE TasksOK'
  <2>1. LocalsOK'
    BY <1>6, ZenonT(60) DEF GetExpiredPath, LocalsOK
  <2> QED
    BY <1>6, <2>1, GotoMove, ZenonT(60) DEF GetExpiredPath
<1>7. ASSUME NEW t \in Tasks, Unindex(t) PROVE LocalsOK'
  BY <1>7, ZenonT(60) DEF Unindex, LocalsOK
<1>8. ASSUME NEW t \in Readers \cup Fillers,
             RemoveIndex(t) \/ RemoveStore(t) \/ RemoveIdentity(t)
      PROVE  TasksOK'
  BY <1>8, <1>c, <1>d, <1>7, GotoMove, ZenonT(60)
  DEF RemoveIndex, RemoveStore, RemoveIdentity
<1>9. ASSUME NEW t \in Readers \cup Fillers, Get(t) \/ ReadMiss(t) \/ Hit(t)
      PROVE  TasksOK'
  <2>1. writer' = writer /\ readers' \in [Stripes -> SUBSET Tasks]
    BY <1>9, <1>e DEF Get, ReadMiss, Hit, locks
  <2>2. pc' \in [Tasks -> Steps]
    BY <1>9, <1>e DEF Get, ReadMiss, Hit, Return, Goto
  <2>3. LocalsOK'
    BY <1>9, <1>c, ReturnLocals, ZenonT(60) DEF Get, ReadMiss, Hit
  <2> QED
    BY <1>9, <2>1, <2>2, <2>3, ZenonT(60) DEF Get, ReadMiss, Hit, TasksOK, LocalsOK, stream
<1>10. ASSUME NEW t \in Readers \cup Fillers, Fetch(t) PROVE TasksOK'
  <2>1. PICK v \in Ver : FillSync(t, v) \/ schedule_fill(t, v) \/ Return(t)
    BY <1>10, <1>e, ZenonT(60) DEF Fetch
  <2>2. CASE FillSync(t, v)
    <3>1. LocalsOK'
      BY <2>2, ZenonT(60) DEF FillSync, LocalsOK
    <3> QED
      BY <1>10, <2>2, <3>1, GotoMove, ZenonT(60) DEF Fetch, FillSync
  <2>3. CASE Return(t)
    BY <1>10, <2>3, ReturnMove, ZenonT(60) DEF Fetch
  <2>4. ASSUME NEW w \in Fillers,
               /\ pc' = [pc EXCEPT ![t] = "idle", ![w] = "put_lock"]
               /\ page' = [page EXCEPT ![t] = NoPage, ![w] = page[t]]
               /\ data' = [data EXCEPT ![w] = v]
               /\ flag' = [flag EXCEPT ![t] = FALSE]
               /\ after' = [after EXCEPT ![t] = "idle"]
               /\ UNCHANGED todo
        PROVE  TasksOK'
    <3>1. LocalsOK' /\ pc' \in [Tasks -> Steps]
      BY <1>e, <2>4, ZenonT(60) DEF LocalsOK
    <3> QED
      BY <1>10, <3>1, ZenonT(60) DEF Fetch, TasksOK, LocalsOK, locks, stream
  <2> QED
    BY <2>1, <2>2, <2>3, <2>4, ZenonT(60) DEF schedule_fill
<1>11. ASSUME NEW t \in Readers \cup Fillers,
              PutStore(t) \/ PutInsert(t) \/ PutIndex(t)
       PROVE  TasksOK'
  BY <1>11, <1>c, GotoMove, ReturnMove, ZenonT(60)
  DEF PutStore, PutInsert, PutIndex, PutReturn
<1>12. ASSUME NEW t \in Readers \cup Fillers, PutFirst(t) \/ PutVersion(t)
       PROVE  TasksOK'
  <2>1. page[t] \in PageIds
    BY <1>12, ZenonT(60)
    DEF PutFirst, PutVersion, TypeInv, PageInHand, PageSteps, WriteSteps,
                 PutSteps
  <2>2. versions[page[t][1]] \in Ver
    BY <1>e, <2>1, PageParts, ZenonT(60)
  <2>3. LocalsOK'
    BY <1>12, <2>2, VerFacts DEF PutFirst, PutVersion, LocalsOK
  <2> QED
    BY <1>12, <2>3, GotoMove, ZenonT(60) DEF PutFirst, PutVersion
<1>13. CASE ReapRecv
  <2>1. LocalsOK'
    BY <1>13, <1>e DEF ReapRecv, LocalsOK
  <2> QED
    BY <1>13, <2>1, GotoMove, ZenonT(60) DEF ReapRecv
<1>14. CASE ReapIndex \/ ReapLock \/ ReapStore \/ ReapIdentity
  BY <1>14, <1>c, <1>7, GotoMove, ReturnMove, ZenonT(60)
  DEF ReapIndex, ReapLock, ReapStore, ReapIdentity
<1>15. ASSUME NEW f \in Files, RestoreFile(f) PROVE TasksOK'
  <2>1. LocalsOK'
    <3>1. identity[f] \in Ver
      BY <1>e, ZenonT(60)
    <3>2. page' = page /\ after' = after /\ flag' \in [Tasks -> BOOLEAN]
      BY <1>15, ZenonT(60) DEF RestoreFile, LocalsOK
    <3>3. data' \in [Tasks -> Ver] /\ todo' \in [Tasks -> SUBSET PageIds]
      BY <1>15, <3>1, ZenonT(60) DEF RestoreFile, LocalsOK
    <3> QED
      BY <3>2, <3>3, ZenonT(60) DEF LocalsOK
  <2>2. pc' \in [Tasks -> Steps] /\ file' \in [Tasks -> Files]
    BY <1>15, <1>e DEF RestoreFile, Goto
  <2> QED
    BY <1>15, <2>1, <2>2, ZenonT(60) DEF RestoreFile, TasksOK, LocalsOK, locks
<1>16. ASSUME NEW p \in PageIds, RestorePage(p) PROVE TasksOK'
  <2>1. LocalsOK'
    BY <1>16, ZenonT(60) DEF RestorePage, LocalsOK
  <2>2. pc' \in [Tasks -> Steps]
    BY <1>16, <1>e, ZenonT(60) DEF RestorePage, Goto
  <2> QED
    BY <1>16, <2>1, <2>2, ZenonT(60) DEF RestorePage, TasksOK, LocalsOK, locks, stream
<1>17. CASE RestoreIndex \/ RestoreFileDone
  <2>1. LocalsOK'
    <3>1. CASE RestoreIndex
      BY <3>1, ZenonT(60) DEF RestoreIndex, LocalsOK
    <3>2. CASE RestoreFileDone
      BY <3>2, VerFacts, ZenonT(60) DEF RestoreFileDone, LocalsOK
    <3> QED
      BY <1>17, <3>1, <3>2, ZenonT(60)
  <2> QED
    BY <1>17, <2>1, GotoMove, ZenonT(60) DEF RestoreIndex, RestoreFileDone
<1>18. CASE RestoreDone
  BY <1>18, ReturnMove, ZenonT(60) DEF RestoreDone
<1>19. CASE Crash
  <2>1. LocalsOK' /\ pc' \in [Tasks -> Steps]
    BY <1>19, VerFacts, ZenonT(60) DEF Crash, LocalsOK
  <2> QED
    BY <1>19, <1>e, <2>1, VerFacts, ZenonT(60) DEF Crash, TasksOK, LocalsOK
<1>20. ASSUME NEW t \in Readers, NEW f \in Files, Open(t, f) PROVE TasksOK'
  <2>1. file' \in [Tasks -> Files] /\ ver' \in [Tasks -> Ver] /\ pc' \in [Tasks -> Steps]
    BY <1>20, <1>e, ZenonT(60) DEF Open, Goto
  <2> QED
    BY <1>20, <1>c, <2>1, ZenonT(60) DEF Open, TasksOK, LocalsOK, locks
<1>21. ASSUME NEW t \in Readers, NEW i \in PageIdx, Read(t, i) PROVE TasksOK'
  <2>1. <<file[t], i>> \in PageIds
    BY <1>e, PageParts, ZenonT(60)
  <2>2. LocalsOK'
    BY <1>21, <2>1, ZenonT(60) DEF Read, LocalsOK
  <2> QED
    BY <1>21, <2>2, GotoMove, ZenonT(60) DEF Read
<1>22. CASE UNCHANGED <<locks, stream, pc, locals>>
  BY <1>22, ZenonT(60) DEF TasksOK, locks, stream, locals
<1> HIDE <1>a, <1>b, TaskFacts
<1> QED
  BY <1>1, <1>2, <1>3, <1>4, <1>5, <1>6, <1>8, <1>9, <1>10, <1>11, <1>12,
  <1>13, <1>14, <1>15, <1>16, <1>17, <1>18, <1>19, <1>20, <1>21, <1>22, ZenonT(60)
  DEF Next, Acquire, Advance, OpenFile, Remove, PutRest, Reap, Restore,
      Overwrite, Expire, vars

-----------------------------------------------------------------------------
(* A step that moves one task keeps the roles when the new step suits the   *)
(* task's kind and brings a page where one is needed.                       *)
LEMMA RolesMove ==
  ASSUME Roles, PageInHand, NEW t \in Tasks,
         \A u \in Tasks \ {t} : pc'[u] = pc[u] /\ page'[u] = page[u],
         \/ t \in Readers /\ pc'[t] \in ReaderSteps
         \/ t \in Fillers /\ pc'[t] \in FillerSteps
         \/ t = Reaper /\ pc'[t] \in ReaperSteps
         \/ t = Restorer /\ pc'[t] \in RestorerSteps,
         pc'[t] \in PageSteps => page'[t] \in PageIds
  PROVE  (Roles /\ PageInHand)'
  BY TaskFacts, TasksAssumption, ZenonT(60) DEF Roles, PageInHand

(* Every task stays at the steps of its kind, with a page in hand where one is*)
(* needed.                                                                  *)
LEMMA RolesStep == TypeInv /\ [Next]_vars => (Roles /\ PageInHand)'
<1> SUFFICES ASSUME TypeInv, [Next]_vars PROVE (Roles /\ PageInHand)'
  BY ZenonT(60)
<1>a. /\ pc \in [Tasks -> Steps] /\ page \in [Tasks -> PageIds \cup {NoPage}]
      /\ after \in [Tasks -> {"idle", "delete_next", "fetch"}]
      /\ todo \in [Tasks -> SUBSET PageIds] /\ queue \in Seq(PageIds)
      /\ file \in [Tasks -> Files]
  BY ZenonT(60) DEF TypeInv, TypeOK, SharedOK, TasksOK
<1>b. Roles /\ PageInHand
  BY ZenonT(60) DEF TypeInv
<1>c. {"open_check", "open_record", "invalidate", "delete_next", "open_update",
       "idle", "restore", "restore_page"} \cap PageSteps = {}
  BY ZenonT(60) DEF PageSteps, WriteSteps, PutSteps, RemoveSteps
<1> USE <1>a, <1>b, <1>c, TaskFacts, RolesMove
<1>1. ASSUME NEW t \in Readers \cup Fillers,
             OpenCheck(t) \/ OpenRecord(t) \/ Invalidate(t)
      PROVE  (Roles /\ PageInHand)'
  <2>1. t \in Readers
    BY <1>1, ZenonT(60) DEF OpenCheck, OpenRecord, Invalidate, Roles, FillerSteps, PutSteps
  <2> QED
    BY <1>1, <2>1
    DEF OpenCheck, OpenRecord, Invalidate, Goto, locals, ReaderSteps
<1>2. ASSUME NEW t \in Readers \cup Fillers,
             DeleteNext(t) \/ InvalidateDone(t) \/ OpenUpdate(t)
      PROVE  (Roles /\ PageInHand)'
  <2>1. t \in Readers
    BY <1>2, ZenonT(60)
    DEF DeleteNext, InvalidateDone, OpenUpdate, Roles, FillerSteps, PutSteps
  <2> QED
    BY <1>2, <2>1
   
    DEF DeleteNext, InvalidateDone, OpenUpdate, Return, Goto, locals,
        ReaderSteps
<1>3. ASSUME NEW t \in Readers \cup Fillers,
             RemoveIndex(t) \/ RemoveStore(t) \/ RemoveIdentity(t)
      PROVE  (Roles /\ PageInHand)'
  <2>1. t \in Readers /\ page[t] \in PageIds
    BY <1>3, ZenonT(60) DEF RemoveIndex, RemoveStore, RemoveIdentity, Roles, FillerSteps,
                PageInHand, PageSteps, WriteSteps, PutSteps, RemoveSteps
  <2> QED
    BY <1>3, <2>1 DEF RemoveIndex, Unindex, RemoveStore, RemoveIdentity, Goto,
                      locals, ReaderSteps, RemoveSteps
<1>4. ASSUME NEW t \in Readers \cup Fillers,
             Delete(t) \/ GetExpiredPath(t) \/ Get(t) \/ ReadMiss(t) \/ Hit(t)
      PROVE  (Roles /\ PageInHand)'
  <2>1. t \in Readers /\ page[t] \in PageIds
    BY <1>4, ZenonT(60) DEF Delete, GetExpiredPath, Get, ReadMiss, Hit, Roles, FillerSteps,
                PageInHand, PageSteps, PutSteps
  <2>2. /\ \A u \in Tasks \ {t} : pc'[u] = pc[u] /\ page'[u] = page[u]
        /\ pc'[t] = "idle" \/ page'[t] = page[t]
        /\ pc'[t] \in {"rm_index", "idle", "delete_next", "fetch", "get_read",
                       "expire_lock"}
    BY <1>4, ZenonT(60) DEF Delete, GetExpiredPath, Get, ReadMiss, Hit, Return, Goto, locals
  <2> QED
    BY <2>1, <2>2, ZenonT(60) DEF ReaderSteps, RemoveSteps
<1>5. ASSUME NEW t \in Readers \cup Fillers, Fetch(t)
      PROVE  (Roles /\ PageInHand)'
  <2>1. t \in Readers /\ page[t] \in PageIds
    BY <1>5, ZenonT(60) DEF Fetch, Roles, FillerSteps, PutSteps, PageInHand, PageSteps
  <2>2. CASE FillMode = "Async" /\ \E w \in Fillers :
               /\ pc[w] = "idle"
               /\ pc' = [pc EXCEPT ![t] = "idle", ![w] = "put_lock"]
               /\ page' = [page EXCEPT ![t] = NoPage, ![w] = page[t]]
    BY <2>1, <2>2, TasksAssumption
    DEF Roles, PageInHand, FillerSteps, ReaderSteps
  <2>3. CASE Return(t) \/ \E v \in Ver : FillSync(t, v)
    BY <2>1, <2>3 DEF Return, FillSync, Goto, ReaderSteps
  <2>4. {ver[t], server[file[t]]} \subseteq Ver
    BY DEF TypeInv, TypeOK, SharedOK, TasksOK
  <2> QED
    BY <1>5, <2>2, <2>3, <2>4, ZenonT(60) DEF Fetch, schedule_fill
<1>6. ASSUME NEW t \in Readers \cup Fillers, Put(t) \/ PutRest(t)
      PROVE  (Roles /\ PageInHand)'
  <2>1. page[t] \in PageIds
    BY <1>6, ZenonT(60)
    DEF Put, PutRest, PutStore, PutInsert, PutFirst, PutVersion, PutIndex,
                PutIdentity, PageInHand, PageSteps, WriteSteps, PutSteps
  <2>2. /\ \A u \in Tasks \ {t} : pc'[u] = pc[u] /\ page'[u] = page[u]
        /\ \/ pc'[t] = "idle"
           \/ pc'[t] \in PutSteps /\ page'[t] = page[t]
    <3>1. CASE Put(t) \/ PutFirst(t) \/ PutVersion(t)
      BY <3>1, ZenonT(60) DEF Put, PutFirst, PutVersion, Return, Goto, locals, PutSteps
    <3>2. CASE PutStore(t) \/ PutInsert(t)
      BY <3>2, ZenonT(60) DEF PutStore, PutInsert, PutReturn, Return, Goto, locals, PutSteps
    <3>3. CASE PutIndex(t) \/ PutIdentity(t)
      BY <3>3, ZenonT(60)
      DEF PutIndex, PutIdentity, PutReturn, Return, Goto, locals, PutSteps
    <3> QED
      BY <1>6, <3>1, <3>2, <3>3, ZenonT(60) DEF PutRest
  <2> QED
    BY <2>1, <2>2, ZenonT(60) DEF ReaderSteps, FillerSteps
<1>7. CASE ReapRecv
  <2>1. Head(queue) \in PageIds
    BY <1>7 DEF ReapRecv
  <2> QED
    BY <1>7, <2>1, ZenonT(60) DEF ReapRecv, Goto, ReaperSteps
<1>8. CASE ReapLock \/ ReapIndex \/ ReapStore \/ ReapIdentity
  <2>1. page[Reaper] \in PageIds
    BY <1>8, ZenonT(60) DEF ReapLock, ReapIndex, ReapStore, ReapIdentity, PageInHand,
                PageSteps, WriteSteps
  <2> QED
    BY <1>8, <2>1, ZenonT(60) DEF ReapLock, ReapIndex, Unindex, ReapStore, ReapIdentity,
                      Return, Goto, locals, ReaperSteps
<1>9. CASE RestoreIndex \/ RestoreFileDone \/ RestoreDone
  BY <1>9, ZenonT(60)
  DEF RestoreIndex, RestoreFileDone, RestoreDone, Return, Goto, RestorerSteps
<1>10. ASSUME NEW f \in Files, RestoreFile(f) PROVE (Roles /\ PageInHand)'
  BY <1>10, ZenonT(60) DEF RestoreFile, Goto, RestorerSteps
<1>11. ASSUME NEW p \in PageIds, RestorePage(p) PROVE (Roles /\ PageInHand)'
  BY <1>11 DEF RestorePage, Goto, RestorerSteps
<1>12. ASSUME (\E f \in Files : Overwrite(f)) \/ (\E p \in PageIds : Expire(p))
       PROVE  (Roles /\ PageInHand)'
  BY <1>12, ZenonT(60) DEF Overwrite, Expire, locals, Roles, PageInHand
<1>13. ASSUME NEW t \in Readers, NEW f \in Files, Open(t, f)
       PROVE  (Roles /\ PageInHand)'
  BY <1>13, ZenonT(60) DEF Open, Goto, locals, ReaderSteps
<1>14. ASSUME NEW t \in Readers, NEW i \in PageIdx, Read(t, i)
       PROVE  (Roles /\ PageInHand)'
  BY <1>14, PageParts, ZenonT(60) DEF Read, Goto, ReaderSteps
<1>15. CASE Crash
  BY <1>15, ZenonT(60)
  DEF Crash, Roles, PageInHand, ReaderSteps, FillerSteps, ReaperSteps,
      RestorerSteps
<1>16. CASE UNCHANGED vars
  BY <1>16, ZenonT(60) DEF vars, locals, Roles, PageInHand
<1> HIDE <1>a, <1>b, <1>c, TaskFacts, RolesMove
<1> QED
  BY <1>1, <1>2, <1>3, <1>4, <1>5, <1>6, <1>7, <1>8, <1>9, <1>10, <1>11,
  <1>12, <1>13, <1>14, <1>15, <1>16, ZenonT(60)
  DEF Next, Acquire, Advance, OpenFile, Remove, Reap, Restore

(* The page locks keep excluding each other. *)
LEMMA LockStep == TypeInv /\ LockInv /\ [Next]_vars => LockInv'
<1> SUFFICES ASSUME TypeInv /\ LockInv, [Next]_vars PROVE LockInv'
  BY ZenonT(60)
<1> USE TaskFacts, LockIndexAssumption
  DEF TypeInv, TypeOK, TasksOK, Roles, PageInHand, LockInv, Stripe
<1>1. ASSUME NEW t \in Readers \cup Fillers,
             OpenCheck(t) \/ OpenRecord(t) \/ Invalidate(t)
             \/ DeleteNext(t) \/ InvalidateDone(t) \/ OpenUpdate(t)
      PROVE  LockInv'
  BY <1>1
  DEF OpenCheck, Goto, locks, locals, OpenRecord, Invalidate, DeleteNext,
  InvalidateDone, OpenUpdate, Return, WriteSteps, PutSteps, RemoveSteps,
  PageSteps
<1>2. CASE ReapRecv \/ ReapIndex \/ ReapIdentity
  BY <1>2
  DEF ReapRecv, Goto, locks, ReapIndex, Unindex, ReapIdentity, Return,
  WriteSteps, PutSteps, RemoveSteps, PageSteps
<1>3. CASE RestoreIndex \/ RestoreFileDone \/ RestoreDone
  BY <1>3
  DEF RestoreIndex, Goto, locks, RestoreFileDone, RestoreDone, Return,
  WriteSteps, PutSteps, RemoveSteps, PageSteps
<1>4. ASSUME NEW f \in Files, Overwrite(f) PROVE LockInv'
  BY <1>4, ZenonT(60)
  DEF Overwrite, locks, locals, WriteSteps, PutSteps, RemoveSteps, PageSteps
<1>5. ASSUME NEW p \in PageIds, Expire(p) PROVE LockInv'
  BY <1>5, ZenonT(60)
  DEF Expire, locks, locals, WriteSteps, PutSteps, RemoveSteps, PageSteps
<1>6. ASSUME NEW t \in Readers, NEW f \in Files, Open(t, f) PROVE LockInv'
  BY <1>6, ZenonT(60)
  DEF Open, Goto, locks, locals, WriteSteps, PutSteps, RemoveSteps, PageSteps
<1>7. ASSUME NEW t \in Readers, NEW i \in PageIdx, Read(t, i) PROVE LockInv'
  BY <1>7, ZenonT(60)
  DEF Read, Goto, locks, WriteSteps, PutSteps, RemoveSteps, PageSteps
<1>8. ASSUME NEW t \in Readers \cup Fillers, Delete(t) PROVE LockInv'
  BY <1>8
  DEF Delete, Free, WriteLock, Goto, locks, locals, Stripe, WriteSteps,
  PutSteps, RemoveSteps, PageSteps
<1>9. ASSUME NEW t \in Readers \cup Fillers, GetExpiredPath(t) PROVE LockInv'
  BY <1>9
  DEF GetExpiredPath, Free, WriteLock, Goto, locks, Stripe, WriteSteps,
  PutSteps, RemoveSteps, PageSteps
<1>10. ASSUME NEW t \in Readers \cup Fillers, Get(t) PROVE LockInv'
  BY <1>10
  DEF Get, Stripe, Goto, locks, locals, WriteSteps, PutSteps, RemoveSteps,
  PageSteps
<1>11. ASSUME NEW t \in Readers \cup Fillers, Put(t) PROVE LockInv'
  BY <1>11
  DEF Put, Free, WriteLock, Goto, locals, Return, locks, Stripe, WriteSteps,
  PutSteps, RemoveSteps, PageSteps
<1>12. ASSUME NEW t \in Readers \cup Fillers, RemoveIndex(t) PROVE LockInv'
  BY <1>12, ZenonT(60)
  DEF RemoveIndex, Unindex, Goto, locks, WriteSteps, PutSteps, RemoveSteps,
  PageSteps
<1>13. ASSUME NEW t \in Readers \cup Fillers, RemoveStore(t) PROVE LockInv'
  BY <1>13
  DEF RemoveStore, Goto, locks, WriteUnlock, locals, Stripe, WriteSteps,
  PutSteps, RemoveSteps, PageSteps
<1>14. ASSUME NEW t \in Readers \cup Fillers, RemoveIdentity(t) PROVE LockInv'
  BY <1>14
  DEF RemoveIdentity, WriteUnlock, Goto, locals, Stripe, WriteSteps,
  PutSteps, RemoveSteps, PageSteps
<1>15. ASSUME NEW t \in Readers \cup Fillers, Hit(t) PROVE LockInv'
  BY <1>15, ZenonT(60)
  DEF Hit, Stripe, Return, Goto, WriteSteps, PutSteps, RemoveSteps, PageSteps
<1>16. ASSUME NEW t \in Readers \cup Fillers, ReadMiss(t) PROVE LockInv'
  BY <1>16, ZenonT(60)
  DEF ReadMiss, Stripe, Goto, locals, WriteSteps, PutSteps, RemoveSteps,
  PageSteps
<1>17. ASSUME NEW t \in Readers \cup Fillers, Fetch(t) PROVE LockInv'
  BY <1>17
  DEF Fetch, FillSync, schedule_fill, Return, locks, Goto, WriteSteps,
  PutSteps, RemoveSteps, PageSteps
<1>18. ASSUME NEW t \in Readers \cup Fillers, PutStore(t) PROVE LockInv'
  <2>1. CASE PutReturn(t)
    BY <1>18, <2>1
    DEF PutStore, Goto, PutReturn, WriteUnlock, Return, Stripe, WriteSteps,
    PutSteps, RemoveSteps, PageSteps
  <2>2. CASE Goto(t, "put_insert") /\ UNCHANGED <<locks, locals>>
    BY <1>18, <2>2, ZenonT(60)
    DEF PutStore, Goto, locks, locals, Stripe, WriteSteps, PutSteps, PageSteps
  <2> QED
    BY <1>18, <2>1, <2>2, ZenonT(60) DEF PutStore
<1>19. ASSUME NEW t \in Readers \cup Fillers, PutInsert(t) PROVE LockInv'
  BY <1>19
  DEF PutInsert, Goto, locks, locals, PutReturn, WriteUnlock, Return, Stripe,
  WriteSteps, PutSteps, RemoveSteps, PageSteps
<1>20. ASSUME NEW t \in Readers \cup Fillers, PutFirst(t) PROVE LockInv'
  BY <1>20, ZenonT(60)
  DEF PutFirst, Goto, locks, WriteSteps, PutSteps, RemoveSteps, PageSteps
<1>21. ASSUME NEW t \in Readers \cup Fillers, PutVersion(t) PROVE LockInv'
  BY <1>21, ZenonT(60)
  DEF PutVersion, Goto, locks, WriteSteps, PutSteps, RemoveSteps, PageSteps
<1>22. ASSUME NEW t \in Readers \cup Fillers, PutIndex(t) PROVE LockInv'
  BY <1>22
  DEF PutIndex, Goto, locks, locals, PutReturn, WriteUnlock, Return, Stripe,
  WriteSteps, PutSteps, RemoveSteps, PageSteps
<1>23. ASSUME NEW t \in Readers \cup Fillers, PutIdentity(t) PROVE LockInv'
  BY <1>23
  DEF PutIdentity, PutReturn, WriteUnlock, Return, Stripe, Goto, WriteSteps,
  PutSteps, RemoveSteps, PageSteps
<1>24. CASE ReapLock
  BY <1>24
  DEF ReapLock, Free, WriteLock, Goto, locals, Return, locks, Stripe,
  WriteSteps, PutSteps, RemoveSteps, PageSteps
<1>25. CASE ReapStore
  BY <1>25
  DEF ReapStore, WriteUnlock, Goto, locals, Return, Stripe, WriteSteps,
  PutSteps, RemoveSteps, PageSteps
<1>26. ASSUME NEW f \in Files, RestoreFile(f) PROVE LockInv'
  BY <1>26
  DEF RestoreFile, Goto, locks, WriteSteps, PutSteps, RemoveSteps, PageSteps
<1>27. ASSUME NEW p \in PageIds, RestorePage(p) PROVE LockInv'
  BY <1>27
  DEF RestorePage, Goto, locks, WriteSteps, PutSteps, RemoveSteps, PageSteps
<1>28. CASE Crash
  BY <1>28, ZenonT(60)
  DEF Crash, WriteSteps, PutSteps, RemoveSteps, PageSteps
<1>29. CASE UNCHANGED vars
  BY <1>29, ZenonT(60) DEF vars, locks, locals
<1> QED
  BY <1>1, <1>2, <1>3, <1>4, <1>5, <1>6, <1>7, <1>8, <1>9, <1>10, <1>11,
  <1>12, <1>13, <1>14, <1>15, <1>16, <1>17, <1>18, <1>19, <1>20, <1>21,
  <1>22, <1>23, <1>24, <1>25, <1>26, <1>27, <1>28, <1>29, ZenonT(60)
  DEF Next, Acquire, Advance, OpenFile, Remove, PutRest, Reap, Restore

(* restore keeps running alone, and its pages stay in nobody else's hands. *)
LEMMA RestoreStep == TypeInv /\ RestoreInv /\ [Next]_vars => RestoreInv'
<1> SUFFICES ASSUME TypeInv /\ RestoreInv, [Next]_vars PROVE RestoreInv'
  BY ZenonT(60)
<1> USE TaskFacts DEF TypeInv, TypeOK, SharedOK, TasksOK, Roles, RestoreInv
<1>1. ASSUME NEW t \in Readers \cup Fillers,
             OpenCheck(t) \/ OpenRecord(t) \/ Invalidate(t)
             \/ DeleteNext(t) \/ InvalidateDone(t) \/ OpenUpdate(t)
      PROVE  RestoreInv'
  BY <1>1, ZenonT(60)
  DEF OpenCheck, Goto, memory, locals, OpenRecord, Invalidate, DeleteNext,
  InvalidateDone, OpenUpdate, Return, ReaderSteps, PutSteps, RemoveSteps
<1>2. ASSUME NEW f \in Files, Overwrite(f) PROVE RestoreInv'
  BY <1>2, ZenonT(60)
  DEF Overwrite, memory, locals, ReaderSteps, PutSteps, RemoveSteps
<1>3. ASSUME NEW p \in PageIds, Expire(p) PROVE RestoreInv'
  BY <1>3, ZenonT(60)
  DEF Expire, locals, ReaderSteps, PutSteps, RemoveSteps
<1>4. ASSUME NEW t \in Readers, NEW f \in Files, Open(t, f) PROVE RestoreInv'
  BY <1>4, ZenonT(60)
  DEF Open, Running, Goto, memory, locals, ReaderSteps, PutSteps, RemoveSteps
<1>5. ASSUME NEW t \in Readers, NEW i \in PageIdx, Read(t, i) PROVE RestoreInv'
  BY <1>5, ZenonT(60)
  DEF Read, Running, Goto, memory, ReaderSteps, PutSteps, RemoveSteps
<1>6. ASSUME NEW t \in Readers \cup Fillers, Delete(t) PROVE RestoreInv'
  BY <1>6, ZenonT(60)
  DEF Delete, Goto, locals, ReaderSteps, PutSteps, RemoveSteps
<1>7. ASSUME NEW t \in Readers \cup Fillers, GetExpiredPath(t) PROVE RestoreInv'
  BY <1>7, ZenonT(60)
  DEF GetExpiredPath, Goto, ReaderSteps, PutSteps, RemoveSteps
<1>8. ASSUME NEW t \in Readers \cup Fillers, Get(t) PROVE RestoreInv'
  BY <1>8
  DEF Get, Goto, memory, locals, ReaderSteps, PutSteps, RemoveSteps
<1>9. ASSUME NEW t \in Readers \cup Fillers, Put(t) PROVE RestoreInv'
  BY <1>9
  DEF Put, Goto, locals, Return, memory, ReaderSteps, PutSteps, RemoveSteps
<1>10. ASSUME NEW t \in Readers \cup Fillers, RemoveIndex(t) PROVE RestoreInv'
  BY <1>10, ZenonT(60)
  DEF RemoveIndex, Unindex, Goto, ReaderSteps, PutSteps, RemoveSteps
<1>11. ASSUME NEW t \in Readers \cup Fillers, RemoveStore(t) PROVE RestoreInv'
  BY <1>11, ZenonT(60)
  DEF RemoveStore, Goto, memory, locals, ReaderSteps, PutSteps, RemoveSteps
<1>12. ASSUME NEW t \in Readers \cup Fillers, RemoveIdentity(t) PROVE RestoreInv'
  BY <1>12, ZenonT(60)
  DEF RemoveIdentity, Goto, memory, locals, ReaderSteps, PutSteps,
  RemoveSteps
<1>13. ASSUME NEW t \in Readers \cup Fillers, Hit(t) PROVE RestoreInv'
  BY <1>13, ZenonT(60)
  DEF Hit, Return, memory, Goto, ReaderSteps, PutSteps, RemoveSteps
<1>14. ASSUME NEW t \in Readers \cup Fillers, ReadMiss(t) PROVE RestoreInv'
  BY <1>14, ZenonT(60)
  DEF ReadMiss, Goto, memory, locals, ReaderSteps, PutSteps, RemoveSteps
<1>15. ASSUME NEW t \in Readers \cup Fillers, Fetch(t) PROVE RestoreInv'
  BY <1>15, ZenonT(60)
  DEF Fetch, FillSync, schedule_fill, Return, memory, Goto, ReaderSteps,
  PutSteps, RemoveSteps
<1>16. ASSUME NEW t \in Readers \cup Fillers, PutStore(t) PROVE RestoreInv'
  BY <1>16, ZenonT(60)
  DEF PutStore, Goto, locals, PutReturn, memory, Return, ReaderSteps,
  PutSteps, RemoveSteps
<1>17. ASSUME NEW t \in Readers \cup Fillers, PutInsert(t) PROVE RestoreInv'
  BY <1>17, ZenonT(60)
  DEF PutInsert, Insert, Goto, locals, PutReturn, Victims, on_leave, Return,
  ReaderSteps, PutSteps, RemoveSteps
<1>18. ASSUME NEW t \in Readers \cup Fillers, PutFirst(t) PROVE RestoreInv'
  BY <1>18, ZenonT(60)
  DEF PutFirst, Goto, memory, ReaderSteps, PutSteps, RemoveSteps
<1>19. ASSUME NEW t \in Readers \cup Fillers, PutVersion(t) PROVE RestoreInv'
  BY <1>19, ZenonT(60)
  DEF PutVersion, Goto, memory, ReaderSteps, PutSteps, RemoveSteps
<1>20. ASSUME NEW t \in Readers \cup Fillers, PutIndex(t) PROVE RestoreInv'
  BY <1>20
  DEF PutIndex, Goto, locals, PutReturn, Return, ReaderSteps, PutSteps,
  RemoveSteps
<1>21. ASSUME NEW t \in Readers \cup Fillers, PutIdentity(t) PROVE RestoreInv'
  BY <1>21, ZenonT(60)
  DEF PutIdentity, PutReturn, memory, Return, Goto, ReaderSteps, PutSteps,
  RemoveSteps
<1>22. CASE ReapLock
  BY <1>22, ZenonT(60)
  DEF ReapLock, Goto, locals, Return, memory, ReaderSteps, PutSteps,
  RemoveSteps
<1>23. CASE ReapRecv
  BY <1>23
  DEF ReapRecv, Goto, ReaderSteps, PutSteps, RemoveSteps
<1>24. CASE ReapIndex
  BY <1>24, ZenonT(60)
  DEF ReapIndex, Unindex, Goto, ReaderSteps, PutSteps, RemoveSteps
<1>25. CASE ReapStore
  BY <1>25, ZenonT(60)
  DEF ReapStore, Goto, locals, Return, memory, ReaderSteps, PutSteps,
  RemoveSteps
<1>26. CASE ReapIdentity
  BY <1>26, ZenonT(60)
  DEF ReapIdentity, Return, memory, Goto, ReaderSteps, PutSteps, RemoveSteps
<1>27. ASSUME NEW f \in Files, RestoreFile(f) PROVE RestoreInv'
  BY <1>27
  DEF RestoreFile, FilePages, Goto, memory, ReaderSteps, PutSteps,
  RemoveSteps
<1>28. ASSUME NEW p \in PageIds, RestorePage(p) PROVE RestoreInv'
  <2>1. SharedOK /\ pc \in [Tasks -> Steps] /\ page \in [Tasks -> PageIds \cup {NoPage}]
    BY ZenonT(60) DEF LocalsOK
  <2>2. /\ pc[Restorer] = "restore_page" /\ p \in todo[Restorer]
        /\ todo'[Restorer] = todo[Restorer] \ {p}
    BY <1>28, ZenonT(60) DEF RestorePage, LocalsOK
  <2>3. /\ \A t \in Readers \cup Fillers : pc[t] = "idle" /\ t # Restorer /\ t \in Tasks
        /\ Reaper # Restorer /\ Reaper \in Tasks /\ Restorer \in Tasks
        /\ \A q \in todo[Restorer] :
             /\ q \notin resident
             /\ \A k \in 1 .. Len(queue) : queue[k] # q
             /\ pc[Reaper] # "idle" => page[Reaper] # q
    BY <2>2, ZenonT(60)
  <2> HIDE TaskFacts DEF TypeInv, TypeOK, SharedOK, TasksOK, Roles, RestoreInv
  <2>4. CASE store[p] = 0 /\ UNCHANGED <<resident, queue, page, pc>>
    BY <2>2, <2>3, <2>4, ZenonT(60) DEF RestoreInv
  <2>5. CASE /\ Insert(p) /\ page' = [page EXCEPT ![Restorer] = p]
             /\ pc' = [pc EXCEPT ![Restorer] = "restore_index"]
    <3>1. /\ pc'[Restorer] = "restore_index"
          /\ \A t \in Tasks : t # Restorer => pc'[t] = pc[t] /\ page'[t] = page[t]
      BY <2>1, <2>3, <2>5
    <3>2. ASSUME NEW q \in todo[Restorer] \ {p}
          PROVE  /\ q \notin resident'
                 /\ \A k \in 1 .. Len(queue') : queue'[k] # q
                 /\ pc'[Reaper] # "idle" => page'[Reaper] # q
      <4>1. /\ resident' \subseteq resident \cup {p}
            /\ \A k \in 1 .. Len(queue') :
                 \/ queue'[k] \in resident \cup {p}
                 \/ \E j \in 1 .. Len(queue) : queue'[k] = queue[j]
        BY <2>1, <2>5, InsertEffect, ZenonT(60)
      <4>2. /\ q # p /\ q \notin resident
            /\ \A k \in 1 .. Len(queue) : queue[k] # q
            /\ pc[Reaper] # "idle" => page[Reaper] # q
        BY <2>3, ZenonT(60)
      <4> QED
        BY <2>3, <3>1, <4>1, <4>2, ZenonT(60)
    <3> QED
      BY <2>2, <2>3, <3>1, <3>2, ZenonT(60) DEF RestoreInv
  <2> QED
    BY <1>28, <2>4, <2>5, ZenonT(60) DEF RestorePage, Goto
<1>29. CASE RestoreIndex
  BY <1>29, ZenonT(60)
  DEF RestoreIndex, Goto, ReaderSteps, PutSteps, RemoveSteps
<1>30. CASE RestoreFileDone
  BY <1>30, ZenonT(60)
  DEF RestoreFileDone, FilePages, Goto, ReaderSteps, PutSteps, RemoveSteps
<1>31. CASE RestoreDone
  BY <1>31, ZenonT(60)
  DEF RestoreDone, Return, memory, Goto, ReaderSteps, PutSteps, RemoveSteps
<1>32. CASE Crash
  <2> HIDE DEF TypeInv, TypeOK, SharedOK, TasksOK, Roles, RestoreInv
  <2>1. /\ resident' = {} /\ queue' = <<>>
        /\ pc' = [t \in Tasks |-> IF t = Restorer THEN "restore" ELSE "idle"]
    BY <1>32, ZenonT(60) DEF Crash
  <2>2. /\ pc'[Restorer] # "idle" /\ pc'[Reaper] = "idle"
        /\ \A t \in Readers \cup Fillers : pc'[t] = "idle"
    BY <2>1, ZenonT(60)
  <2>3. \A k \in 1 .. Len(queue') : FALSE
    BY <2>1
  <2> QED
    BY <2>1, <2>2, <2>3, ZenonT(60) DEF RestoreInv
<1>33. CASE UNCHANGED vars
  BY <1>33, ZenonT(60) DEF vars, memory, locals
<1> QED
  BY <1>1, <1>2, <1>3, <1>4, <1>5, <1>6, <1>7, <1>8, <1>9, <1>10, <1>11,
  <1>12, <1>13, <1>14, <1>15, <1>16, <1>17, <1>18, <1>19, <1>20, <1>21,
  <1>22, <1>23, <1>24, <1>25, <1>26, <1>27, <1>28, <1>29, <1>30, <1>31,
  <1>32, <1>33, ZenonT(60)
  DEF Next, Acquire, Advance, OpenFile, Remove, PutRest, Reap, Restore

----------------------------------------------------------------------------
(* The page files.  Every step is either silent (it leaves files, residents *)
(* and queue alone) or one of ten others.                                    *)

(* Most steps leave the page files, the resident set and the reap queue     *)
(* alone.  What such a step may do to a task: nothing; move between steps    *)
(* that hold no claim on a page; or take a claim its guard justifies.        *)
Holding == {"put_insert", "rm_index", "rm_store", "reap_index", "reap_lock",
            "reap_store"}
Loose == Steps \ (Holding \cup RemoveSteps \cup {"put_store", "get_read"})
SilentMove(u) ==
    \/ pc'[u] = pc[u] /\ page'[u] = page[u]
    \/ pc[u] \notin Holding /\ pc'[u] \in Loose
    \/ /\ page'[u] = page[u]
       /\ \/ pc[u] = "get_lock" /\ pc'[u] = "get_read" /\ page[u] \in resident
          \/ pc[u] = "put_lock" /\ pc'[u] = "put_store" /\ page[u] \notin resident
          \/ pc[u] = "rm_index" /\ pc'[u] = "rm_store"
          \/ pc[u] = "reap_index" /\ pc'[u] = "reap_lock"
          \/ /\ pc[u] = "reap_lock" /\ pc'[u] = "reap_store"
             /\ page[u] \notin resident
    \/ pc[u] = "reap_lock" /\ pc'[u] = "idle" /\ page[u] \in resident
Silent ==
    /\ resident' = resident /\ store' = store
    /\ queue' = queue /\ leaked' = leaked
    /\ todo'[Restorer] = todo[Restorer]
    /\ \A u \in Tasks : SilentMove(u)

(* The other steps. *)
Active ==
    \/ \E t \in Readers \cup Fillers :
         Delete(t) \/ GetExpiredPath(t) \/ RemoveStore(t) \/ PutStore(t)
         \/ PutInsert(t)
    \/ ReapRecv
    \/ ReapStore
    \/ \E f \in Files : RestoreFile(f)
    \/ \E p \in PageIds : RestorePage(p)
    \/ Crash

(* Every step is silent or one of the others. *)
LEMMA SilentStep == TypeInv /\ [Next]_vars => Silent \/ Active
<1> SUFFICES ASSUME TypeInv, [Next]_vars PROVE Silent \/ Active
  BY ZenonT(60)
<1>1. /\ pc \in [Tasks -> Steps] /\ page \in [Tasks -> PageIds \cup {NoPage}]
      /\ todo \in [Tasks -> SUBSET PageIds]
      /\ after \in [Tasks -> {"idle", "delete_next", "fetch"}]
      /\ resident \subseteq PageIds /\ expired \subseteq resident
  BY ZenonT(60) DEF TypeInv, TypeOK, SharedOK, TasksOK
<1>2. /\ {"idle", "open_check", "open_record", "invalidate", "delete_next",
          "delete_lock", "open_update", "get_lock", "expire_lock", "fetch",
          "put_lock", "put_first", "put_version", "put_index", "put_identity",
          "reap_identity", "restore", "restore_page", "restore_index"}
         \subseteq Loose
      /\ {"open_check", "open_record", "invalidate", "delete_next", "open_update",
          "get_lock", "get_read", "idle", "fetch", "put_lock", "put_first",
          "put_version", "put_index", "put_identity", "rm_identity", "reap_identity",
          "restore", "restore_page", "restore_index"} \cap Holding = {}
  BY ZenonT(60) DEF Loose, Holding, Steps, WriteSteps, PutSteps, RemoveSteps
<1> USE <1>1, <1>2, TaskFacts DEF Silent, SilentMove
<1>3. ASSUME NEW f \in Files, Overwrite(f) PROVE Silent
  BY <1>3, ZenonT(60) DEF Overwrite, memory, disk, locals
<1>4. ASSUME NEW p \in PageIds, Expire(p) PROVE Silent
  BY <1>4, ZenonT(60) DEF Expire, disk, locals
<1>5. ASSUME NEW t \in Readers, NEW f \in Files, Open(t, f) PROVE Silent
  BY <1>5, ZenonT(60) DEF Open, Goto, memory, disk, locals
<1>6. ASSUME NEW t \in Readers, NEW i \in PageIdx, Read(t, i) PROVE Silent
  BY <1>6, ZenonT(60) DEF Read, Goto, memory, disk
<1>7. ASSUME NEW t \in Readers \cup Fillers, OpenCheck(t) PROVE Silent
  BY <1>7, ZenonT(60) DEF OpenCheck, Goto, memory, disk, locals
<1>8. ASSUME NEW t \in Readers \cup Fillers, OpenRecord(t) PROVE Silent
  BY <1>8, ZenonT(60) DEF OpenRecord, Goto, disk, locals
<1>9. ASSUME NEW t \in Readers \cup Fillers, Invalidate(t) \/ DeleteNext(t)
      PROVE  Silent
  BY <1>9, ZenonT(60) DEF Invalidate, DeleteNext, Goto, memory, disk
<1>10. ASSUME NEW t \in Readers \cup Fillers, InvalidateDone(t) \/ OpenUpdate(t)
       PROVE  Silent
  BY <1>10, ZenonT(60) DEF InvalidateDone, OpenUpdate, Return, Goto, memory, disk, locals
<1>11. ASSUME NEW t \in Readers \cup Fillers, RemoveIndex(t) PROVE Silent
  BY <1>11, ZenonT(60) DEF RemoveIndex, Unindex, Goto, disk
<1>12. ASSUME NEW t \in Readers \cup Fillers, RemoveIdentity(t) PROVE Silent
  BY <1>12, ZenonT(60) DEF RemoveIdentity, Goto, memory, locals
<1>13. ASSUME NEW t \in Readers \cup Fillers, Get(t) PROVE Silent
  BY <1>13, ZenonT(60) DEF Get, Goto, memory, disk, locals
<1>14. ASSUME NEW t \in Readers \cup Fillers, Hit(t) \/ ReadMiss(t) PROVE Silent
  BY <1>14, ZenonT(60) DEF Hit, ReadMiss, Return, Goto, memory, disk, locals
<1>15. ASSUME NEW t \in Readers \cup Fillers, Fetch(t) PROVE Silent
  <2>1. \A u \in Tasks :
          \/ pc'[u] = pc[u] /\ page'[u] = page[u]
          \/ pc[u] \in {"idle", "fetch"} /\ pc'[u] \in {"idle", "put_lock"}
    BY <1>15, FetchEffect, ZenonT(60) DEF TypeInv, TypeOK
  <2>2. todo'[Restorer] = todo[Restorer]
    BY <1>15, ZenonT(60) DEF Fetch, FillSync, schedule_fill, Return
  <2> QED
    BY <1>15, <2>1, <2>2, ZenonT(60) DEF Fetch, memory, disk
<1>16. ASSUME NEW t \in Readers \cup Fillers, Put(t) PROVE Silent
  BY <1>16, ZenonT(60) DEF Put, Return, Goto, memory, disk, locals
<1>17. ASSUME NEW t \in Readers \cup Fillers, PutFirst(t) \/ PutVersion(t)
       PROVE  Silent
  BY <1>17, ZenonT(60) DEF PutFirst, PutVersion, Goto, memory, disk
<1>18. ASSUME NEW t \in Readers \cup Fillers, PutIndex(t) \/ PutIdentity(t)
       PROVE  Silent
  BY <1>18
  DEF PutIndex, PutIdentity, PutReturn, Return, Goto, memory, disk, locals
<1>19. CASE ReapIndex
  BY <1>19, ZenonT(60) DEF ReapIndex, Unindex, Goto, disk
<1>20. CASE ReapLock
  BY <1>20, ZenonT(60) DEF ReapLock, Return, Goto, memory, disk, locals
<1>21. CASE ReapIdentity
  BY <1>21, ZenonT(60) DEF ReapIdentity, Return, Goto, memory
<1>22. CASE RestoreIndex
  BY <1>22, ZenonT(60) DEF RestoreIndex, Goto, disk
<1>23. CASE RestoreFileDone
  BY <1>23, ZenonT(60) DEF RestoreFileDone, Goto
<1>24. CASE RestoreDone
  BY <1>24, ZenonT(60) DEF RestoreDone, Return, Goto, memory, disk
<1>25. CASE UNCHANGED vars
  BY <1>25, ZenonT(60) DEF vars, memory, disk, locals
<1> HIDE <1>1, <1>2, TaskFacts DEF Silent, SilentMove
<1>26. ASSUME NEW t \in Readers \cup Fillers, Acquire(t) PROVE Silent \/ Active
  BY <1>26, <1>13, <1>16, ZenonT(60) DEF Acquire, Active
<1>27. ASSUME NEW t \in Readers \cup Fillers, Advance(t) PROVE Silent \/ Active
  BY <1>27, <1>7, <1>8, <1>9, <1>10, <1>11, <1>12, <1>14, <1>15, <1>17, <1>18, ZenonT(60)
  DEF Advance, OpenFile, Remove, PutRest, Active
<1>28. CASE Reap \/ Restore
  BY <1>28, <1>19, <1>21, <1>22, <1>23, <1>24, ZenonT(60) DEF Reap, Restore, Active
<1> QED
  BY <1>3, <1>4, <1>5, <1>6, <1>20, <1>25, <1>26, <1>27, <1>28, ZenonT(60) DEF Next, Active

(* The three clauses of the invariant that are about page files. *)
Backed == AbsentInv /\ ResidentBacked /\ HitReadable

(* What a step does to the page files and to the resident set. *)
StoreKept ==
    /\ \A q \in resident' : store'[q] = store[q]
    /\ \A t \in Readers : pc[t] = "get_read" => store'[page[t]] = store[page[t]]
    /\ \/ resident' \subseteq resident
       \/ \E p \in PageIds \ resident : resident' \subseteq resident \cup {p}

----------------------------------------------------------------------------
(* A write step excludes every other writer and every reader of the page. *)
LEMMA Exclusive ==
  ASSUME TypeInv, LockInv, NEW t \in Tasks, pc[t] \in WriteSteps
  PROVE  /\ page[t] \in PageIds
         /\ \A u \in Tasks \ {t} :
              pc[u] \in WriteSteps \cup {"get_read"} => page[u] # page[t]
<1>1. page[t] \in PageIds
  BY ZenonT(60) DEF TypeInv, PageInHand, PageSteps
<1>2. LockIndex[page[t]] \in Stripes
  BY <1>1, LockIndexAssumption, ZenonT(60)
<1>3. writer[LockIndex[page[t]]] = t /\ t # NoTask
  BY TaskFacts, ZenonT(60) DEF LockInv, Stripe
<1>4. readers[LockIndex[page[t]]] = {}
  BY <1>2, <1>3, ZenonT(60) DEF LockInv
<1> QED
  BY <1>1, <1>3, <1>4, ZenonT(60) DEF LockInv, Stripe

(* A step that writes or deletes the file of the page it has locked, which  *)
(* is not resident, harms no other page and no reader.                      *)
LEMMA StoreStepBacked ==
  ASSUME IInv, NEW t \in Tasks, pc[t] \in WriteSteps,
         page[t] \notin resident, resident' = resident,
         \A p \in PageIds : p # page[t] => store'[p] = store[p],
         \A u \in Tasks \ {t} : pc'[u] = pc[u] /\ page'[u] = page[u],
         pc'[t] # "get_read",
         pc'[t] \in RemoveSteps \cup {"put_store", "put_insert", "reap_store"}
         => page'[t] = page[t],
         pc'[t] = "put_insert" => store'[page[t]] # 0
  PROVE  Backed' /\ StoreKept
<1>1. /\ page[t] \in PageIds
      /\ \A u \in Tasks \ {t} :
           pc[u] \in WriteSteps \cup {"get_read"} => page[u] # page[t]
  BY Exclusive, ZenonT(60) DEF IInv
<1>2. \A u \in Tasks : pc[u] \in {"put_insert", "get_read"} => page[u] \in PageIds
  BY ZenonT(60) DEF IInv, TypeInv, PageInHand, PageSteps, WriteSteps, PutSteps
<1>3. resident \subseteq PageIds /\ AbsentInv /\ ResidentBacked /\ HitReadable
  BY ZenonT(60) DEF IInv, TypeInv, TypeOK, SharedOK
<1>4. AbsentInv'
  BY <1>1, <1>2, <1>3, ZenonT(60) DEF AbsentInv, WriteSteps, PutSteps
<1>5. ResidentBacked'
  BY <1>3, ZenonT(60) DEF ResidentBacked
<1>6. "get_read" \notin WriteSteps
  BY ZenonT(60) DEF WriteSteps, PutSteps, RemoveSteps
<1>7. \A u \in Readers : pc[u] = "get_read" => store'[page[u]] = store[page[u]]
  BY <1>1, <1>2, <1>6, TaskFacts, ZenonT(60)
<1>8. HitReadable'
  BY <1>3, <1>7, TaskFacts DEF HitReadable
<1> QED
  BY <1>3, <1>4, <1>5, <1>7, <1>8, ZenonT(60) DEF StoreKept, Backed

(* No step breaks the residents, the readers or the absent pages. *)
LEMMA BackedStep == IInv /\ [Next]_vars => Backed' /\ StoreKept
<1> SUFFICES ASSUME IInv, [Next]_vars PROVE Backed' /\ StoreKept
  BY ZenonT(60)
<1>a. /\ pc \in [Tasks -> Steps] /\ page \in [Tasks -> PageIds \cup {NoPage}]
      /\ store \in [PageIds -> Ver] /\ resident \subseteq PageIds
      /\ after \in [Tasks -> {"idle", "delete_next", "fetch"}]
      /\ expired \subseteq resident
  BY ZenonT(60) DEF IInv, TypeInv, TypeOK, SharedOK, TasksOK
<1>b. AbsentInv /\ ResidentBacked /\ HitReadable
  BY ZenonT(60) DEF IInv
<1>c. LockInv /\ RestoreInv /\ BytesInv /\ Roles /\ PageInHand /\ SharedOK /\ TypeInv
  BY ZenonT(60) DEF IInv, TypeInv, TypeOK
<1> USE <1>a, <1>b, TaskFacts
<1>1. CASE Silent
  <2>1. resident' = resident /\ store' = store
    BY <1>1, ZenonT(60) DEF Silent
  <2>2. ASSUME NEW u \in Tasks, SilentMove(u)
        PROVE  /\ pc'[u] \in RemoveSteps \cup {"put_store", "put_insert", "reap_store"}
                  => page'[u] \notin resident
               /\ pc'[u] = "put_insert" => store[page'[u]] # 0
               /\ pc'[u] = "get_read" =>
                    \/ page'[u] \in resident
                    \/ pc[u] = "get_read" /\ page'[u] = page[u]
    BY <2>2, ZenonT(60) DEF SilentMove, AbsentInv, Loose, Holding, RemoveSteps
  <2>3. AbsentInv' /\ HitReadable'
    BY <1>1, <2>1, <2>2, ZenonT(60) DEF Silent, AbsentInv, HitReadable, ResidentBacked
  <2> QED
    BY <2>1, <2>3, ZenonT(60) DEF StoreKept, ResidentBacked, Backed
<1>2. ASSUME NEW t \in Readers \cup Fillers, Delete(t) \/ GetExpiredPath(t)
      PROVE  Backed' /\ StoreKept
  <2>1. resident' \subseteq resident /\ store' = store
    BY <1>2, ZenonT(60) DEF Delete, GetExpiredPath, disk
  <2>2. /\ \A u \in Tasks \ {t} : pc'[u] = pc[u] /\ page'[u] = page[u]
        /\ \/ pc'[t] \in {"idle", "delete_next", "fetch"}
           \/ pc'[t] = "rm_index" /\ page'[t] = page[t] /\ page[t] \notin resident'
    BY <1>2, ZenonT(60) DEF Delete, GetExpiredPath, Goto, locals
  <2>3. AbsentInv'
    BY <2>1, <2>2, ZenonT(60) DEF AbsentInv, RemoveSteps
  <2>4. HitReadable' /\ ResidentBacked' /\ StoreKept
    BY <2>1, <2>2, ZenonT(60) DEF HitReadable, ResidentBacked, StoreKept
  <2> QED
    BY <2>3, <2>4, ZenonT(60) DEF Backed
<1>3. ASSUME NEW t \in Readers \cup Fillers, RemoveStore(t)
      PROVE  Backed' /\ StoreKept
  <2>1. page[t] \notin resident
    BY <1>3, ZenonT(60) DEF RemoveStore, RemoveSteps, AbsentInv
  <2>2. \A p \in PageIds : p # page[t] => store'[p] = store[p]
    BY <1>3, ZenonT(60) DEF RemoveStore, StoreDelete
  <2>3. resident' = resident /\ page' = page
    BY <1>3, ZenonT(60) DEF RemoveStore, memory, locals
  <2>4. /\ \A u \in Tasks \ {t} : pc'[u] = pc[u]
        /\ pc'[t] \notin {"get_read", "put_insert"}
    BY <1>3, ZenonT(60) DEF RemoveStore, Goto
  <2>5. pc[t] \in WriteSteps
    BY <1>3, ZenonT(60) DEF RemoveStore, WriteSteps, RemoveSteps
  <2> QED
    BY <2>1, <2>2, <2>3, <2>4, <2>5, StoreStepBacked, ZenonT(60)
<1>4. ASSUME NEW t \in Readers \cup Fillers, PutStore(t)
      PROVE  Backed' /\ StoreKept
  <2>1. page[t] \notin resident /\ data[t] # 0 /\ pc[t] \in WriteSteps
    BY <1>4, <1>c, ZenonT(60) DEF PutStore, BytesInv, WriteSteps, PutSteps, AbsentInv
  <2>2. page[t] \in PageIds
    BY <1>c, <2>1, ZenonT(60) DEF PageInHand, PageSteps
  <2>3. /\ \A p \in PageIds : p # page[t] => store'[p] = store[p]
        /\ resident' = resident
    BY <1>4, ZenonT(60) DEF PutStore, memory
  <2>4. CASE store' = [store EXCEPT ![page[t]] = data[t]] /\ Goto(t, "put_insert")
             /\ page' = page
    BY <2>1, <2>2, <2>3, <2>4, StoreStepBacked DEF Goto
  <2>5. CASE PutReturn(t)
    BY <2>1, <2>3, <2>5, StoreStepBacked, ZenonT(60)
    DEF PutReturn, Return, Goto, RemoveSteps
  <2> QED
    BY <1>4, <2>4, <2>5, ZenonT(60) DEF PutStore, locals
<1>5. ASSUME NEW t \in Readers \cup Fillers, PutInsert(t)
      PROVE  Backed' /\ StoreKept
  <2>1. /\ page[t] \in PageIds \ resident
        /\ store[page[t]] # 0 /\ store' = store /\ pc[t] \in WriteSteps
    BY <1>5, <1>c, ZenonT(60)
    DEF PutInsert, PageInHand, PageSteps, WriteSteps, PutSteps, AbsentInv
  <2>2. resident' \subseteq resident \cup {page[t]}
    BY <1>5, <1>c, <2>1, InsertEffect, ZenonT(60) DEF PutInsert
  <2>3. /\ \A u \in Tasks \ {t} : pc'[u] = pc[u] /\ page'[u] = page[u]
        /\ pc'[t] \in {"put_first", "idle"}
    BY <1>5, ZenonT(60) DEF PutInsert, PutReturn, Return, Goto, locals
  <2>4. \A u \in Tasks \ {t} : pc[u] \in WriteSteps => page[u] # page[t]
    BY <1>c, <2>1, Exclusive, ZenonT(60)
  <2>5. AbsentInv'
    BY <2>1, <2>2, <2>3, <2>4 DEF AbsentInv, WriteSteps, PutSteps, RemoveSteps
  <2>6. ResidentBacked' /\ HitReadable' /\ StoreKept
    BY <2>1, <2>2, <2>3, ZenonT(60) DEF ResidentBacked, HitReadable, StoreKept
  <2> QED
    BY <2>5, <2>6, ZenonT(60) DEF Backed
<1>6. CASE ReapRecv
  <2>1. resident' = resident /\ store' = store
    BY <1>6, ZenonT(60) DEF ReapRecv, disk
  <2>2. /\ \A u \in Tasks \ {Reaper} : pc'[u] = pc[u] /\ page'[u] = page[u]
        /\ pc'[Reaper] = "reap_index"
    BY <1>6, ZenonT(60) DEF ReapRecv, Goto
  <2>3. AbsentInv'
    BY <2>1, <2>2, ZenonT(60) DEF AbsentInv, RemoveSteps
  <2> QED
    BY <2>1, <2>2, <2>3, ZenonT(60) DEF HitReadable, ResidentBacked, StoreKept, Backed
<1>7. CASE ReapStore
  <2>1. page[Reaper] \notin resident /\ pc[Reaper] \in WriteSteps
    BY <1>7, ZenonT(60) DEF ReapStore, WriteSteps, AbsentInv
  <2>2. /\ \A p \in PageIds : p # page[Reaper] => store'[p] = store[p]
        /\ resident' = resident
    BY <1>7, ZenonT(60) DEF ReapStore, StoreDelete, memory
  <2>3. /\ \A t \in Tasks \ {Reaper} : pc'[t] = pc[t] /\ page'[t] = page[t]
        /\ pc'[Reaper] \in {"idle", "reap_identity"}
    BY <1>7, ZenonT(60) DEF ReapStore, Goto, Return, locals
  <2> QED
    BY <2>1, <2>2, <2>3, StoreStepBacked, ZenonT(60) DEF RemoveSteps
<1>8. ASSUME pc[Restorer] # "idle"
      PROVE  /\ \A t \in Readers : pc[t] # "get_read"
             /\ \A t \in Tasks : pc[t] # "put_insert"
             /\ \A t \in Tasks : pc[t] \in RemoveSteps \cup {"put_store", "put_insert"}
                                 => FALSE
  BY <1>8, <1>c, ZenonT(60) DEF RestoreInv, Roles, ReaperSteps, RestorerSteps, Tasks,
                    RemoveSteps
<1>9. ASSUME NEW f \in Files, RestoreFile(f) PROVE Backed' /\ StoreKept
  <2>1. \A p \in resident : p \in PageIds /\ p \notin todo[Restorer]
    BY <1>c, ZenonT(60) DEF RestoreInv
  <2>2. \A p \in resident : store'[p] = store[p]
    BY <1>9, <2>1, ZenonT(60) DEF RestoreFile, FilePages, PageIds
  <2>3. /\ page' = page /\ resident' = resident /\ pc[Restorer] # "idle"
        /\ \A t \in Tasks \ {Restorer} : pc'[t] = pc[t]
        /\ pc'[Restorer] \in {"restore", "restore_page"}
    BY <1>9, ZenonT(60) DEF RestoreFile, Goto, memory
  <2>4. AbsentInv'
    BY <1>8, <2>3, ZenonT(60) DEF AbsentInv, RemoveSteps
  <2> QED
    BY <1>8, <2>2, <2>3, <2>4, ZenonT(60) DEF HitReadable, ResidentBacked, StoreKept, Backed
<1>10. ASSUME NEW p \in PageIds, RestorePage(p) PROVE Backed' /\ StoreKept
  <2>1. pc[Restorer] = "restore_page" /\ p \in todo[Restorer] /\ store' = store
    BY <1>10, ZenonT(60) DEF RestorePage
  <2>2. p \notin resident /\ (pc[Reaper] # "idle" => page[Reaper] # p)
    BY <1>c, <2>1, ZenonT(60) DEF RestoreInv
  <2>3. /\ resident' \subseteq resident \cup {p}
        /\ p \in resident' => store[p] # 0
    BY <1>10, <1>c, <2>2, InsertEffect, ZenonT(60) DEF RestorePage
  <2>4. /\ \A t \in Tasks \ {Restorer} : pc'[t] = pc[t] /\ page'[t] = page[t]
        /\ pc'[Restorer] \in {"restore_page", "restore_index"}
    BY <1>10, <2>1, ZenonT(60) DEF RestorePage, Goto
  <2>5. \A t \in Tasks : pc'[t] = "reap_store" => t = Reaper
    BY <1>8, <1>c, <2>1, <2>4, ZenonT(60) DEF Roles, Tasks, RestoreInv
  <2>6. AbsentInv'
    BY <1>8, <2>1, <2>2, <2>3, <2>4, <2>5 DEF AbsentInv, RemoveSteps
  <2>7. ResidentBacked' /\ HitReadable' /\ StoreKept
    BY <1>8, <2>1, <2>2, <2>3, <2>4, ZenonT(60) DEF HitReadable, ResidentBacked, StoreKept
  <2> QED
    BY <2>6, <2>7, ZenonT(60) DEF Backed
<1>11. CASE Crash
  <2>1. resident' = {} /\ store' = store
    BY <1>11, ZenonT(60) DEF Crash
  <2>2. \A t \in Tasks : pc'[t] \in {"idle", "restore"}
    BY <1>11, ZenonT(60) DEF Crash
  <2> QED
    BY <2>1, <2>2, ZenonT(60)
    DEF HitReadable, ResidentBacked, StoreKept, AbsentInv, RemoveSteps, Backed
<1> QED
  BY <1>c, <1>1, <1>2, <1>3, <1>4, <1>5, <1>6, <1>7, <1>9, <1>10, <1>11,
      SilentStep, ZenonT(60)
  DEF Active

-----------------------------------------------------------------------------
(* Nobody fetches or puts "no bytes". *)
LEMMA BytesStep == TypeInv /\ BytesInv /\ [Next]_vars => BytesInv'
<1> SUFFICES ASSUME TypeInv /\ BytesInv, [Next]_vars PROVE BytesInv'
  BY ZenonT(60)
<1> USE TaskFacts, TasksAssumption, VerFacts
  DEF TypeInv, TypeOK, SharedOK, TasksOK, Roles, BytesInv
<1>1. ASSUME NEW t \in Readers \cup Fillers,
             OpenCheck(t) \/ OpenRecord(t) \/ Invalidate(t)
             \/ DeleteNext(t) \/ InvalidateDone(t) \/ OpenUpdate(t)
      PROVE  BytesInv'
  BY <1>1, ZenonT(60)
  DEF OpenCheck, Goto, stream, locals, OpenRecord, Invalidate, DeleteNext,
  InvalidateDone, OpenUpdate, Return, ReaderSteps, PutSteps, RemoveSteps
<1>2. ASSUME NEW f \in Files, Overwrite(f) PROVE BytesInv'
  BY <1>2, ZenonT(60)
  DEF Overwrite, stream, locals, ReaderSteps, PutSteps, RemoveSteps
<1>3. ASSUME NEW p \in PageIds, Expire(p) PROVE BytesInv'
  BY <1>3, ZenonT(60)
  DEF Expire, stream, locals, ReaderSteps, PutSteps, RemoveSteps
<1>4. ASSUME NEW t \in Readers, NEW f \in Files, Open(t, f) PROVE BytesInv'
  BY <1>4, ZenonT(60)
  DEF Open, Running, Goto, locals, ReaderSteps, PutSteps, RemoveSteps
<1>5. ASSUME NEW t \in Readers, NEW i \in PageIdx, Read(t, i) PROVE BytesInv'
  BY <1>5, ZenonT(60)
  DEF Read, Running, Goto, stream, ReaderSteps, PutSteps, RemoveSteps
<1>6. ASSUME NEW t \in Readers \cup Fillers, Delete(t) PROVE BytesInv'
  BY <1>6, ZenonT(60)
  DEF Delete, Goto, stream, locals, ReaderSteps, PutSteps, RemoveSteps
<1>7. ASSUME NEW t \in Readers \cup Fillers, GetExpiredPath(t) PROVE BytesInv'
  BY <1>7, ZenonT(60)
  DEF GetExpiredPath, Goto, stream, ReaderSteps, PutSteps, RemoveSteps
<1>8. ASSUME NEW t \in Readers \cup Fillers, Get(t) PROVE BytesInv'
  BY <1>8
  DEF Get, Goto, stream, locals, ReaderSteps, PutSteps, RemoveSteps
<1>9. ASSUME NEW t \in Readers \cup Fillers, Put(t) PROVE BytesInv'
  BY <1>9
  DEF Put, Goto, locals, Return, stream, ReaderSteps, PutSteps, RemoveSteps
<1>10. ASSUME NEW t \in Readers \cup Fillers, RemoveIndex(t) PROVE BytesInv'
  BY <1>10, ZenonT(60)
  DEF RemoveIndex, Unindex, Goto, stream, ReaderSteps, PutSteps, RemoveSteps
<1>11. ASSUME NEW t \in Readers \cup Fillers, RemoveStore(t) PROVE BytesInv'
  BY <1>11, ZenonT(60)
  DEF RemoveStore, Goto, stream, locals, ReaderSteps, PutSteps, RemoveSteps
<1>12. ASSUME NEW t \in Readers \cup Fillers, RemoveIdentity(t) PROVE BytesInv'
  BY <1>12, ZenonT(60)
  DEF RemoveIdentity, Goto, stream, locals, ReaderSteps, PutSteps,
  RemoveSteps
<1>13. ASSUME NEW t \in Readers \cup Fillers, Hit(t) PROVE BytesInv'
  BY <1>13, ZenonT(60)
  DEF Hit, Return, stream, Goto, ReaderSteps, PutSteps, RemoveSteps
<1>14. ASSUME NEW t \in Readers \cup Fillers, ReadMiss(t) PROVE BytesInv'
  BY <1>14, ZenonT(60)
  DEF ReadMiss, Goto, stream, locals, ReaderSteps, PutSteps, RemoveSteps
<1>15. ASSUME NEW t \in Readers \cup Fillers, Fetch(t) PROVE BytesInv'
  <2>1. t \in Readers /\ ver[t] # 0 /\ server[file[t]] # 0
    BY <1>15, ZenonT(60) DEF Fetch, FillerSteps, PutSteps
  <2>2. UNCHANGED <<server, ver>>
    BY <1>15, ZenonT(60) DEF Fetch, stream
  <2>3. \A u \in Tasks :
          \/ pc'[u] = pc[u] /\ page'[u] = page[u] /\ data'[u] = data[u]
          \/ pc'[u] = "idle"
          \/ /\ u \in Fillers \cup {t} /\ pc'[u] = "put_lock"
             /\ data'[u] \in {ver[t], server[file[t]]}
    BY <1>15, FetchEffect, ZenonT(60)
  <2> QED
    BY <2>1, <2>2, <2>3, ZenonT(60)
<1>16. ASSUME NEW t \in Readers \cup Fillers, PutStore(t) PROVE BytesInv'
  BY <1>16
  DEF PutStore, Goto, locals, PutReturn, stream, Return, ReaderSteps,
  PutSteps, RemoveSteps
<1>17. ASSUME NEW t \in Readers \cup Fillers, PutInsert(t) PROVE BytesInv'
  BY <1>17
  DEF PutInsert, Goto, locals, PutReturn, stream, Return, ReaderSteps,
  PutSteps, RemoveSteps
<1>18. ASSUME NEW t \in Readers \cup Fillers, PutFirst(t) PROVE BytesInv'
  BY <1>18, ZenonT(60)
  DEF PutFirst, Goto, stream, ReaderSteps, PutSteps, RemoveSteps
<1>19. ASSUME NEW t \in Readers \cup Fillers, PutVersion(t) PROVE BytesInv'
  BY <1>19, ZenonT(60)
  DEF PutVersion, Goto, stream, ReaderSteps, PutSteps, RemoveSteps
<1>20. ASSUME NEW t \in Readers \cup Fillers, PutIndex(t) PROVE BytesInv'
  BY <1>20
  DEF PutIndex, Goto, locals, PutReturn, stream, Return, ReaderSteps,
  PutSteps, RemoveSteps
<1>21. ASSUME NEW t \in Readers \cup Fillers, PutIdentity(t) PROVE BytesInv'
  BY <1>21, ZenonT(60)
  DEF PutIdentity, PutReturn, stream, Return, Goto, ReaderSteps, PutSteps,
  RemoveSteps
<1>22. CASE ReapLock
  BY <1>22
  DEF ReapLock, Goto, locals, Return, stream, ReaderSteps, PutSteps,
  RemoveSteps
<1>23. CASE ReapRecv
  BY <1>23, ZenonT(60)
  DEF ReapRecv, Goto, stream, ReaderSteps, PutSteps, RemoveSteps
<1>24. CASE ReapIndex
  BY <1>24, ZenonT(60)
  DEF ReapIndex, Unindex, Goto, stream, ReaderSteps, PutSteps, RemoveSteps
<1>25. CASE ReapStore
  BY <1>25, ZenonT(60)
  DEF ReapStore, Goto, locals, Return, stream, ReaderSteps, PutSteps,
  RemoveSteps
<1>26. CASE ReapIdentity
  BY <1>26, ZenonT(60)
  DEF ReapIdentity, Return, stream, Goto, ReaderSteps, PutSteps, RemoveSteps
<1>27. ASSUME NEW f \in Files, RestoreFile(f) PROVE BytesInv'
  BY <1>27, ZenonT(60)
  DEF RestoreFile, Goto, ReaderSteps, PutSteps, RemoveSteps
<1>28. ASSUME NEW p \in PageIds, RestorePage(p) PROVE BytesInv'
  BY <1>28
  DEF RestorePage, Goto, stream, ReaderSteps, PutSteps, RemoveSteps
<1>29. CASE RestoreIndex
  BY <1>29, ZenonT(60)
  DEF RestoreIndex, Goto, stream, ReaderSteps, PutSteps, RemoveSteps
<1>30. CASE RestoreFileDone
  BY <1>30, ZenonT(60)
  DEF RestoreFileDone, Goto, stream, ReaderSteps, PutSteps, RemoveSteps
<1>31. CASE RestoreDone
  BY <1>31, ZenonT(60)
  DEF RestoreDone, Return, stream, Goto, ReaderSteps, PutSteps, RemoveSteps
<1>32. CASE Crash
  BY <1>32, ZenonT(60)
  DEF Crash, ReaderSteps, PutSteps, RemoveSteps
<1>33. CASE UNCHANGED vars
  BY <1>33, ZenonT(60) DEF vars, stream, locals
<1> QED
  BY <1>1, <1>2, <1>3, <1>4, <1>5, <1>6, <1>7, <1>8, <1>9, <1>10, <1>11,
  <1>12, <1>13, <1>14, <1>15, <1>16, <1>17, <1>18, <1>19, <1>20, <1>21,
  <1>22, <1>23, <1>24, <1>25, <1>26, <1>27, <1>28, <1>29, <1>30, <1>31,
  <1>32, <1>33, ZenonT(60)
  DEF Next, Acquire, Advance, OpenFile, Remove, PutRest, Reap, Restore
----------------------------------------------------------------------------
(* A queued page stays accounted when the queue only grows. *)
LEMMA InsertAccounts ==
  ASSUME SharedOK, FilesAccounted, NEW p \in PageIds, Insert(p), store' = store,
         NEW t \in Tasks,
         \A u \in Tasks \ {t} : pc'[u] = pc[u] /\ page'[u] = page[u],
         page[t] = p \/ pc[t] \notin Holding,
         todo[Restorer] \subseteq todo'[Restorer] \cup {p}
  PROVE  FilesAccounted'
<1> SUFFICES ASSUME NEW q \in PageIds, q \notin resident', store[q] # 0
             PROVE  Accounted(q)'
  BY ZenonT(60) DEF FilesAccounted
<1>1. CASE q \in resident \cup {p}
  BY <1>1, InsertEffect, ZenonT(60) DEF Accounted
<1>2. CASE q \notin resident \cup {p}
  <2>1. Accounted(q) /\ q # p
    BY <1>2, ZenonT(60) DEF FilesAccounted
  <2>2. /\ leaked \subseteq leaked'
        /\ \A j \in 1 .. Len(queue) :
             \E k \in 1 .. Len(queue') : queue'[k] = queue[j]
    BY InsertEffect, ZenonT(60)
  <2>4. (\E k \in 1 .. Len(queue) : queue[k] = q)
        => \E k \in 1 .. Len(queue') : queue'[k] = q
    BY <2>2, ZenonT(60)
  <2>3. \A u \in Tasks : page[u] = q /\ pc[u] \in Holding
                         => pc'[u] = pc[u] /\ page'[u] = q
    BY <2>1, ZenonT(60)
  <2> QED
    BY <2>1, <2>2, <2>3, <2>4, TaskFacts, ZenonT(60) DEF Accounted, Holding
<1> QED
  BY <1>1, <1>2, ZenonT(60)

(* A step that deletes or writes the file of its own page accounts for it, *)
(* and leaves every other page's account alone.                            *)
LEMMA StoreAccounts ==
  ASSUME FilesAccounted, NEW t \in Tasks, NEW p \in PageIds, p = page[t],
         resident' = resident, queue' = queue,
         \A q \in PageIds \ {p} :
           store'[q] = store[q] /\ (q \in leaked => q \in leaked'),
         \A u \in Tasks \ {t} : pc'[u] = pc[u] /\ page'[u] = page[u],
         todo'[Restorer] = todo[Restorer],
         store'[p] # 0 => Accounted(p)'
  PROVE  FilesAccounted'
<1> SUFFICES ASSUME NEW q \in PageIds, q \notin resident, store'[q] # 0, q # p
             PROVE  Accounted(q)'
  BY ZenonT(60) DEF FilesAccounted
<1>1. Accounted(q)
  BY ZenonT(60) DEF FilesAccounted
<1>2. \A u \in Tasks : page[u] = q => pc'[u] = pc[u] /\ page'[u] = q
  BY ZenonT(60)
<1> QED
  BY <1>1, <1>2, TaskFacts, ZenonT(60) DEF Accounted

(* No step loses the account of a page file. *)
LEMMA AccountedStep == TypeInv /\ FilesAccounted /\ [Next]_vars => FilesAccounted'
<1> SUFFICES ASSUME TypeInv, FilesAccounted, [Next]_vars PROVE FilesAccounted'
  BY ZenonT(60)
<1>a. /\ pc \in [Tasks -> Steps] /\ page \in [Tasks -> PageIds \cup {NoPage}]
      /\ store \in [PageIds -> Ver] /\ resident \subseteq PageIds
      /\ after \in [Tasks -> {"idle", "delete_next", "fetch"}]
      /\ expired \subseteq resident /\ todo \in [Tasks -> SUBSET PageIds]
      /\ queue \in Seq(PageIds) /\ SharedOK
  BY ZenonT(60) DEF TypeInv, TypeOK, SharedOK, TasksOK
<1>b. PageInHand
  BY ZenonT(60) DEF TypeInv
<1> USE <1>a, TaskFacts
<1>1. CASE Silent
  <2> SUFFICES ASSUME NEW q \in PageIds, q \notin resident, Accounted(q)
               PROVE  Accounted(q)'
    BY <1>1, ZenonT(60) DEF Silent, FilesAccounted
  <2>1. ASSUME NEW u \in Tasks, page[u] = q, pc[u] \in Holding
        PROVE  /\ page'[u] = q
               /\ \/ pc'[u] = pc[u]
                  \/ pc[u] = "rm_index" /\ pc'[u] = "rm_store"
                  \/ pc[u] \in {"reap_index", "reap_lock"}
                     /\ pc'[u] \in {"reap_lock", "reap_store"}
    BY <1>1, <2>1, ZenonT(60) DEF Silent, SilentMove, Holding
  <2> QED
    BY <1>1, <2>1, ZenonT(60) DEF Silent, Accounted, Holding
<1>2. ASSUME NEW t \in Readers \cup Fillers, Delete(t) \/ GetExpiredPath(t)
      PROVE  FilesAccounted'
  <2>1. /\ \A u \in Tasks \ {t} : pc'[u] = pc[u] /\ page'[u] = page[u]
        /\ UNCHANGED <<store, queue, leaked, todo>>
        /\ pc[t] \notin Holding
    BY <1>2, ZenonT(60) DEF Delete, GetExpiredPath, Goto, locals, disk, Holding
  <2>2. \/ resident' = resident
        \/ resident' = resident \ {page[t]} /\ pc'[t] = "rm_index" /\ page'[t] = page[t]
    BY <1>2, ZenonT(60) DEF Delete, GetExpiredPath, Goto, locals
  <2> SUFFICES ASSUME NEW q \in PageIds, q \notin resident', store[q] # 0
               PROVE  Accounted(q)'
    BY <2>1, ZenonT(60) DEF FilesAccounted
  <2>3. CASE q \in resident
    BY <2>2, <2>3, ZenonT(60) DEF Accounted
  <2>4. CASE q \notin resident
    <3>1. Accounted(q)
      BY <2>4, ZenonT(60) DEF FilesAccounted
    <3> QED
      BY <2>1, <3>1, ZenonT(60) DEF Accounted, Holding
  <2> QED
    BY <2>3, <2>4, ZenonT(60)
<1>3. ASSUME NEW t \in Readers \cup Fillers, RemoveStore(t) PROVE FilesAccounted'
  <2>4. PICK p \in PageIds : p = page[t]
    BY <1>3, <1>b, ZenonT(60)
    DEF RemoveStore, PageInHand, PageSteps, WriteSteps, RemoveSteps
  <2>1. /\ \A q \in PageIds \ {p} :
             store'[q] = store[q] /\ (q \in leaked => q \in leaked')
        /\ store'[p] # 0 => p \in leaked'
    BY <1>3, <2>4, ZenonT(60) DEF RemoveStore, StoreDelete
  <2>2. \A u \in Tasks \ {t} : pc'[u] = pc[u] /\ page'[u] = page[u]
    BY <1>3, ZenonT(60) DEF RemoveStore, Goto, locals
  <2>3. resident' = resident /\ queue' = queue /\ todo' = todo
    BY <1>3, ZenonT(60) DEF RemoveStore, memory, locals
  <2> QED
    BY <2>1, <2>2, <2>3, <2>4, StoreAccounts, ZenonT(60) DEF Accounted
<1>4. ASSUME NEW t \in Readers \cup Fillers, PutStore(t) PROVE FilesAccounted'
  <2>1. /\ resident' = resident /\ queue' = queue /\ pc[t] = "put_store"
        /\ todo'[Restorer] = todo[Restorer]
        /\ \A u \in Tasks \ {t} : pc'[u] = pc[u] /\ page'[u] = page[u]
    BY <1>4, ZenonT(60) DEF PutStore, PutReturn, Return, Goto, memory, locals
  <2>2. CASE pc'[t] = "put_insert" /\ page'[t] = page[t]
    <3>1. PICK p \in PageIds : p = page[t]
      BY <1>b, <2>1, ZenonT(60) DEF PageInHand, PageSteps, WriteSteps, PutSteps
    <3>2. \A q \in PageIds \ {p} :
            store'[q] = store[q] /\ (q \in leaked => q \in leaked')
      BY <1>4, <3>1, ZenonT(60) DEF PutStore
    <3> QED
      BY <2>1, <2>2, <3>1, <3>2, StoreAccounts, ZenonT(60) DEF Accounted
  <2>3. CASE store' = store /\ leaked' = leaked
    <3> SUFFICES ASSUME NEW q \in PageIds, Accounted(q) PROVE Accounted(q)'
      BY <2>1, <2>3, ZenonT(60) DEF FilesAccounted
    <3> QED
      BY <2>1, <2>3, ZenonT(60) DEF Accounted
  <2> QED
    BY <1>4, <2>2, <2>3, ZenonT(60) DEF PutStore, Goto, locals
<1>5. ASSUME NEW t \in Readers \cup Fillers, PutInsert(t) PROVE FilesAccounted'
  <2>1. page[t] \in PageIds
    BY <1>5, <1>b, ZenonT(60) DEF PutInsert, PageInHand, PageSteps, WriteSteps, PutSteps
  <2>2. /\ \A u \in Tasks \ {t} : pc'[u] = pc[u] /\ page'[u] = page[u]
        /\ todo'[Restorer] = todo[Restorer] /\ store' = store
    BY <1>5, ZenonT(60) DEF PutInsert, PutReturn, Goto, Return, locals
  <2> QED
    BY <1>5, <2>1, <2>2, InsertAccounts, ZenonT(60) DEF PutInsert
<1>6. CASE ReapRecv
  <2>1. /\ queue # <<>> /\ queue' = Tail(queue)
        /\ pc[Reaper] = "idle" /\ pc'[Reaper] = "reap_index"
        /\ page'[Reaper] = Head(queue)
        /\ UNCHANGED <<resident, store, leaked, todo>>
        /\ \A u \in Tasks \ {Reaper} : pc'[u] = pc[u] /\ page'[u] = page[u]
    BY <1>6, ZenonT(60) DEF ReapRecv, Goto, disk
  <2>2. /\ Len(queue') = Len(queue) - 1 /\ Len(queue) \in Nat
        /\ Head(queue) = queue[1]
        /\ \A j \in 1 .. Len(queue') : queue'[j] = queue[j + 1]
    BY <2>1, TailPlaces, ZenonT(60) DEF TypeInv, TypeOK, SharedOK
  <2>3. \A k \in 1 .. Len(queue) :
          k = 1 \/ (k - 1 \in 1 .. Len(queue') /\ queue'[k - 1] = queue[k])
    BY <2>2, Places, ZenonT(60)
  <2> SUFFICES ASSUME NEW q \in PageIds, Accounted(q) PROVE Accounted(q)'
    BY <2>1, ZenonT(60) DEF FilesAccounted
  <2>4. (\E k \in 1 .. Len(queue) : queue[k] = q) =>
          q = Head(queue) \/ \E k \in 1 .. Len(queue') : queue'[k] = q
    BY <2>2, <2>3, ZenonT(60)
  <2> QED
    BY <2>1, <2>4, ZenonT(60) DEF Accounted
<1>7. CASE ReapStore
  <2>3. PICK p \in PageIds : p = page[Reaper]
    BY <1>7, <1>b, ZenonT(60) DEF ReapStore, PageInHand, PageSteps, WriteSteps
  <2>1. /\ \A q \in PageIds \ {p} :
             store'[q] = store[q] /\ (q \in leaked => q \in leaked')
        /\ store'[p] # 0 => p \in leaked'
    BY <1>7, <2>3, ZenonT(60) DEF ReapStore, StoreDelete
  <2>2. /\ \A u \in Tasks \ {Reaper} : pc'[u] = pc[u] /\ page'[u] = page[u]
        /\ resident' = resident /\ queue' = queue
        /\ todo'[Restorer] = todo[Restorer]
    BY <1>7, ZenonT(60) DEF ReapStore, Goto, Return, memory, locals
  <2> QED
    BY <2>1, <2>2, <2>3, StoreAccounts, ZenonT(60) DEF Accounted
<1>8. ASSUME NEW f \in Files, RestoreFile(f) PROVE FilesAccounted'
  <2>1. /\ \A q \in PageIds : store'[q] # 0 =>
             store[q] # 0 /\ (q \in todo[Restorer] => q \in todo'[Restorer])
        /\ page' = page /\ queue' = queue /\ leaked' = leaked /\ resident' = resident
        /\ \A u \in Tasks \ {Restorer} : pc'[u] = pc[u]
    BY <1>8 DEF RestoreFile, FilePages, Goto, memory
  <2> SUFFICES ASSUME NEW q \in PageIds, store'[q] # 0, Accounted(q)
               PROVE  Accounted(q)'
    BY <2>1, ZenonT(60) DEF FilesAccounted
  <2> QED
    BY <2>1, ZenonT(60) DEF Accounted
<1>9. ASSUME NEW p \in PageIds, RestorePage(p) PROVE FilesAccounted'
  <2>1. /\ todo'[Restorer] = todo[Restorer] \ {p} /\ store' = store
        /\ \A u \in Tasks \ {Restorer} : pc'[u] = pc[u] /\ page'[u] = page[u]
        /\ pc[Restorer] \notin Holding
    BY <1>9, ZenonT(60) DEF RestorePage, Goto, Holding
  <2>2. CASE Insert(p)
    BY <2>1, <2>2, InsertAccounts, ZenonT(60)
  <2>3. CASE store[p] = 0 /\ UNCHANGED <<resident, queue, leaked>>
    <3> SUFFICES ASSUME NEW q \in PageIds, q # p, Accounted(q) PROVE Accounted(q)'
      BY <2>1, <2>3, ZenonT(60) DEF FilesAccounted
    <3> QED
      BY <2>1, <2>3, ZenonT(60) DEF Accounted
  <2> QED
    BY <1>9, <2>2, <2>3, ZenonT(60) DEF RestorePage
<1>10. CASE Crash
  BY <1>10, ZenonT(60) DEF Crash, FilesAccounted, Accounted
<1> QED
  BY <1>1, <1>2, <1>3, <1>4, <1>5, <1>6, <1>7, <1>8, <1>9, <1>10, SilentStep, ZenonT(60)
  DEF Active
----------------------------------------------------------------------------
(* The invariant holds initially. *)
LEMMA InitInv == Init => IInv /\ FilesAccounted
<1> SUFFICES ASSUME Init PROVE IInv /\ FilesAccounted
  BY ZenonT(60)
<1>1. SharedOK
  BY BoundsAssumption DEF Init, SharedOK, Ver
<1>2. TasksOK
  BY VerFacts, ZenonT(60) DEF Init, TasksOK, Steps
<1>3. Roles /\ PageInHand
  BY TaskFacts, ZenonT(60) DEF Init, Roles, ReaderSteps, FillerSteps, ReaperSteps,
     RestorerSteps, PageInHand, PageSteps, WriteSteps, PutSteps, RemoveSteps
<1>4. LockInv /\ RestoreInv /\ BytesInv
  BY TaskFacts
  DEF Init, LockInv, RestoreInv, BytesInv, WriteSteps, PutSteps, RemoveSteps
<1>5. AbsentInv /\ ResidentBacked /\ HitReadable /\ FilesAccounted
  BY TaskFacts, ZenonT(60)
  DEF Init, AbsentInv, RemoveSteps, ResidentBacked, HitReadable, FilesAccounted
<1> QED
  BY <1>1, <1>2, <1>3, <1>4, <1>5, ZenonT(60) DEF IInv, TypeInv, TypeOK

(* Every step keeps the inductive invariant. *)
LEMMA NextInv == IInv /\ [Next]_vars => IInv'
<1> SUFFICES ASSUME IInv, [Next]_vars PROVE IInv'
  BY ZenonT(60)
<1>1. TypeInv'
  BY SharedStep, TasksStep, RolesStep, ZenonT(60) DEF IInv, TypeInv, TypeOK
<1> QED
  BY <1>1, LockStep, RestoreStep, BytesStep, BackedStep, ZenonT(60) DEF IInv, Backed

(* The inductive invariant holds in every reachable state. *)
THEOREM Invariance == Spec => []IInv
<1>1. Init => IInv
  BY InitInv, ZenonT(60)
<1> QED
  BY <1>1, NextInv, PTL DEF Spec

(* The state of LocalCacheManager, its store and its tasks is well typed. *)
THEOREM TypeCorrect == Spec => []TypeOK
<1>1. IInv => TypeOK
  BY ZenonT(60) DEF IInv, TypeInv
<1> QED
  BY <1>1, Invariance, PTL

(* Every resident page has its file on disk: reap_one's re-check under the  *)
(* page lock, put's racing check and the removals of delete and             *)
(* get_expired_path never leave a page that is resident but unreadable.     *)
THEOREM ResidentIsBacked == Spec => []ResidentBacked
<1>1. IInv => ResidentBacked
  BY ZenonT(60) DEF IInv
<1> QED
  BY <1>1, Invariance, PTL

(* A lookup that hit in get_bytes finds the page file until it has read it. *)
THEOREM HitIsReadable == Spec => []HitReadable
<1>1. IInv => HitReadable
  BY ZenonT(60) DEF IInv
<1> QED
  BY <1>1, Invariance, PTL

(* A page file without metadata is queued for reap_one, in a task's hands,  *)
(* still to be restored, or a counted leak.                                 *)
THEOREM FilesAreAccounted == Spec => []FilesAccounted
<1>1. Init => FilesAccounted
  BY InitInv, ZenonT(60)
<1>2. IInv /\ FilesAccounted /\ [Next]_vars => FilesAccounted'
  BY AccountedStep, ZenonT(60) DEF IInv
<1> QED
  BY <1>1, <1>2, Invariance, PTL DEF Spec

(* The bytes under a read in progress never change: put, delete,            *)
(* get_expired_path and reap_one all hold the page write lock.              *)
THEOREM ReadIsStable == Spec => ReadStable
<1>1. IInv /\ [Next]_vars =>
        [\A t \in Readers : pc[t] = "get_read" /\ pc'[t] = "get_read"
           => store'[page[t]] = store[page[t]]]_vars
  BY BackedStep, ZenonT(60) DEF StoreKept
<1> QED
  BY <1>1, Invariance, PTL DEF Spec, ReadStable

(* LocalCacheManager implements the CacheManager contract: a page enters the*)
(* cache whole, is never overwritten in place, and is otherwise only forgotten.*)
THEOREM ImplementsContract == Spec => KeepsContract
<1>1. Init => Contract!Init
  BY ZenonT(60) DEF Init, Contract!Init, Cached
<1>2. IInv /\ IInv' /\ [Next]_vars => [Contract!Next]_Cached
  <2> SUFFICES ASSUME IInv, IInv', [Next]_vars PROVE Contract!Next
    BY ZenonT(60)
  <2>1. /\ resident \subseteq PageIds /\ resident' \subseteq PageIds
        /\ \A q \in resident' : store'[q] = store[q] /\ store'[q] \in Ver \ {0}
    BY BackedStep, ZenonT(60) DEF StoreKept, IInv, TypeInv, TypeOK, SharedOK, ResidentBacked
  <2>2. CASE resident' \subseteq resident
    <3>1. Cached' = Contract!Keep(resident')
      BY <2>1, <2>2, ZenonT(60) DEF Cached, Contract!Keep
    <3> QED
      BY <2>1, <3>1, ZenonT(60) DEF Contract!Next, Contract!Forget
  <2>3. ASSUME NEW p \in PageIds \ resident, p \in resident', resident' \subseteq resident \cup {p}
        PROVE  Contract!Fill(p)
    <3>1. Cached[p] = 0
      BY <2>3, ZenonT(60) DEF Cached
    <3>2. Cached' = [Contract!Keep(resident' \ {p}) EXCEPT ![p] = store[p]]
      BY <2>1, <2>3, ZenonT(60) DEF Cached, Contract!Keep
    <3> QED
      BY <2>1, <2>3, <3>1, <3>2, ZenonT(60) DEF Contract!Fill
  <2>4. \/ resident' \subseteq resident
        \/ \E p \in PageIds \ resident : p \in resident' /\ resident' \subseteq resident \cup {p}
    BY BackedStep, ZenonT(60) DEF StoreKept
  <2> QED
    BY <2>2, <2>3, <2>4, ZenonT(60) DEF Contract!Next
<1> QED
  BY <1>1, <1>2, Invariance, PTL DEF Spec, KeepsContract, Contract!Spec
=============================================================================
