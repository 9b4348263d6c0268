----------------------------- MODULE PageCache -----------------------------
(***************************************************************************)
(* LocalCacheManager, the disk-backed page cache of the client            *)
(* (src/src/cache/manager.rs), with its page store                        *)
(* (src/src/cache/store/local.rs) and the read-through loop that calls it  *)
(* (src/src/cache/caching_reader.rs).                                      *)
(*                                                                         *)
(* Every step below is the code between two `.await`s of one task.  The    *)
(* tasks are the readers (open, get, synchronous put), the fillers         *)
(* (puts spawned by schedule_fill), the reaper and the restart/restore     *)
(* task.  A page's bytes are abstracted to the version of the file they    *)
(* were read from; the (length, mtime) identity is that version number     *)
(* too, so two versions are always distinguishable by identity.  One cache *)
(* directory is modelled: the allocator hashes the file id only, so the    *)
(* pages and the sidecar of a file never leave one directory.              *)
(***************************************************************************)
EXTENDS Integers, Sequences, FiniteSets

CONSTANTS
    Files,          \* file ids
    PageIdx,        \* page indices of a file
    Stripes,        \* page-lock stripes (LOCK_SIZE of them in the code)
    LockIndex,      \* the hash [PageId -> Stripes] of page_lock_index
    Readers,        \* tasks that open and read files
    Fillers,        \* async_write_sem permits, one spawned put each
    Reaper,         \* the eviction reaper task
    Restorer,       \* the task that runs create / restore
    NoTask,         \* a free lock
    NoPage,         \* no page
    FillMode,       \* "None", "Sync" or "Async"
    Capacity,       \* pages the metadata cache holds
    ReapQueueCap,   \* REAP_QUEUE_CAP
    TtlEnabled,     \* options.ttl is set
    StoreFaults,    \* the calls of the page store may fail
    MaxVersion,     \* bound: versions of a file
    MaxCrashes      \* bound: process crashes

PageIds == Files \X PageIdx
Tasks == Readers \cup Fillers \cup {Reaper, Restorer}

ASSUME TasksAssumption ==
    /\ Reaper # Restorer
    /\ Reaper \notin Readers \cup Fillers
    /\ Restorer \notin Readers \cup Fillers
    /\ Readers \cap Fillers = {}
    /\ NoTask \notin Tasks
    /\ NoPage \notin PageIds
ASSUME BoundsAssumption ==
    /\ Capacity \in Nat
    /\ ReapQueueCap \in Nat
    /\ MaxVersion \in Nat \ {0}
    /\ MaxCrashes \in Nat
ASSUME SwitchesAssumption ==
    /\ TtlEnabled \in BOOLEAN
    /\ StoreFaults \in BOOLEAN
    /\ FillMode \in {"None", "Sync", "Async"}
ASSUME LockIndexAssumption == LockIndex \in [PageIds -> Stripes]

VARIABLES
    server,     \* external: the current version of each file
    resident,   \* caches: the pages whose metadata foyer holds
    expired,    \* the resident pages older than the TTL
    by_file,    \* by_file: the indexed pages of each file; {} is no entry
    versions,   \* versions: the recorded identity of each file; 0 is none
    queue,      \* the reap channel
    store,      \* the page files: version of the bytes; 0 is no file
    identity,   \* the .identity sidecars; 0 is no sidecar
    writer,     \* page_locks: the task that holds a stripe for writing
    readers,    \* page_locks: the tasks that hold a stripe for reading
    file,       \* the file of a reader's open stream (or being restored)
    ver,        \* the version of a reader's open stream; 0 is not open
    pc,         \* where each task is
    page,       \* local: the page in a task's hands
    data,       \* local: page bytes; the identity to persist or to record
    flag,       \* local: file_empty; in restore, "no page restored yet"
    todo,       \* local: the pages still to delete or to restore
    after,      \* local: the step a removal returns to
    leaked,     \* ghost: page files that nothing will reclaim in this process
    crashes     \* number of crashes so far

memory == <<resident, expired, by_file, versions, queue>>
disk == <<store, identity, leaked>>
locks == <<writer, readers>>
stream == <<file, ver>>
locals == <<page, data, flag, todo, after>>
vars == <<server, memory, disk, locks, stream, pc, locals, crashes>>

Ver == 0 .. MaxVersion

(* The steps of a task that run while it holds the page's write lock. *)
PutSteps == {"put_store", "put_insert", "put_first", "put_version",
             "put_index", "put_identity"}
RemoveSteps == {"rm_index", "rm_store", "rm_identity"}
WriteSteps == PutSteps \cup RemoveSteps \cup {"reap_store"}
Steps == {"idle", "open_check", "open_record", "invalidate", "delete_next",
          "delete_lock", "open_update", "get_lock", "get_read", "expire_lock",
          "fetch", "put_lock", "reap_index", "reap_lock", "reap_identity",
          "restore", "restore_page", "restore_index"} \cup WriteSteps

Stripe(t) == LockIndex[page[t]]
FilePages(f) == {f} \X PageIdx
Running == pc[Restorer] = "idle"

Goto(t, s) == pc' = [pc EXCEPT ![t] = s]
Return(t) ==
    /\ Goto(t, "idle")
    /\ page' = [page EXCEPT ![t] = NoPage]
    /\ data' = [data EXCEPT ![t] = 0]
    /\ flag' = [flag EXCEPT ![t] = FALSE]
    /\ todo' = [todo EXCEPT ![t] = {}]
    /\ after' = [after EXCEPT ![t] = "idle"]

(* The task's stripe is free for writing. *)
Free(t) == writer[Stripe(t)] = NoTask /\ readers[Stripe(t)] = {}
WriteLock(t) ==
    /\ writer' = [writer EXCEPT ![Stripe(t)] = t]
    /\ UNCHANGED readers
WriteUnlock(t) ==
    /\ writer' = [writer EXCEPT ![Stripe(t)] = NoTask]
    /\ UNCHANGED readers

(***************************************************************************)
(* foyer's insert: metadata in, and a victim out when the bytes no longer  *)
(* fit, possibly the page itself.  on_leave queues the victim with         *)
(* try_send and drops it when the channel is full.                         *)
(***************************************************************************)
Victims(pages) ==
    IF Cardinality(pages) <= Capacity THEN {{}} ELSE {{v} : v \in pages}

(* Mutant of on_leave: the victim is never sent to the reaper. *)
on_leave_unsent(victims) == victims = victims /\ UNCHANGED <<queue, leaked>>
on_leave(victims) ==
    \/ /\ victims = {}
       /\ UNCHANGED <<queue, leaked>>
    \/ /\ Len(queue) < ReapQueueCap
       /\ \E v \in victims : queue' = Append(queue, v)
       /\ UNCHANGED leaked
    \/ /\ victims # {}
       /\ Len(queue) >= ReapQueueCap
       /\ leaked' = leaked \cup victims
       /\ UNCHANGED queue

Insert(p) ==
    \E victims \in Victims(resident \cup {p}) :
      /\ resident' = (resident \cup {p}) \ victims
      /\ expired' = expired \ (victims \cup {p})
      /\ on_leave(victims)

----------------------------------------------------------------------------
(* The file is overwritten at the server (external). *)
Overwrite(f) ==
    /\ server[f] < MaxVersion
    /\ server' = [server EXCEPT ![f] = @ + 1]
    /\ UNCHANGED <<memory, disk, locks, stream, pc, locals, crashes>>

(* Time passes: a cached page outlives its TTL. *)
Expire(p) ==
    /\ TtlEnabled
    /\ p \in resident \ expired
    /\ expired' = expired \cup {p}
    /\ UNCHANGED <<server, resident, by_file, versions, queue, disk, locks,
                   stream, pc, locals, crashes>>

----------------------------------------------------------------------------
(* A reader opens a file: it fetches the status, then calls on_file_open. *)
Open(t, f) ==
    /\ Running
    /\ pc[t] = "idle"
    /\ file' = [file EXCEPT ![t] = f]
    /\ ver' = [ver EXCEPT ![t] = server[f]]
    /\ Goto(t, "open_check")
    /\ UNCHANGED <<server, memory, disk, locks, locals, crashes>>

(* Mutant of OpenCheck: a changed identity is recorded, nothing is dropped. *)
OpenCheckNoInvalidate(t) ==
    /\ pc[t] = "open_check"
    /\ \/ versions[file[t]] = ver[t] /\ Goto(t, "idle")
       \/ versions[file[t]] = 0 /\ Goto(t, "open_record")
       \/ versions[file[t]] \notin {0, ver[t]} /\ Goto(t, "open_update")
    /\ UNCHANGED <<server, memory, disk, locks, stream, locals, crashes>>

OpenCheck(t) ==
    /\ pc[t] = "open_check"
    /\ \/ versions[file[t]] = ver[t] /\ Goto(t, "idle")
       \/ versions[file[t]] = 0 /\ Goto(t, "open_record")
       \/ versions[file[t]] \notin {0, ver[t]} /\ Goto(t, "invalidate")
    /\ UNCHANGED <<server, memory, disk, locks, stream, locals, crashes>>

OpenRecord(t) ==
    /\ pc[t] = "open_record"
    /\ \/ /\ versions[file[t]] = 0
          /\ versions' = [versions EXCEPT ![file[t]] = ver[t]]
          /\ Goto(t, "idle")
       \/ /\ versions[file[t]] = ver[t]
          /\ Goto(t, "idle")
          /\ UNCHANGED versions
       \/ /\ versions[file[t]] \notin {0, ver[t]}
          /\ Goto(t, "invalidate")
          /\ UNCHANGED versions
    /\ UNCHANGED <<server, resident, expired, by_file, queue, disk, locks,
                   stream, locals, crashes>>

(* invalidate: snapshot the file's page set, then delete each page. *)
Invalidate(t) ==
    /\ pc[t] = "invalidate"
    /\ todo' = [todo EXCEPT ![t] = {file[t]} \X by_file[file[t]]]
    /\ after' = [after EXCEPT ![t] = "delete_next"]
    /\ Goto(t, "delete_next")
    /\ UNCHANGED <<server, memory, disk, locks, stream, page, data, flag, crashes>>

DeleteNext(t) ==
    /\ pc[t] = "delete_next"
    /\ \E p \in todo[t] :
         /\ page' = [page EXCEPT ![t] = p]
         /\ todo' = [todo EXCEPT ![t] = @ \ {p}]
    /\ Goto(t, "delete_lock")
    /\ UNCHANGED <<server, memory, disk, locks, stream, data, flag, after, crashes>>

InvalidateDone(t) ==
    /\ pc[t] = "delete_next"
    /\ todo[t] = {}
    /\ Goto(t, "open_update")
    /\ UNCHANGED <<server, memory, disk, locks, stream, locals, crashes>>

OpenUpdate(t) ==
    /\ pc[t] = "open_update"
    /\ versions' = [versions EXCEPT ![file[t]] = ver[t]]
    /\ Return(t)
    /\ UNCHANGED <<server, resident, expired, by_file, queue, disk, locks,
                   stream, crashes>>

----------------------------------------------------------------------------
(* delete: under the page lock, drop the metadata; a page that is not       *)
(* resident is left alone, its index entry and its file included.           *)
Delete(t) ==
    /\ pc[t] = "delete_lock"
    /\ Free(t)
    /\ \/ /\ page[t] \in resident
          /\ WriteLock(t)
          /\ resident' = resident \ {page[t]}
          /\ expired' = expired \ {page[t]}
          /\ Goto(t, "rm_index")
       \/ /\ page[t] \notin resident
          /\ Goto(t, after[t])
          /\ UNCHANGED <<locks, resident, expired>>
    /\ UNCHANGED <<server, by_file, versions, queue, disk, stream, locals, crashes>>

(* get_expired_path: re-check the age under the page write lock. *)
GetExpiredPath(t) ==
    /\ pc[t] = "expire_lock"
    /\ Free(t)
    /\ \/ /\ page[t] \in expired
          /\ WriteLock(t)
          /\ resident' = resident \ {page[t]}
          /\ expired' = expired \ {page[t]}
          /\ Goto(t, "rm_index")
       \/ /\ page[t] \notin expired
          /\ Goto(t, "fetch")
          /\ UNCHANGED <<locks, resident, expired>>
    /\ after' = [after EXCEPT ![t] = "fetch"]
    /\ UNCHANGED <<server, by_file, versions, queue, disk, stream, page, data,
                   flag, todo, crashes>>

(* The reverse index forgets the page; file_empty when it was the last. *)
Unindex(t) ==
    LET f == page[t][1]
        rest == by_file[f] \ {page[t][2]}
    IN  /\ by_file' = [by_file EXCEPT ![f] = rest]
        /\ flag' = [flag EXCEPT ![t] = by_file[f] # {} /\ rest = {}]
        /\ UNCHANGED <<page, data, todo, after>>

RemoveIndex(t) ==
    /\ pc[t] = "rm_index"
    /\ Unindex(t)
    /\ Goto(t, "rm_store")
    /\ UNCHANGED <<server, resident, expired, versions, queue, disk, locks,
                   stream, crashes>>

(* PageStore::delete: NotFound is success; an I/O error leaves the file. *)
StoreDelete(p) ==
    \/ /\ store' = [store EXCEPT ![p] = 0]
       /\ leaked' = leaked \ {p}
    \/ /\ StoreFaults
       /\ store[p] # 0
       /\ leaked' = leaked \cup {p}
       /\ UNCHANGED store

RemoveStore(t) ==
    /\ pc[t] = "rm_store"
    /\ StoreDelete(page[t])
    /\ IF flag[t]
       THEN Goto(t, "rm_identity") /\ UNCHANGED locks
       ELSE Goto(t, after[t]) /\ WriteUnlock(t)
    /\ UNCHANGED <<server, memory, identity, stream, locals, crashes>>

(* PageStore::delete_identity; its error is ignored. *)
DeleteIdentity(f) ==
    \/ identity' = [identity EXCEPT ![f] = 0]
    \/ StoreFaults /\ UNCHANGED identity

RemoveIdentity(t) ==
    /\ pc[t] = "rm_identity"
    /\ DeleteIdentity(page[t][1])
    /\ WriteUnlock(t)
    /\ Goto(t, after[t])
    /\ UNCHANGED <<server, memory, store, leaked, stream, locals, crashes>>

----------------------------------------------------------------------------
(* read_through_cache on one page of the open stream. *)
Read(t, i) ==
    /\ Running
    /\ pc[t] = "idle"
    /\ ver[t] # 0
    /\ page' = [page EXCEPT ![t] = <<file[t], i>>]
    /\ Goto(t, "get_lock")
    /\ UNCHANGED <<server, memory, disk, locks, stream, data, flag, todo, after,
                   crashes>>

(* Mutant of Get: no page lock. *)
GetUnlocked(t) ==
    /\ pc[t] = "get_lock"
    /\ Goto(t, IF page[t] \notin resident THEN "fetch"
               ELSE IF page[t] \in expired THEN "expire_lock" ELSE "get_read")
    /\ UNCHANGED <<server, memory, disk, locks, stream, locals, crashes>>

(* get_bytes: look the page up under the read lock. *)
Get(t) ==
    /\ pc[t] = "get_lock"
    /\ writer[Stripe(t)] = NoTask
    /\ \/ /\ page[t] \in resident \ expired
          /\ readers' = [readers EXCEPT ![Stripe(t)] = @ \cup {t}]
          /\ UNCHANGED writer
          /\ Goto(t, "get_read")
       \/ /\ page[t] \in expired
          /\ Goto(t, "expire_lock")
          /\ UNCHANGED locks
       \/ /\ page[t] \notin resident
          /\ Goto(t, "fetch")
          /\ UNCHANGED locks
    /\ UNCHANGED <<server, memory, disk, stream, locals, crashes>>

(* The disk read; an empty or failed read is a miss. *)
Hit(t) ==
    /\ pc[t] = "get_read"
    /\ store[page[t]] # 0
    /\ readers' = [readers EXCEPT ![Stripe(t)] = @ \ {t}]
    /\ Return(t)
    /\ UNCHANGED <<server, memory, disk, writer, stream, crashes>>

ReadMiss(t) ==
    /\ pc[t] = "get_read"
    /\ store[page[t]] = 0 \/ StoreFaults
    /\ readers' = [readers EXCEPT ![Stripe(t)] = @ \ {t}]
    /\ Goto(t, "fetch")
    /\ UNCHANGED <<server, memory, disk, writer, stream, locals, crashes>>

(* A miss reads the whole page from the worker: the bytes the open stream's *)
(* block ids name, or the ones that replaced them.  Then the fill; a failed *)
(* worker read, or a cache that is never filled, ends the call.             *)
FillSync(t, v) ==
    /\ FillMode = "Sync"
    /\ data' = [data EXCEPT ![t] = v]
    /\ Goto(t, "put_lock")
    /\ UNCHANGED <<page, flag, todo, after>>

schedule_fill(t, v) ==
    /\ FillMode = "Async"
    /\ \/ \E w \in Fillers :
            /\ pc[w] = "idle"
            /\ pc' = [pc EXCEPT ![t] = "idle", ![w] = "put_lock"]
            /\ page' = [page EXCEPT ![t] = NoPage, ![w] = page[t]]
            /\ data' = [data EXCEPT ![w] = v]
            /\ flag' = [flag EXCEPT ![t] = FALSE]
            /\ after' = [after EXCEPT ![t] = "idle"]
            /\ UNCHANGED todo
       \/ (\A w \in Fillers : pc[w] # "idle") /\ Return(t)

Fetch(t) ==
    /\ pc[t] = "fetch"
    /\ \E v \in {ver[t], server[file[t]]} :
         \/ FillSync(t, v)
         \/ schedule_fill(t, v)
         \/ Return(t)
    /\ UNCHANGED <<server, memory, disk, locks, stream, crashes>>

----------------------------------------------------------------------------
(* Mutant of Put: no check for a racing put. *)
PutNoRacingCheck(t) ==
    /\ pc[t] = "put_lock"
    /\ Free(t)
    /\ WriteLock(t)
    /\ Goto(t, "put_store")
    /\ UNCHANGED <<server, memory, disk, stream, locals, crashes>>

(* put *)
Put(t) ==
    /\ pc[t] = "put_lock"
    /\ Free(t)
    /\ \/ /\ page[t] \notin resident
          /\ WriteLock(t)
          /\ Goto(t, "put_store")
          /\ UNCHANGED locals
       \/ /\ page[t] \in resident
          /\ Return(t)
          /\ UNCHANGED locks
    /\ UNCHANGED <<server, memory, disk, stream, crashes>>

PutReturn(t) == WriteUnlock(t) /\ Return(t)

(* PageStore::put writes a temp file and renames it: all or nothing. *)
PutStore(t) ==
    /\ pc[t] = "put_store"
    /\ \/ /\ store' = [store EXCEPT ![page[t]] = data[t]]
          /\ leaked' = leaked \ {page[t]}
          /\ Goto(t, "put_insert")
          /\ UNCHANGED <<locks, locals>>
       \/ /\ StoreFaults
          /\ PutReturn(t)
          /\ UNCHANGED <<store, leaked>>
    /\ UNCHANGED <<server, memory, identity, stream, crashes>>

(* Publish the metadata; a page evicted by its own insert ends the put. *)
PutInsert(t) ==
    /\ pc[t] = "put_insert"
    /\ Insert(page[t])
    /\ IF page[t] \in resident'
       THEN Goto(t, "put_first") /\ UNCHANGED <<locks, locals>>
       ELSE PutReturn(t)
    /\ UNCHANGED <<server, by_file, versions, store, identity, stream, crashes>>

(* The first page of a file brings the file's identity to persist. *)
PutFirst(t) ==
    /\ pc[t] = "put_first"
    /\ Goto(t, IF by_file[page[t][1]] = {} THEN "put_version" ELSE "put_index")
    /\ data' = [data EXCEPT ![t] = 0]
    /\ UNCHANGED <<server, memory, disk, locks, stream, page, flag, todo, after,
                   crashes>>

PutVersion(t) ==
    /\ pc[t] = "put_version"
    /\ data' = [data EXCEPT ![t] = versions[page[t][1]]]
    /\ Goto(t, "put_index")
    /\ UNCHANGED <<server, memory, disk, locks, stream, page, flag, todo, after,
                   crashes>>

PutIndex(t) ==
    /\ pc[t] = "put_index"
    /\ by_file' = [by_file EXCEPT ![page[t][1]] = @ \cup {page[t][2]}]
    /\ IF data[t] # 0
       THEN Goto(t, "put_identity") /\ UNCHANGED <<locks, locals>>
       ELSE PutReturn(t)
    /\ UNCHANGED <<server, resident, expired, versions, queue, disk, stream,
                   crashes>>

PutIdentity(t) ==
    /\ pc[t] = "put_identity"
    /\ \/ identity' = [identity EXCEPT ![page[t][1]] = data[t]]
       \/ StoreFaults /\ UNCHANGED identity
    /\ PutReturn(t)
    /\ UNCHANGED <<server, memory, store, leaked, stream, crashes>>

----------------------------------------------------------------------------
(* spawn_reaper / reap_one *)
ReapRecv ==
    /\ pc[Reaper] = "idle"
    /\ queue # <<>>
    /\ page' = [page EXCEPT ![Reaper] = Head(queue)]
    /\ queue' = Tail(queue)
    /\ Goto(Reaper, "reap_index")
    /\ UNCHANGED <<server, resident, expired, by_file, versions, disk, locks,
                   stream, data, flag, todo, after, crashes>>

(* The index is updated before, and outside, the page lock. *)
ReapIndex ==
    /\ pc[Reaper] = "reap_index"
    /\ Unindex(Reaper)
    /\ Goto(Reaper, "reap_lock")
    /\ UNCHANGED <<server, resident, expired, versions, queue, disk, locks,
                   stream, crashes>>

(* Mutant of ReapLock: no re-check under the page lock. *)
ReapLockNoRecheck ==
    /\ pc[Reaper] = "reap_lock"
    /\ Free(Reaper)
    /\ WriteLock(Reaper)
    /\ Goto(Reaper, "reap_store")
    /\ UNCHANGED <<server, memory, disk, stream, locals, crashes>>

ReapLock ==
    /\ pc[Reaper] = "reap_lock"
    /\ Free(Reaper)
    /\ \/ /\ page[Reaper] \notin resident
          /\ WriteLock(Reaper)
          /\ Goto(Reaper, "reap_store")
          /\ UNCHANGED locals
       \/ /\ page[Reaper] \in resident
          /\ Return(Reaper)
          /\ UNCHANGED locks
    /\ UNCHANGED <<server, memory, disk, stream, crashes>>

ReapStore ==
    /\ pc[Reaper] = "reap_store"
    /\ StoreDelete(page[Reaper])
    /\ WriteUnlock(Reaper)
    /\ IF flag[Reaper]
       THEN Goto(Reaper, "reap_identity") /\ UNCHANGED locals
       ELSE Return(Reaper)
    /\ UNCHANGED <<server, memory, identity, stream, crashes>>

(* The sidecar is deleted after the page lock is released. *)
ReapIdentity ==
    /\ pc[Reaper] = "reap_identity"
    /\ DeleteIdentity(page[Reaper][1])
    /\ Return(Reaper)
    /\ UNCHANGED <<server, memory, store, leaked, locks, stream, crashes>>

----------------------------------------------------------------------------
(* A crash loses everything in memory; create starts the reaper, then       *)
(* restore walks the cache directory.                                       *)
Crash ==
    /\ crashes < MaxCrashes
    /\ crashes' = crashes + 1
    /\ resident' = {}
    /\ expired' = {}
    /\ by_file' = [f \in Files |-> {}]
    /\ versions' = [f \in Files |-> 0]
    /\ queue' = <<>>
    /\ writer' = [s \in Stripes |-> NoTask]
    /\ readers' = [s \in Stripes |-> {}]
    /\ pc' = [t \in Tasks |-> IF t = Restorer THEN "restore" ELSE "idle"]
    /\ page' = [t \in Tasks |-> NoPage]
    /\ data' = [t \in Tasks |-> 0]
    /\ flag' = [t \in Tasks |-> FALSE]
    /\ todo' = [t \in Tasks |-> IF t = Restorer THEN PageIds ELSE {}]
    /\ after' = [t \in Tasks |-> "idle"]
    /\ ver' = [t \in Tasks |-> 0]
    /\ leaked' = {}
    /\ UNCHANGED <<server, store, identity, file>>

(* restore, the gate: a file directory without a sidecar is removed; the   *)
(* removal is assumed to succeed.                                           *)
RestoreFile(f) ==
    /\ pc[Restorer] = "restore"
    /\ FilePages(f) \subseteq todo[Restorer]
    /\ \/ /\ identity[f] = 0
          /\ store' = [p \in PageIds |-> IF p[1] = f THEN 0 ELSE store[p]]
          /\ todo' = [todo EXCEPT ![Restorer] = @ \ FilePages(f)]
          /\ UNCHANGED <<pc, file, data, flag>>
       \/ /\ identity[f] # 0
          /\ file' = [file EXCEPT ![Restorer] = f]
          /\ data' = [data EXCEPT ![Restorer] = identity[f]]
          /\ flag' = [flag EXCEPT ![Restorer] = TRUE]
          /\ Goto(Restorer, "restore_page")
          /\ UNCHANGED <<store, todo>>
    /\ UNCHANGED <<server, memory, identity, leaked, locks, ver, page, after,
                   crashes>>

(* A page file found by the directory walk becomes resident. *)
RestorePage(p) ==
    /\ pc[Restorer] = "restore_page"
    /\ p \in todo[Restorer]
    /\ p[1] = file[Restorer]
    /\ todo' = [todo EXCEPT ![Restorer] = @ \ {p}]
    /\ \/ /\ store[p] # 0
          /\ Insert(p)
          /\ page' = [page EXCEPT ![Restorer] = p]
          /\ Goto(Restorer, "restore_index")
       \/ /\ store[p] = 0
          /\ UNCHANGED <<resident, expired, queue, leaked, page, pc>>
    /\ UNCHANGED <<server, by_file, versions, store, identity, locks, stream,
                   data, flag, after, crashes>>

RestoreIndex ==
    /\ pc[Restorer] = "restore_index"
    /\ LET p == page[Restorer]
       IN  by_file' = [by_file EXCEPT ![p[1]] = @ \cup {p[2]}]
    /\ flag' = [flag EXCEPT ![Restorer] = FALSE]
    /\ page' = [page EXCEPT ![Restorer] = NoPage]
    /\ Goto(Restorer, "restore_page")
    /\ UNCHANGED <<server, resident, expired, versions, queue, disk, locks,
                   stream, data, todo, after, crashes>>

(* End of the file's directory: record the identity, or remove the shell. *)
RestoreFileDone ==
    /\ pc[Restorer] = "restore_page"
    /\ todo[Restorer] \cap FilePages(file[Restorer]) = {}
    /\ IF flag[Restorer]
       THEN /\ identity' = [identity EXCEPT ![file[Restorer]] = 0]
            /\ UNCHANGED versions
       ELSE /\ versions' = [versions EXCEPT ![file[Restorer]] = data[Restorer]]
            /\ UNCHANGED identity
    /\ data' = [data EXCEPT ![Restorer] = 0]
    /\ flag' = [flag EXCEPT ![Restorer] = FALSE]
    /\ Goto(Restorer, "restore")
    /\ UNCHANGED <<server, resident, expired, by_file, queue, store, leaked,
                   locks, stream, page, todo, after, crashes>>

RestoreDone ==
    /\ pc[Restorer] = "restore"
    /\ todo[Restorer] = {}
    /\ Return(Restorer)
    /\ UNCHANGED <<server, memory, disk, locks, stream, crashes>>

----------------------------------------------------------------------------
Init ==
    /\ server = [f \in Files |-> 1]
    /\ resident = {}
    /\ expired = {}
    /\ by_file = [f \in Files |-> {}]
    /\ versions = [f \in Files |-> 0]
    /\ queue = <<>>
    /\ store = [p \in PageIds |-> 0]
    /\ identity = [f \in Files |-> 0]
    /\ leaked = {}
    /\ writer = [s \in Stripes |-> NoTask]
    /\ readers = [s \in Stripes |-> {}]
    /\ \E f \in Files : file = [t \in Tasks |-> f]
    /\ ver = [t \in Tasks |-> 0]
    /\ pc = [t \in Tasks |-> "idle"]
    /\ page = [t \in Tasks |-> NoPage]
    /\ data = [t \in Tasks |-> 0]
    /\ flag = [t \in Tasks |-> FALSE]
    /\ todo = [t \in Tasks |-> {}]
    /\ after = [t \in Tasks |-> "idle"]
    /\ crashes = 0

OpenFile(t) ==
    \/ OpenCheck(t) \/ OpenRecord(t) \/ Invalidate(t) \/ DeleteNext(t)
    \/ InvalidateDone(t) \/ OpenUpdate(t)
Remove(t) == RemoveIndex(t) \/ RemoveStore(t) \/ RemoveIdentity(t)
PutRest(t) ==
    \/ PutStore(t) \/ PutInsert(t) \/ PutFirst(t) \/ PutVersion(t)
    \/ PutIndex(t) \/ PutIdentity(t)
Reap == ReapRecv \/ ReapIndex \/ ReapStore \/ ReapIdentity
Restore ==
    \/ \E f \in Files : RestoreFile(f)
    \/ \E p \in PageIds : RestorePage(p)
    \/ RestoreIndex
    \/ RestoreFileDone
    \/ RestoreDone

(* The steps that wait for a page lock, and the ones that never wait. *)
Acquire(t) == Delete(t) \/ GetExpiredPath(t) \/ Get(t) \/ Put(t)
Advance(t) ==
    OpenFile(t) \/ Remove(t) \/ Hit(t) \/ ReadMiss(t) \/ Fetch(t) \/ PutRest(t)

Next ==
    \/ \E f \in Files : Overwrite(f)
    \/ \E p \in PageIds : Expire(p)
    \/ \E t \in Readers, f \in Files : Open(t, f)
    \/ \E t \in Readers, i \in PageIdx : Read(t, i)
    \/ \E t \in Readers \cup Fillers : Acquire(t) \/ Advance(t)
    \/ ReapLock
    \/ Reap
    \/ Restore
    \/ Crash

(* tokio runs every ready task, and its RwLock queues waiters first come   *)
(* first served, so a waiter whose lock is free again and again gets it.   *)
Fairness ==
    /\ \A t \in Readers \cup Fillers : WF_vars(Advance(t)) /\ SF_vars(Acquire(t))
    /\ WF_vars(Reap)
    /\ SF_vars(ReapLock)
    /\ WF_vars(Restore)

Spec == Init /\ [][Next]_vars
FairSpec == Spec /\ Fairness

----------------------------------------------------------------------------
(* Type correctness of the manager and its store, and of its tasks. *)
SharedOK ==
    /\ server \in [Files -> Ver]
    /\ resident \subseteq PageIds
    /\ expired \subseteq resident
    /\ by_file \in [Files -> SUBSET PageIdx]
    /\ versions \in [Files -> Ver]
    /\ queue \in Seq(PageIds)
    /\ store \in [PageIds -> Ver]
    /\ identity \in [Files -> Ver]
    /\ leaked \subseteq PageIds
    /\ crashes \in Nat
TasksOK ==
    /\ writer \in [Stripes -> Tasks \cup {NoTask}]
    /\ readers \in [Stripes -> SUBSET Tasks]
    /\ file \in [Tasks -> Files]
    /\ ver \in [Tasks -> Ver]
    /\ pc \in [Tasks -> Steps]
    /\ page \in [Tasks -> PageIds \cup {NoPage}]
    /\ data \in [Tasks -> Ver]
    /\ flag \in [Tasks -> BOOLEAN]
    /\ todo \in [Tasks -> SUBSET PageIds]
    /\ after \in [Tasks -> {"idle", "delete_next", "fetch"}]
TypeOK == SharedOK /\ TasksOK

(* A page the metadata cache holds has its file on disk: reap_one's re-check *)
(* under the page lock never leaves a "permanent zombie" (resident, but     *)
(* unreadable, and refused by put's racing check), whatever the order of    *)
(* puts, deletes, expiries, evictions and restarts.                         *)
ResidentBacked == \A p \in resident : store[p] # 0

(* A lookup that hit under the read lock finds the page file: eviction may  *)
(* drop the metadata meanwhile, but no task deletes the file until the read *)
(* is over.                                                                 *)
HitReadable == \A t \in Readers : pc[t] = "get_read" => store[page[t]] # 0

(* The bytes of a page never change between a reader's lookup and its disk   *)
(* read, because every store write and deletion is under the page's write    *)
(* lock.                                                                     *)
ReadStable ==
    [][\A t \in Readers :
         pc[t] = "get_read" /\ pc'[t] = "get_read"
         => store'[page[t]] = store[page[t]]]_vars

(* The manager keeps the contract of the CacheManager trait: a page is what  *)
(* its file holds while foyer holds its metadata, a put never overwrites a   *)
(* cached page, and every other operation only forgets pages.                *)
Cached == [p \in PageIds |-> IF p \in resident THEN store[p] ELSE 0]
Contract == INSTANCE CacheContract WITH
    Pages <- PageIds, Bytes <- Ver \ {0}, None <- 0, content <- Cached
KeepsContract == Contract!Spec

(* Disk space is accounted for: a page file without metadata is queued for   *)
(* the reaper, in the hands of a task, still to be restored, or one of the   *)
(* counted leaks (a victim dropped by a full queue, a failed deletion).      *)
Accounted(p) ==
    \/ p \in leaked
    \/ \E k \in 1 .. Len(queue) : queue[k] = p
    \/ page[Reaper] = p /\ pc[Reaper] \in {"reap_index", "reap_lock", "reap_store"}
    \/ \E t \in Readers \cup Fillers :
         page[t] = p /\ pc[t] \in {"put_insert", "rm_index", "rm_store"}
    \/ p \in todo[Restorer]
FilesAccounted ==
    \A p \in PageIds \ resident : store[p] # 0 => Accounted(p)

(* A stream opened on version v is never served bytes older than v.         *)
NeverServedStale ==
    [][\A t \in Readers : Hit(t) => store[page[t]] >= ver[t]]_vars

(* With one reader that fills synchronously, a stream opened on version v is  *)
(* never served older bytes from a page that its file's page set knows: what *)
(* on_file_open invalidates is gone, whatever is evicted, expired and reaped *)
(* meanwhile.                                                                *)
IndexedNeverStale ==
    [][\A t \in Readers :
         Hit(t) /\ page[t][2] \in by_file[page[t][1]]
         => store[page[t]] >= ver[t]]_vars

(* An evicted page's file is eventually deleted, unless the page is cached  *)
(* again or the victim was counted as leaked.                               *)
EvictedReclaimed ==
    \A p \in PageIds :
      (store[p] # 0 /\ p \notin resident) ~>
        (store[p] = 0 \/ p \in resident \/ p \in leaked)

(* on_file_open and every read terminate: no lock is ever held for good.    *)
ReadersReturn ==
    \A t \in Readers : (pc[t] # "idle") ~> (pc[t] = "idle")
=============================================================================
