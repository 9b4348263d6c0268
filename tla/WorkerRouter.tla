---------------------------- MODULE WorkerRouter ----------------------------
(***************************************************************************)
(* Which worker serves a block.  A context has one shared WorkerRouter,    *)
(* whose worker list, hash ring and local worker a background task         *)
(* refreshes from the master.  Every reader or writer takes a              *)
(* WorkerRouterView of the router when it opens a file and keeps its own   *)
(* set of failed workers: a reader asks the view for a worker, and after a *)
(* failed connection marks the worker failed and asks once more; a writer  *)
(* tries the workers the ring picks, then all of them.  Before a file is   *)
(* read the workers may be asked which of them hold the block.  The Python *)
(* bindings ask the shared router itself, without a view and without a     *)
(* second try.                                                             *)
(*                                                                         *)
(* The three parts of the router are published one by one, and a view      *)
(* loads them one by one, on threads of their own.  A ring is represented  *)
(* by the list it was built from.  Hashing is abstracted to a small circle *)
(* of Points: VNodes gives a worker's virtual nodes, Targets the points    *)
(* the successive attempts for the block fall on.                          *)
(***************************************************************************)
EXTENDS Integers, Sequences, FiniteSets, SequencesExt, FiniteSetsExt

CONSTANTS Workers,        \* worker ids
          Host,           \* Host[w]: the worker's host
          LocalNames,     \* the names of this machine
          Interfaces,     \* hosts a socket can be bound to here
          Points,         \* the ring's circle, 0 .. Points - 1
          VNodes,         \* VNodes[w]: where the worker's virtual nodes are
          Targets,        \* Targets[i]: where attempt i for the block falls
          Lists,          \* the worker lists a master may report
          Locations,      \* block locations a file status may carry
          Count,          \* read_worker_candidate_count, max_retry_node
          CheckCount,     \* check_block_replicas: workers probed at open
          Replicas,       \* replicas a writer opens for a block
          MinReplicas,    \* replicas it needs
          Readers,        \* tasks that open and read files
          MaxChanges      \* bound on changes of the master's list

None == 0

RouterAssumption ==
    /\ Workers \subseteq Nat \ {None} /\ IsFiniteSet(Workers)
    /\ Points \in Nat \ {0} /\ Count \in Nat \ {0} /\ CheckCount \in Nat
    /\ MaxChanges \in Nat
    /\ DOMAIN Host = Workers
    /\ VNodes \in [Workers -> SUBSET (0 .. Points - 1) \ {{}}]
    /\ Targets \in Seq(0 .. Points - 1) /\ Targets # <<>>
    /\ Lists \subseteq Seq(Workers) /\ \A l \in Lists : IsInjective(l)
    /\ Locations \subseteq Seq(Workers)
    /\ MinReplicas \in 1 .. Replicas

VARIABLES
    master,         \* the worker list the master would report
    changes,        \* how often it has changed
    workers, hash_ring, local_worker_id,    \* the shared router
    refresher,      \* where the refresh task is
    fresh,          \* the list it is publishing
    view,           \* view[t]: the reader's router view
    failed_workers, \* failed_workers[t]: marked failed and within the TTL
    pc,             \* pc[t]: where the reader is
    tried,          \* tried[t]: the worker it is connecting to
    chosen          \* chosen[t]: the first worker of this connect, or None
router == <<workers, hash_ring, local_worker_id>>
readers == <<view, failed_workers, pc, tried, chosen>>
vars == <<master, changes, router, refresher, fresh, readers>>

(* WorkerRouterView::empty: no workers yet. *)
NoView == [workers |-> <<>>, hash_ring |-> <<>>, local |-> None, locations |-> <<>>]

TypeOK ==
    /\ master \in Lists /\ changes \in 0 .. MaxChanges
    /\ {workers, hash_ring, fresh} \subseteq Lists \cup {<<>>}
    /\ local_worker_id \in Workers \cup {None}
    /\ refresher \in {"idle", "due", "ring", "local"}
    /\ \A t \in Readers :
         /\ {view[t].workers, view[t].hash_ring} \subseteq Lists \cup {<<>>}
         /\ view[t].local \in Workers \cup {None}
         /\ view[t].locations \in Seq(Workers)
         /\ failed_workers[t] \subseteq Workers
         /\ pc[t] \in {"closed", "workers", "ring", "probe", "open", "connect", "retry",
                      "again", "select", "direct"}
         /\ {tried[t], chosen[t]} \subseteq Workers \cup {None}

----------------------------------------------------------------------------
(* The ring *)

(* build_hash_ring: of two virtual nodes on one point the later worker's    *)
(* stays.                                                                    *)
RingPoints(list) == UNION {VNodes[list[i]] : i \in DOMAIN list}
OwnerAt(list, point) == Max({i \in DOMAIN list : point \in VNodes[list[i]]})

(* ring_ceiling_worker_index: the first virtual node at or after the target,*)
(* going round.                                                              *)
ring_ceiling_worker_index(list, target) ==
    LET ahead == {p \in RingPoints(list) : p >= target}
    IN  OwnerAt(list, IF ahead # {} THEN Min(ahead) ELSE Min(RingPoints(list)))

(* What the loops of consistent_hash_select(_n)_from_ring visit: the index  *)
(* of each attempt until as many indexes were seen as there are workers.    *)
Attempt(ring, i) == ring_ceiling_worker_index(ring, Targets[i])
Seen(ring, i) == {Attempt(ring, j) : j \in 1 .. i}
Attempts(list, ring) ==
    IF list = <<>> \/ ring = <<>> THEN <<>>
    ELSE LET tries == {i \in DOMAIN Targets : Cardinality(Seen(ring, i - 1)) < Len(list)}
         IN  [i \in 1 .. Max(tries) |-> Attempt(ring, i)]

(* consistent_hash_select_n_from_ring: an index beyond the list, a failed   *)
(* worker, and a second worker of a host are passed over.                   *)
select_n(list, ring, count, skip) ==
    LET Add(sel, i) ==
          IF \/ Len(sel) >= count \/ i \notin DOMAIN list \/ list[i] \in skip
             \/ \E j \in DOMAIN sel : sel[j] = list[i] \/ Host[sel[j]] = Host[list[i]]
          THEN sel ELSE Append(sel, list[i])
    IN  FoldLeft(Add, <<>>, Attempts(list, ring))

(* workers_from_block_locations: the live workers the master names. *)
workers_from_block_locations(list, locations, count, skip) ==
    LET Add(sel, w) ==
          IF Len(sel) >= count \/ w \notin Range(list) \/ w \in skip \/ w \in Range(sel)
          THEN sel ELSE Append(sel, w)
    IN  FoldLeft(Add, <<>>, locations)

(* WorkerRouterView::select_workers: the failed ones only as a last resort. *)
select_workers(v, count, failed) ==
    LET selected == select_n(v.workers, v.hash_ring, count, failed)
    IN  IF selected # <<>> THEN selected
        ELSE select_n(v.workers, v.hash_ring, count, {})

(* select_worker_for_read: the locations first, then the ring; None when    *)
(* there is no worker available.                                             *)
select_worker_for_read(v, failed) ==
    LET located == workers_from_block_locations(v.workers, v.locations, Count, failed)
        selected == IF located # <<>> THEN located ELSE select_workers(v, Count, failed)
    IN  IF selected = <<>> THEN None ELSE Head(selected)

(* consistent_hash_select_from_ring: the first worker the attempts reach. *)
consistent_hash_select(v, skip) ==
    LET Good(i) == i \in DOMAIN v.workers /\ v.workers[i] \notin skip
        good == SelectSeq(Attempts(v.workers, v.hash_ring), Good)
    IN  IF good = <<>> THEN None ELSE v.workers[Head(good)]
(* select_worker: the local worker, unless it failed or left the list; then *)
(* the first the ring's attempts reach.                                     *)
select_worker(v, failed) ==
    IF v.local \in Range(v.workers) \ failed THEN v.local
    ELSE LET w == consistent_hash_select(v, failed)
         IN  IF w # None THEN w ELSE consistent_hash_select(v, {})

(* pick_any_worker: one of those that have not failed, or of all. *)
pick_any_worker(v, failed) ==
    IF Range(v.workers) \subseteq failed THEN Range(v.workers)
    ELSE Range(v.workers) \ failed

(* open_replica_writers: workers are tried in the order of the pool until   *)
(* enough replicas are open; the ones that cannot be reached are marked.    *)
filter_not_failed(pool, failed) == SelectSeq(pool, LAMBDA w : w \notin failed)
TryOpen(pool, reach) ==
    LET Good(i) == {j \in 1 .. i : pool[j] \in reach}
        used == {i \in DOMAIN pool : Cardinality(Good(i - 1)) < Replicas}
    IN  [opened |-> {pool[i] : i \in {j \in used : pool[j] \in reach}},
         marked |-> {pool[i] : i \in {j \in used : pool[j] \notin reach}}]

(* A pool with nobody left clears the failure marks. *)
open_replica_writers(pool, failed, reach) ==
    LET try == TryOpen(pool, reach)
    IN  IF pool = <<>> THEN [opened |-> {}, failed |-> {}]
        ELSE [opened |-> IF Cardinality(try.opened) < MinReplicas THEN {} ELSE try.opened,
              failed |-> failed \cup try.marked]

(* start_block: the hash-picked workers, then all of them. *)
open_block(v, failed, reach) ==
    LET picked == filter_not_failed(select_workers(v, Count, failed), failed)
        first == open_replica_writers(picked, failed, reach)
        rest == filter_not_failed(v.workers, first.failed)
    IN  IF first.opened # {} THEN first
        ELSE open_replica_writers(rest, first.failed, reach)

----------------------------------------------------------------------------
Init ==
    /\ master \in Lists
    /\ changes = 0
    /\ workers = <<>> /\ hash_ring = <<>> /\ local_worker_id = None
    /\ refresher = "due"
    /\ fresh = <<>>
    /\ view = [t \in Readers |-> NoView]
    /\ failed_workers = [t \in Readers |-> {}]
    /\ pc = [t \in Readers |-> "closed"]
    /\ tried = [t \in Readers |-> None]
    /\ chosen = [t \in Readers |-> None]

(* Workers come and go (external). *)
ListChanges(l) ==
    /\ changes < MaxChanges
    /\ l # master
    /\ master' = l
    /\ changes' = changes + 1
    /\ UNCHANGED <<router, refresher, fresh, readers>>

(* needs_refresh: the refresh task finds the list older than its TTL. *)
NeedsRefresh ==
    /\ refresher = "idle"
    /\ refresher' = "due"
    /\ UNCHANGED <<master, changes, router, fresh, readers>>

(* refresh_workers: the master does not answer; the list that is there       *)
(* serves on, until it is due again.                                         *)
RefreshFails ==
    /\ refresher = "due"
    /\ refresher' = "idle"
    /\ UNCHANGED <<master, changes, router, fresh, readers>>

(* workers_fingerprint: what two lists have in common when they are the      *)
(* same workers in another order.                                            *)
workers_fingerprint(list) == Range(list)

(* refresh_workers: the list arrives and update_workers stores it; a list    *)
(* with the fingerprint of the published one is not published again.         *)
RefreshWorkers ==
    /\ refresher = "due"
    /\ IF workers_fingerprint(master) = workers_fingerprint(workers) /\ workers # <<>>
       THEN refresher' = "idle" /\ UNCHANGED <<workers, fresh>>
       ELSE /\ workers' = master
            /\ fresh' = master
            /\ refresher' = "ring"
    /\ UNCHANGED <<master, changes, hash_ring, local_worker_id, readers>>

(* ... then the ring, *)
PublishRing ==
    /\ refresher = "ring"
    /\ hash_ring' = fresh
    /\ refresher' = "local"
    /\ UNCHANGED <<master, changes, workers, local_worker_id, fresh, readers>>

(* ... then the local worker, the first whose host is a name of this machine *)
(* or an address of one of its interfaces.                                   *)
local_hostnames == LocalNames
is_local_address(host) == host \in Interfaces
detect_local_worker(list) ==
    LET Local(w) == Host[w] \in local_hostnames \/ is_local_address(Host[w])
        here == {i \in DOMAIN list : Local(list[i])}
    IN  IF here = {} THEN None ELSE list[Min(here)]
PublishLocal ==
    /\ refresher = "local"
    /\ local_worker_id' = detect_local_worker(fresh)
    /\ fresh' = <<>>
    /\ refresher' = "idle"
    /\ UNCHANGED <<master, changes, workers, hash_ring, readers>>

----------------------------------------------------------------------------
(* from_shared: the view loads the local worker, *)
Open(t, locations) ==
    /\ pc[t] = "closed"
    /\ view' = [view EXCEPT ![t] = [NoView EXCEPT !.local = local_worker_id,
                                                  !.locations = locations]]
    /\ pc' = [pc EXCEPT ![t] = "workers"]
    /\ UNCHANGED <<master, changes, router, refresher, fresh, failed_workers, tried, chosen>>

(* ... the workers, *)
LoadWorkers(t) ==
    /\ pc[t] = "workers"
    /\ view' = [view EXCEPT ![t].workers = workers]
    /\ pc' = [pc EXCEPT ![t] = "ring"]
    /\ UNCHANGED <<master, changes, router, refresher, fresh, failed_workers, tried, chosen>>

(* ... and the ring. *)
LoadRing(t) ==
    /\ pc[t] = "ring"
    /\ view' = [view EXCEPT ![t].hash_ring = hash_ring]
    /\ pc' = [pc EXCEPT ![t] = IF CheckCount = 0 THEN "open" ELSE "probe"]
    /\ UNCHANGED <<master, changes, router, refresher, fresh, failed_workers, tried, chosen>>

(* from_workers: a view of a list of its own, without a local worker. *)
from_workers(list) == [NoView EXCEPT !.workers = list, !.hash_ring = list]

(* GoosefsFileInStream::open, without a context: the list is fetched for     *)
(* this file alone, and an empty one refused.                                *)
OpenAlone(t, locations) ==
    /\ pc[t] = "closed"
    /\ master # <<>>
    /\ view' = [view EXCEPT ![t] = [from_workers(master) EXCEPT !.locations = locations]]
    /\ pc' = [pc EXCEPT ![t] = IF CheckCount = 0 THEN "open" ELSE "probe"]
    /\ UNCHANGED <<master, changes, router, refresher, fresh, failed_workers, tried, chosen>>

(* Mutant of apply_probed_locations: a block nobody answered for loses its  *)
(* locations.                                                                *)
apply_probed_locationsAlways(known, answered, found) == found
(* apply_probed_locations: an answer replaces what the master said, also by *)
(* nothing; without one the master's locations stay.                        *)
apply_probed_locations(known, answered, found) == IF answered = {} THEN known ELSE found

(* enrich_file_block_locations: the workers the ring picks are asked        *)
(* whether they hold the block; `answered' do, and those of `found' say     *)
(* yes, in the order the answers are looked at.                             *)
Probe(t, answered, found) ==
    /\ pc[t] = "probe"
    /\ answered \subseteq Range(select_workers(view[t], CheckCount, failed_workers[t]))
    /\ IsInjective(found) /\ Range(found) \subseteq answered
    /\ view' = [view EXCEPT
         ![t].locations = apply_probed_locations(@, answered, found)]
    /\ pc' = [pc EXCEPT ![t] = "open"]
    /\ UNCHANGED <<master, changes, router, refresher, fresh, failed_workers, tried, chosen>>

(* connect_worker: a worker is selected, *)
Select(t) ==
    /\ pc[t] = "open"
    /\ LET w == select_worker_for_read(view[t], failed_workers[t])
       IN  /\ w # None
           /\ tried' = [tried EXCEPT ![t] = w]
           /\ pc' = [pc EXCEPT ![t] = "connect"]
    /\ UNCHANGED <<master, changes, router, refresher, fresh, view, failed_workers, chosen>>

(* ... connected, after a reconnect when its session had expired, *)
Connected(t) ==
    /\ pc[t] \in {"connect", "retry"}
    /\ pc' = [pc EXCEPT ![t] = "open"]
    /\ tried' = [tried EXCEPT ![t] = None]
    /\ chosen' = [chosen EXCEPT ![t] = None]
    /\ UNCHANGED <<master, changes, router, refresher, fresh, view, failed_workers>>

(* ... or marked failed and replaced by another choice. *)
ConnectFails(t) ==
    /\ pc[t] = "connect"
    /\ LET failed == failed_workers[t] \cup {tried[t]}
           w == select_worker_for_read(view[t], failed)
       IN  /\ failed_workers' = [failed_workers EXCEPT ![t] = failed]
           /\ chosen' = [chosen EXCEPT ![t] = tried[t]]
           /\ tried' = [tried EXCEPT ![t] = w]
           /\ pc' = [pc EXCEPT ![t] = "retry"]
    /\ UNCHANGED <<master, changes, router, refresher, fresh, view>>

(* The second choice fails too, or there was none to begin with: the call   *)
(* fails, and the worker is not marked.                                      *)
GiveUp(t) ==
    /\ \/ pc[t] = "retry"
       \/ pc[t] = "open" /\ select_worker_for_read(view[t], failed_workers[t]) = None
    /\ pc' = [pc EXCEPT ![t] = "open"]
    /\ tried' = [tried EXCEPT ![t] = None]
    /\ chosen' = [chosen EXCEPT ![t] = None]
    /\ UNCHANGED <<master, changes, router, refresher, fresh, view, failed_workers>>

(* A failure mark outlives its TTL. *)
Expire(t, w) ==
    /\ w \in failed_workers[t]
    /\ failed_workers' = [failed_workers EXCEPT ![t] = @ \ {w}]
    /\ UNCHANGED <<master, changes, router, refresher, fresh, view, pc, tried, chosen>>

(* A writer opens a block, or fails to, while only `reach' can be reached.  *)
OpenBlock(t, reach) ==
    /\ pc[t] = "open"
    /\ failed_workers' = [failed_workers EXCEPT
         ![t] = open_block(view[t], @, reach).failed]
    /\ UNCHANGED <<master, changes, router, refresher, fresh, view, pc, tried, chosen>>

(* open_ufs_stream: any worker takes the stream; one that fails is marked,  *)
(* and the call fails.                                                       *)
OpenUfsFails(t, w) ==
    /\ pc[t] = "open"
    /\ w \in pick_any_worker(view[t], failed_workers[t])
    /\ failed_workers' = [failed_workers EXCEPT ![t] = @ \cup {w}]
    /\ UNCHANGED <<master, changes, router, refresher, fresh, view, pc, tried, chosen>>

Close(t) ==
    /\ pc[t] = "open"
    /\ pc' = [pc EXCEPT ![t] = "closed"]
    /\ view' = [view EXCEPT ![t] = NoView]
    /\ failed_workers' = [failed_workers EXCEPT ![t] = {}]
    /\ UNCHANGED <<master, changes, router, refresher, fresh, tried, chosen>>

(* The bindings' positioned_read asks the shared router, which loads the    *)
(* workers and looks for one the locations name,                            *)
Direct(t, locations) ==
    /\ pc[t] = "closed"
    /\ LET located == workers_from_block_locations(workers, locations, Count, {})
       IN  /\ view' = [view EXCEPT ![t] = [NoView EXCEPT !.workers = workers,
                                                         !.locations = locations]]
           /\ IF workers = <<>> \/ located # <<>>
              THEN /\ tried' = [tried EXCEPT ![t] = IF located = <<>> THEN None ELSE Head(located)]
                   /\ pc' = [pc EXCEPT ![t] = "direct"]
              ELSE /\ pc' = [pc EXCEPT ![t] = "again"]
                   /\ UNCHANGED tried
    /\ UNCHANGED <<master, changes, router, refresher, fresh, failed_workers, chosen>>

(* ... or else loads them again in select_workers, *)
DirectWorkers(t) ==
    /\ pc[t] = "again"
    /\ view' = [view EXCEPT ![t].workers = workers]
    /\ pc' = [pc EXCEPT ![t] = "select"]
    /\ UNCHANGED <<master, changes, router, refresher, fresh, failed_workers, tried, chosen>>

(* ... and the ring, and selects. *)
DirectRing(t) ==
    /\ pc[t] = "select"
    /\ LET v == [view[t] EXCEPT !.hash_ring = hash_ring]
           selected == select_workers(v, Count, {})
       IN  /\ view' = [view EXCEPT ![t] = v]
           /\ tried' = [tried EXCEPT ![t] = IF selected = <<>> THEN None ELSE Head(selected)]
    /\ pc' = [pc EXCEPT ![t] = "direct"]
    /\ UNCHANGED <<master, changes, router, refresher, fresh, failed_workers, chosen>>

(* The read succeeds or fails with the worker it got. *)
DirectDone(t) ==
    /\ pc[t] = "direct"
    /\ pc' = [pc EXCEPT ![t] = "closed"]
    /\ view' = [view EXCEPT ![t] = NoView]
    /\ tried' = [tried EXCEPT ![t] = None]
    /\ UNCHANGED <<master, changes, router, refresher, fresh, failed_workers, chosen>>

Refresher == NeedsRefresh \/ PublishRing \/ PublishLocal
Answers == UNION {[1 .. n -> Workers] : n \in 0 .. CheckCount}
Reader(t) ==
    \/ \E locations \in Locations : Open(t, locations) \/ OpenAlone(t, locations)
    \/ LoadWorkers(t) \/ LoadRing(t) \/ Select(t) \/ Connected(t)
    \/ ConnectFails(t) \/ GiveUp(t) \/ Close(t)
    \/ \E w \in Workers : Expire(t, w)
    \/ \E answered \in SUBSET Workers, found \in Answers : Probe(t, answered, found)
    \/ \E reach \in SUBSET Workers : OpenBlock(t, reach)
    \/ \E w \in Workers : OpenUfsFails(t, w)
    \/ \E locations \in Locations : Direct(t, locations)
    \/ DirectWorkers(t) \/ DirectRing(t) \/ DirectDone(t)
Next ==
    \/ \E l \in Lists : ListChanges(l)
    \/ Refresher \/ RefreshWorkers \/ RefreshFails
    \/ \E t \in Readers : Reader(t)

Spec == Init /\ [][Next]_vars

(* The refresh task ticks for as long as the context is open; a refresh that *)
(* fails is tried again at the next tick, and does not fail every time.      *)
Fairness == WF_vars(Refresher) /\ SF_vars(RefreshWorkers)
----------------------------------------------------------------------------
Reachable(v) == {v.workers[i] : i \in Range(Attempts(v.workers, v.hash_ring)) \cap DOMAIN v.workers}

(* Between two refreshes the three parts of the shared router belong         *)
(* together: the ring was built from the published list and the local worker *)
(* was looked up in it, also after a refresh that was skipped because the    *)
(* set of workers had not changed (update_workers).                          *)
RouterPublished ==
    refresher \in {"idle", "due"} =>
      /\ hash_ring = workers
      /\ local_worker_id = detect_local_worker(workers)

(* Whoever is asked for a worker names one of the list it was asked with,    *)
(* even when ring, list and local worker come from different refreshes, and  *)
(* one that failed only when the attempts reach no other (select_worker,     *)
(* select_worker_for_read of the view and of the shared router).             *)
SelectedIsListed ==
    \A t \in Readers :
      /\ pc[t] = "direct" => tried[t] \in Range(view[t].workers) \cup {None}
      /\ pc[t] = "open" =>
           \A w \in {select_worker(view[t], failed_workers[t]),
                      select_worker_for_read(view[t], failed_workers[t])} \ {None} :
             /\ w \in Range(view[t].workers)
             /\ w \in failed_workers[t] => Reachable(view[t]) \subseteq failed_workers[t]

(* A block that some live worker is known to hold is read from such a        *)
(* worker: a failed probe does not make the reader forget what the master    *)
(* said, and a failed worker is passed over (maybe_enrich_file_block_locations,*)
(* select_workers_for_read).                                                 *)
FromHolder ==
    \A t \in Readers :
      /\ pc[t] = "probe" /\ pc'[t] = "open" =>
           \/ view'[t].locations = view[t].locations
           \/ select_workers(view[t], CheckCount, failed_workers[t]) # <<>>
      /\ pc[t] = "open" /\ pc'[t] = "connect" =>
           LET holders == (Range(view[t].locations) \cap Range(view[t].workers))
                          \ failed_workers[t]
           IN  holders = {} \/ tried'[t] \in holders

(* After a failed connection a reader turns to a worker that has not failed, *)
(* as long as the ring's attempts reach one (connect_worker, read_segment).  *)
TurnsElsewhere ==
    \A t \in Readers :
      pc[t] = "connect" /\ pc'[t] = "retry" =>
        \/ tried'[t] # None /\ tried'[t] \notin failed_workers'[t]
        \/ Reachable(view[t]) \subseteq failed_workers'[t]

(* The replicas chosen for a block are on different hosts, and how many are  *)
(* asked for does not change who comes first: readers, which ask for more    *)
(* candidates than there are replicas, look where the writer wrote           *)
(* (select_workers).                                                         *)
ReplicasApart ==
    \A t \in Readers :
      LET all == select_workers(view[t], Cardinality(Workers), failed_workers[t])
      IN  pc[t] = "open" =>
            /\ \A i, j \in DOMAIN all : Host[all[i]] = Host[all[j]] => i = j
            /\ \A n \in 1 .. Len(all) :
                 select_workers(view[t], n, failed_workers[t]) = SubSeq(all, 1, n)

(* However the list changes, the router comes to hold the workers of the list *)
(* the master reports (start_worker_refresh_task, update_workers).            *)
Followed == Range(workers) = Range(master) /\ Range(hash_ring) = Range(master)
=============================================================================
