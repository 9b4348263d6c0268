--------------------------- MODULE MetadataCache ---------------------------
(***************************************************************************)
(* The client-side metadata cache (src/src/metadata_cache.rs) and its      *)
(* callers in BaseFileSystem and GoosefsFileWriter: one directory, the     *)
(* files in it, and tasks of one client that read and change them.         *)
(*                                                                         *)
(* Every method of the cache holds its mutex and is one step; a call that  *)
(* goes to the master is a lookup, the master's answer and a store, or the *)
(* master's change followed by one invalidation per path.                  *)
(*                                                                         *)
(* The master keeps a revision of each path: 0 absent, 1 incomplete,       *)
(* 2 complete, 3 absent again, and so on.  A snapshot is what the master   *)
(* answered: the revision of the path asked for, or of every file listed.  *)
(***************************************************************************)
EXTENDS Integers, Sequences, Functions

CONSTANTS
    Dir, Files, Tasks,
    Capacity,   \* metadata_cache_max_size
    Ttl,        \* metadata_cache_expiration
    MaxTime,    \* bound: clock ticks
    MaxRev      \* bound: revisions of a path

ASSUME MetadataAssumption ==
    /\ Dir \notin Files
    /\ Capacity \in Nat \ {0}
    /\ Ttl \in Nat \ {0}
    /\ MaxTime \in Nat
    /\ MaxRev \in Nat \ {0, 1}

Paths == Files \cup {Dir}
NoSnap == [p \in Paths |-> -1]

VARIABLES
    rev,        \* external: the master's revision of each path
    status,     \* CachedItem.status; NoSnap is None
    listing,    \* CachedItem.dir_listing of Dir
    inserted,   \* CachedItem.inserted_at
    lru,        \* the keys in the LRU map, least recently used first
    now,
    pc,
    path,       \* the path of a task's call
    skip,       \* its call does not consult the cache
    got,        \* the master's answer
    todo,       \* the paths it has still to invalidate
    answer,     \* ghost: what its last call returned
    synced,     \* ghost: the revisions that finished mutations made
    floor       \* ghost: synced when the task's call began

cache == <<status, listing, inserted, lru>>
calls == <<pc, path, skip, got, todo>>
vars == <<rev, cache, now, calls, answer, synced, floor>>

State(r) == CASE r % 3 = 0 -> "absent" [] r % 3 = 1 -> "incomplete"
              [] r % 3 = 2 -> "complete"
Exists(p) == State(rev[p]) # "absent"

----------------------------------------------------------------------------
(* The cache, under its mutex. *)
Fresh(p) == p \in Range(lru) /\ now - inserted[p] < Ttl

(* The keys but p, which occurs at most once. *)
Without(p) ==
    IF p \notin Range(lru) THEN lru
    ELSE LET i == CHOOSE j \in DOMAIN lru : lru[j] = p
         IN  SubSeq(lru, 1, i - 1) \o SubSeq(lru, i + 1, Len(lru))

Gone(p) ==
    /\ lru' = Without(p)
    /\ status' = [status EXCEPT ![p] = NoSnap]
    /\ listing' = IF p = Dir THEN NoSnap ELSE listing
    /\ inserted' = [inserted EXCEPT ![p] = 0]

Touch(p) == Append(Without(p), p)

(* A key put in a full map pushes out the least recently used one. *)
Put(p) ==
    LET full == p \notin Range(lru) /\ Len(lru) = Capacity
    IN  [keys |-> IF full THEN Append(Tail(lru), p) ELSE Touch(p),
         out |-> IF full THEN {Head(lru)} ELSE {}]

(* Status and listing of a path share one time of insertion. *)
Stamp(out, p) == [q \in Paths |-> IF q = p THEN now ELSE IF q \in out THEN 0
                                  ELSE inserted[q]]

put_status(p, snap) ==
    LET put == Put(p)
    IN  /\ lru' = put.keys
        /\ status' = [q \in Paths |-> IF q = p THEN snap
                                      ELSE IF q \in put.out THEN NoSnap
                                      ELSE status[q]]
        /\ listing' = IF Dir \in put.out THEN NoSnap ELSE listing
        /\ inserted' = Stamp(put.out, p)

insert_listing(snap) ==
    LET put == Put(Dir)
    IN  /\ lru' = put.keys
        /\ status' = [q \in Paths |-> IF q \in put.out THEN NoSnap ELSE status[q]]
        /\ listing' = snap
        /\ inserted' = Stamp(put.out, Dir)

(* The entry that a lookup of p serves: a completed or an absent status. *)
Served(p) == Fresh(p) /\ status[p] # NoSnap /\ State(status[p][p]) # "incomplete"

----------------------------------------------------------------------------
Begin(t, at, p, s) ==
    /\ pc' = [pc EXCEPT ![t] = at]
    /\ path' = [path EXCEPT ![t] = p]
    /\ skip' = [skip EXCEPT ![t] = s]
    /\ floor' = [floor EXCEPT ![t] = synced]

Return(t, snap) ==
    /\ pc' = [pc EXCEPT ![t] = "idle"]
    /\ path' = [path EXCEPT ![t] = Dir]
    /\ skip' = [skip EXCEPT ![t] = FALSE]
    /\ got' = [got EXCEPT ![t] = NoSnap]
    /\ answer' = [answer EXCEPT ![t] = snap]

(* What a lookup does to the recency of p, or to an expired entry. *)
Lookup(p) ==
    IF Fresh(p) THEN lru' = Touch(p) /\ UNCHANGED <<status, listing, inserted>>
    ELSE Gone(p)

(* get_status_through_cache; s is sync_interval_ms == 0. *)
GetStatus(t, p, s) ==
    /\ pc[t] = "idle"
    /\ IF s THEN UNCHANGED cache ELSE Lookup(p)
    /\ IF ~s /\ Served(p)
       THEN /\ Begin(t, "idle", Dir, FALSE)
            /\ answer' = [answer EXCEPT ![t] = status[p]]
       ELSE /\ Begin(t, "status", p, s)
            /\ answer' = [answer EXCEPT ![t] = NoSnap]
    /\ UNCHANGED <<rev, now, got, todo, synced>>

(* list_status_through_cache; s is should_skip_listing_cache. *)
ListStatus(t, s) ==
    /\ pc[t] = "idle"
    /\ IF s THEN UNCHANGED cache ELSE Lookup(Dir)
    /\ IF ~s /\ Fresh(Dir) /\ listing # NoSnap
       THEN /\ Begin(t, "idle", Dir, FALSE)
            /\ answer' = [answer EXCEPT ![t] = listing]
       ELSE /\ Begin(t, "list", Dir, s)
            /\ answer' = [answer EXCEPT ![t] = NoSnap]
    /\ UNCHANGED <<rev, now, got, todo, synced>>

(* The master answers, or the call fails; a listing of no directory fails. *)
Fetch(t) ==
    /\ pc[t] \in {"status", "list"}
    /\ got[t] = NoSnap
    /\ \/ /\ pc[t] = "list" => Exists(Dir)
          /\ got' = [got EXCEPT ![t] =
                       IF pc[t] = "list" THEN [rev EXCEPT ![Dir] = -1]
                       ELSE [NoSnap EXCEPT ![path[t]] = rev[path[t]]]]
          /\ UNCHANGED <<pc, path, skip, answer>>
       \/ Return(t, NoSnap)
    /\ UNCHANGED <<rev, cache, now, todo, synced, floor>>

(* insert_arc or insert_not_found; insert_listing unless skipped. *)
Store(t) ==
    /\ pc[t] \in {"status", "list"}
    /\ got[t] # NoSnap
    /\ IF pc[t] = "status" THEN put_status(path[t], got[t])
       ELSE IF skip[t] THEN UNCHANGED cache ELSE insert_listing(got[t])
    /\ Return(t, got[t])
    /\ UNCHANGED <<rev, now, todo, synced, floor>>

----------------------------------------------------------------------------
(* The changes the master makes: create and complete a file, delete one,     *)
(* rename one, make the directory, delete it with its files.                 *)
Create(p) == State(rev[p]) = "absent" /\ Exists(Dir)
             /\ rev' = [rev EXCEPT ![p] = @ + 1]
Complete(p) == State(rev[p]) = "incomplete" /\ rev' = [rev EXCEPT ![p] = @ + 1]
Delete(p) == State(rev[p]) = "complete" /\ rev' = [rev EXCEPT ![p] = @ + 1]
Rename(p, q) == State(rev[p]) = "complete" /\ State(rev[q]) = "absent"
                /\ rev' = [rev EXCEPT ![p] = @ + 1, ![q] = @ + 2]
Mkdir == ~Exists(Dir) /\ rev' = [rev EXCEPT ![Dir] = @ + 2]
DeleteDir == Exists(Dir)
             /\ rev' = [p \in Paths |-> IF Exists(p) THEN rev[p] + 3 - (rev[p] % 3)
                                        ELSE rev[p]]

(* Mutant of Dropped: the parent keeps its entry. *)
DroppedAlone(p) == <<p>>

(* invalidate_with_parent; the root, the parent of Dir, is not modelled. *)
Dropped(p) == IF p = Dir THEN <<Dir>> ELSE <<Dir, p>>

(* A change that succeeds has its paths to invalidate; one that reports an    *)
(* error, applied or not, leaves the cache alone.                            *)
Applied(t, drop) ==
    /\ \A p \in Paths : rev'[p] <= MaxRev
    /\ \/ /\ pc' = [pc EXCEPT ![t] = "invalidate"]
          /\ todo' = [todo EXCEPT ![t] = drop]
          /\ got' = [got EXCEPT ![t] = rev']
       \/ UNCHANGED <<pc, todo, got>>

Mutate(t) ==
    /\ pc[t] = "idle"
    /\ \/ \E p \in Files : (Create(p) \/ Complete(p) \/ Delete(p))
                           /\ Applied(t, Dropped(p))
       \/ \E p, q \in Files : Rename(p, q) /\ Applied(t, Dropped(p) \o Dropped(q))
       \/ (Mkdir \/ DeleteDir) /\ Applied(t, Dropped(Dir))
    /\ answer' = [answer EXCEPT ![t] = NoSnap]
    /\ floor' = [floor EXCEPT ![t] = synced]
    /\ UNCHANGED <<cache, now, path, skip, synced>>

(* invalidate, one path after the other. *)
Invalidate(t) ==
    /\ pc[t] = "invalidate"
    /\ LET p == Head(todo[t])
       IN  /\ Gone(p)
           /\ synced' = [synced EXCEPT ![p] = IF @ < got[t][p] THEN got[t][p] ELSE @]
    /\ todo' = [todo EXCEPT ![t] = Tail(@)]
    /\ IF Len(todo[t]) > 1
       THEN UNCHANGED <<pc, got>>
       ELSE /\ pc' = [pc EXCEPT ![t] = "idle"]
            /\ got' = [got EXCEPT ![t] = NoSnap]
    /\ UNCHANGED <<rev, now, path, skip, answer, floor>>

Tick ==
    /\ now < MaxTime
    /\ now' = now + 1
    /\ UNCHANGED <<rev, cache, calls, answer, synced, floor>>

Init ==
    /\ rev = [p \in Paths |-> IF p = Dir THEN 2 ELSE 0]
    /\ status = [p \in Paths |-> NoSnap]
    /\ listing = NoSnap
    /\ inserted = [p \in Paths |-> 0]
    /\ lru = <<>>
    /\ now = 0
    /\ pc = [t \in Tasks |-> "idle"]
    /\ path = [t \in Tasks |-> Dir]
    /\ skip = [t \in Tasks |-> FALSE]
    /\ got = [t \in Tasks |-> NoSnap]
    /\ todo = [t \in Tasks |-> <<>>]
    /\ answer = [t \in Tasks |-> NoSnap]
    /\ synced = rev
    /\ floor = [t \in Tasks |-> rev]

Next ==
    \/ \E t \in Tasks :
         \/ \E p \in Paths, s \in BOOLEAN : GetStatus(t, p, s)
         \/ \E s \in BOOLEAN : ListStatus(t, s)
         \/ Fetch(t) \/ Store(t) \/ Mutate(t) \/ Invalidate(t)
    \/ Tick

Spec == Init /\ [][Next]_vars

----------------------------------------------------------------------------
(* Types; the LRU map has a key for exactly the paths that hold a status or   *)
(* a listing, each once, and never more than its capacity.                    *)
TypeOK ==
    /\ rev \in [Paths -> 0 .. MaxRev]
    /\ status \in [Paths -> [Paths -> -1 .. MaxRev]]
    /\ listing \in [Paths -> -1 .. MaxRev]
    /\ inserted \in [Paths -> 0 .. now]
    /\ now \in 0 .. MaxTime
    /\ pc \in [Tasks -> {"idle", "status", "list", "invalidate"}]
    /\ path \in [Tasks -> Paths] /\ skip \in [Tasks -> BOOLEAN]
    /\ got \in [Tasks -> [Paths -> -1 .. MaxRev]]
    /\ \A t \in Tasks : todo[t] \in Seq(Paths)
    /\ answer \in [Tasks -> [Paths -> -1 .. MaxRev]]
    /\ synced \in [Paths -> 0 .. MaxRev]
    /\ floor \in [Tasks -> [Paths -> 0 .. MaxRev]]
    /\ lru \in Seq(Paths) /\ IsInjective(lru) /\ Len(lru) <= Capacity
    /\ Range(lru) = {p \in Paths : status[p] # NoSnap \/ (p = Dir /\ listing # NoSnap)}

(* A change that this client made and whose invalidation is done is seen by   *)
(* every later call: the status or the listing returned is at least as new as *)
(* the change, whether it came from the cache or from the master.             *)
(* (invalidate_on_success, invalidate_rename_on_success, and the writer's     *)
(* invalidate_file_info: a read issued after create_file returns "never       *)
(* observes the stale metadata".)  A recursive delete counts for the          *)
(* directory only: the code drops no entry of a descendant.                   *)
ReadYourWrites ==
    \A t \in Tasks, p \in Paths :
      answer[t][p] # -1 => answer[t][p] >= floor[t][p]

(* Type correctness, the bound of the cache, and what a task sees of its own  *)
(* changes.                                                                   *)
SeesOwnChanges == TypeOK /\ ReadYourWrites
=============================================================================
