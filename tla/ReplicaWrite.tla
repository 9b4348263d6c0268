---------------------------- MODULE ReplicaWrite ----------------------------
(***************************************************************************)
(* How a file writer finds the workers of its next block: the replica plan *)
(* and the space filter (src/io/replica_write.rs) and the opening of one   *)
(* stream per replica (open_next_block, src/io/file_writer.rs), first on   *)
(* the workers the ring picks and then on all of them.  The blacklist is   *)
(* that of the writer's view of the router: what earlier blocks left in it *)
(* and has not expired.                                                    *)
(***************************************************************************)
EXTENDS Integers, Sequences, FiniteSets, SequencesExt

CONSTANTS Nodes,            \* the workers the router lists
          Counts,           \* configured replica counts, -1 and 0 included
          Stocks,           \* [capacity, used, forbid] of a worker
          min_remain_bytes,
          min_remain_tenths,
          cache_tenths,     \* worker_read_cache_min_ratio, in tenths
          Sequence,           \* block sequence numbers
          MaxRefused        \* bound: streams the workers refuse to open

VARIABLES conf,        \* the configuration, the router's worker list, the block's number
          blacklist,   \* failed_workers of the writer's view
          stage,       \* "plan", "select", "open", "opened", "failed"
          use_all,     \* the second attempt
          pool,        \* candidates left to try
          initial, min_needed,
          opened,      \* the replicas open so far
          listed,     \* ghost: the candidates of this attempt
          excused,     \* ghost: the workers tried, or blacklisted from the start
          error,
          refused

plan == <<initial, min_needed>>
vars == <<conf, blacklist, stage, use_all, pool, plan, opened, listed, excused, error, refused>>

AtLeast1(n) == IF n < 1 THEN 1 ELSE n
Larger(a, b) == IF a > b THEN a ELSE b

TypeOK ==
    /\ stage \in {"plan", "select", "open", "opened", "failed"}
    /\ blacklist \subseteq Nodes /\ opened \subseteq Nodes /\ listed \subseteq Nodes
    /\ excused \subseteq Nodes
    /\ initial \in Nat /\ min_needed \in Nat
    /\ error \in {"", "InvalidArgument", "NoWorkerAvailable", "open", "ResourceExhausted"}

Init ==
    /\ conf \in [async_through : BOOLEAN, number : Counts, durable : Counts,
                 durable_min : Counts, node_retry : Counts,
                 stock : [Nodes -> Stocks], seq : Sequence]
    /\ ~conf.async_through => \* a plain write looks at none of these
          /\ conf.durable = conf.number /\ conf.durable_min = conf.number
          /\ conf.seq = 0 /\ Cardinality(Range(conf.stock)) = 1
    /\ blacklist \in SUBSET Nodes
    /\ stage = "plan" /\ use_all = FALSE /\ pool = <<>> /\ initial = 0 /\ min_needed = 0
    /\ opened = {} /\ listed = {} /\ excused = blacklist /\ error = "" /\ refused = 0

-----------------------------------------------------------------------------
(* The plan *)

Wanted ==
    IF conf.async_through THEN Larger(AtLeast1(conf.number), AtLeast1(conf.durable)) ELSE AtLeast1(conf.number)
Floor == IF conf.async_through THEN AtLeast1(conf.durable_min) ELSE Wanted
max_retry_node == Larger(Wanted, AtLeast1(conf.node_retry))

replica_write_plan ==
    /\ stage = "plan"
    /\ IF Wanted < Floor
       THEN stage' = "failed" /\ error' = "InvalidArgument" /\ UNCHANGED plan
       ELSE /\ stage' = "select" /\ UNCHANGED error
            /\ initial' = Wanted /\ min_needed' = Floor
    /\ UNCHANGED <<conf, blacklist, use_all, pool, opened, listed, excused, refused>>

-----------------------------------------------------------------------------
(* The space a worker has left for data that is not persisted yet *)

cache_min_ratio == IF cache_tenths \in 0 .. 9 THEN cache_tenths ELSE 1

persist_capacity(w) == (conf.stock[w].capacity * (10 - cache_min_ratio) + 9) \div 10
remain_bytes(w) == persist_capacity(w) - conf.stock[w].used
worker_has_persist_space(w) ==
    /\ ~conf.stock[w].forbid /\ conf.stock[w].capacity > 0 /\ persist_capacity(w) > 0
    /\ remain_bytes(w) >= min_remain_bytes
    /\ remain_bytes(w) * 10 >= min_remain_tenths * persist_capacity(w)

filter_no_space_workers(s) ==
    LET available == SelectSeq(s, LAMBDA w : ~conf.stock[w].forbid)
        has_space == SelectSeq(available, worker_has_persist_space)
    IN  IF conf.seq > 0 /\ Len(has_space) < Floor THEN available ELSE has_space

-----------------------------------------------------------------------------
(* Opening the replicas *)

(* The ring's candidates are not blacklisted, as long as any worker is not. *)
select_workers ==
    LET alive == Nodes \ blacklist
        from == IF alive = {} THEN Nodes ELSE alive
    IN  {S \in SUBSET from :
            Cardinality(S) = IF max_retry_node < Cardinality(from)
                             THEN max_retry_node ELSE Cardinality(from)}

(* Which candidates; their order does not matter here. *)
Candidates == IF use_all THEN {Nodes} ELSE select_workers

degrade_replicas(alive) ==
    /\ initial' = IF initial > alive THEN alive ELSE initial
    /\ min_needed' = IF initial > alive /\ ~conf.async_through THEN alive ELSE min_needed

(* The error of an attempt: the first is retried with all workers. *)
open_next_block(e) ==
    IF use_all THEN stage' = "failed" /\ error' = e /\ UNCHANGED <<use_all, plan>>
    ELSE /\ stage' = "select" /\ use_all' = TRUE /\ UNCHANGED error
         /\ initial' = Wanted /\ min_needed' = Floor

filter_not_failed(c) == c \ blacklist

clear_failed == blacklist' = {}

open_replica_writers ==
    /\ stage = "select"
    /\ \E c \in Candidates :
          LET alive == SetToSeq(filter_not_failed(c))
              p == IF conf.async_through THEN filter_no_space_workers(alive) ELSE alive
          IN  IF p = <<>>
              THEN /\ clear_failed /\ open_next_block("NoWorkerAvailable")
                   /\ UNCHANGED <<pool, listed>>
              ELSE /\ stage' = "open" /\ pool' = p /\ listed' = ToSet(p)
                   /\ degrade_replicas(Len(p))
                   /\ UNCHANGED <<blacklist, use_all, error>>
    /\ opened' = {}
    /\ UNCHANGED <<conf, excused, refused>>

Trying == stage = "open" /\ pool # <<>> /\ Cardinality(opened) < initial
Tried ==
    /\ pool' = Tail(pool) /\ excused' = excused \cup {Head(pool)}
    /\ UNCHANGED <<conf, stage, use_all, plan, listed, error>>

(* The next candidate gets a stream, *)
try_open_replica ==
    /\ Trying /\ Tried
    /\ opened' = opened \cup {Head(pool)} /\ UNCHANGED <<blacklist, refused>>

(* ... or goes on the blacklist. *)
mark_failed ==
    /\ Trying /\ Tried
    /\ refused < MaxRefused /\ refused' = refused + 1
    /\ blacklist' = blacklist \cup {Head(pool)} /\ UNCHANGED opened

(* Mutant: one replica is enough. *)
EnoughAny == Cardinality(opened) # 0

Enough == Cardinality(opened) # 0 /\ Cardinality(opened) >= min_needed

(* All candidates tried, or enough of them opened: too few are cancelled. *)
all_tried ==
    /\ stage = "open" /\ (pool = <<>> \/ Cardinality(opened) >= initial)
    /\ IF Enough
       THEN stage' = "opened" /\ UNCHANGED <<opened, use_all, error, plan>>
       ELSE /\ opened' = {}
            /\ open_next_block(IF opened = {} THEN "open" ELSE "ResourceExhausted")
    /\ UNCHANGED <<conf, blacklist, pool, listed, excused, refused>>

(* A failure is older than the ttl. *)
cleanup_expired_failures ==
    /\ stage \in {"select", "open"}
    /\ \E w \in blacklist : blacklist' = blacklist \ {w}
    /\ UNCHANGED <<conf, stage, use_all, pool, plan, opened, listed, excused, error, refused>>

Returned == stage \in {"opened", "failed"} /\ UNCHANGED vars

Next == \/ replica_write_plan \/ open_replica_writers \/ try_open_replica \/ mark_failed
        \/ all_tried \/ cleanup_expired_failures \/ Returned
Spec == Init /\ [][Next]_vars

-----------------------------------------------------------------------------
(* A block that is open has the replicas it is promised: an asynchronous write at
   least durable.min of them, whatever was degraded or refused, and a plain one
   as many as it wants unless every candidate was tried. *)
ReplicasPromised ==
    stage = "opened" =>
        /\ conf.async_through => Cardinality(opened) >= AtLeast1(conf.durable_min)
        /\ Cardinality(opened) <= Wanted
        /\ Cardinality(opened) < Wanted => listed \subseteq excused

(* Asynchronous data goes only where it fits: the first block of a file to workers
   that keep the configured bytes free, a later one below the watermark only when
   too few of the candidates are above it, and none to a worker that forbids
   writes. *)
SpaceRespected ==
    conf.async_through => \A w \in opened :
        /\ ~conf.stock[w].forbid
        /\ conf.seq = 0 => conf.stock[w].capacity - conf.stock[w].used >= min_remain_bytes
        /\ \/ worker_has_persist_space(w)
           \/ Cardinality({v \in listed : worker_has_persist_space(v)}) < Floor

(* The writer gives up on a block only after trying every worker it may use, other
   than the ones blacklisted before; and when those were all that was left, the
   blacklist is gone, so that the next block can try them. *)
GivesUpLast ==
    stage = "failed" /\ error # "InvalidArgument" =>
        \A w \in Nodes : (conf.async_through => worker_has_persist_space(w)) =>
            w \in excused /\ (error = "NoWorkerAvailable" => w \notin blacklist)
=============================================================================
