----------------------------- MODULE FileReader -----------------------------
(***************************************************************************)
(* GoosefsFileReader: reads of whole files, of one range and of lists of   *)
(* ranges, block by block, with the local page cache behind the streaming  *)
(* form.  The file may be overwritten (a new version: same file_id, other  *)
(* length or modification time) while it is read.  A byte is the pair of   *)
(* its version and its offset.                                             *)
(*                                                                         *)
(* Each context has a page cache of its own and its own cached metadata;   *)
(* the set `checked' of identities whose on_file_open was done lately is   *)
(* one per process (the static ON_FILE_OPEN_CACHE).                        *)
(*                                                                         *)
(* One call is followed at a time; a step is the code between two awaits.  *)
(* The cache's own concurrency is in module PageCache, the choice of a     *)
(* worker in WorkerRouter, the stream of a block in FileInStream.          *)
(***************************************************************************)
EXTENDS Integers, Sequences, SequencesExt, FiniteSetsExt

CONSTANTS FileLength,   \* file_info.length
          BlockSize,    \* file_info.block_size_bytes
          PageSize,     \* client_cache_page_size
          Contexts,     \* the FileSystemContexts of the process
          Workers,
          Gap,          \* range_coalesce_gap_bytes
          MaxBytes,     \* range_coalesce_max_bytes
          RangeLists,   \* the lists of ranges callers ask for
          MaxVersion,   \* bound on overwrites
          MaxFaults     \* bound on failures of workers

VARIABLES
    ver,        \* the file's version on the server
    blocks,     \* [listed, infos]: blocks with an id in block_ids, in file_block_infos
    meta,       \* context -> version in its metadata cache (0: none)
    identity,   \* context -> version its page cache recorded (0: none)
    pages,      \* context -> page -> version of the cached page (0: none)
    checked,    \* ON_FILE_OPEN_CACHE: versions checked within the TTL
    failed,     \* workers marked failed in the reader's router view
    faults,
    pc,
    call,       \* the call: mode, context, ranges, version of its file_info
    fetches,    \* ranges still to be read, each by a reader of its own
    plans,      \* the reader's plans from current_plan_index on
    todo,       \* read_through_cache: pages still to be served
    segs,       \* read_file_range: plans still to be read
    buf,        \* bytes of the range that read_file_range has read
    chunks,     \* bytes of the current block served through the cache
    got,        \* bytes of the current reader
    bufs,       \* what the finished fetches returned
    worker,     \* [addr, client]: worker_addr, and the worker of the client used
    result      \* what the last call returned
shared == <<ver, blocks, meta, identity, pages, checked>>
reader == <<plans, todo, segs, buf, chunks, got, worker, failed>>
vars == <<shared, faults, pc, call, fetches, bufs, result, reader>>

Blocks == 0 .. (FileLength - 1) \div BlockSize
Pages == 0 .. (FileLength - 1) \div PageSize
Versions == 1 .. MaxVersion
NoWorker == [addr |-> "none", client |-> "none"]
NoCall == [mode |-> "none", ctx |-> CHOOSE c \in Contexts : TRUE, ranges |-> <<>>, v |-> 0]
Nothing == [ok |-> FALSE, call |-> NoCall, data |-> <<>>]

Fetch(o, l) == [offset |-> o, len |-> l]
BytesOf(v, from, to) == [i \in 1 .. to - from |-> <<v, from + i - 1>>]

----------------------------------------------------------------------------
(* BlockMapper *)

(* plan_read: the range, clamped to the file, cut at block boundaries. *)
plan_read(offset, length) ==
    LET end == Min({offset + length, FileLength})
        From[cur \in 0 .. FileLength] ==
            IF cur >= end THEN <<>>
            ELSE LET index == cur \div BlockSize
                     n == Min({end - cur, BlockSize - (cur % BlockSize)})
                 IN  <<[block_index |-> index,
                        block_id |-> IF index \in blocks.listed THEN 1 + index ELSE -1,
                        offset_in_block |-> cur % BlockSize, length |-> n]>>
                     \o From[cur + n]
    IN  IF length = 0 \/ offset >= FileLength THEN <<>> ELSE From[offset]

(* Prefers the id of file_block_infos; -1 when the block has none. *)
resolve_block_id(plan) ==
    IF plan.block_index \in blocks.infos THEN 1 + plan.block_index ELSE plan.block_id

AbsOffset(plan) == plan.block_index * BlockSize + plan.offset_in_block
Valid(plan) == resolve_block_id(plan) > 0

(* build_ufs_read_options: where the block lies in the UFS file. *)
build_ufs_read_options(plan) ==
    [offset_in_file |-> plan.block_index * BlockSize,
     block_size |-> Min({BlockSize, FileLength - plan.block_index * BlockSize})]

----------------------------------------------------------------------------
(* range_coalesce *)

NO_FETCH == -1

(* One range: merged into the last fetch when the gap and the cap allow it. *)
absorb(ranges, acc, i) ==
    LET off == ranges[i].offset
        last == Len(acc.fetches)
        cur == acc.fetches[last]
        candidate_end == Max({cur.offset + cur.len, off + ranges[i].len})
        candidate_len == candidate_end - cur.offset
        within_gap == off <= cur.offset + cur.len + Gap
        within_cap == candidate_len <= Max({1, MaxBytes, cur.len})
    IN  IF last > 0 /\ within_gap /\ within_cap
        THEN [fetches |-> [acc.fetches EXCEPT ![last].len = candidate_len],
              slices |-> [acc.slices EXCEPT ![i] = [fetch |-> last, offset |-> off - cur.offset]]]
        ELSE [fetches |-> Append(acc.fetches, Fetch(off, ranges[i].len)),
              slices |-> [acc.slices EXCEPT ![i] = [fetch |-> last + 1, offset |-> 0]]]

(* plan: the non-empty ranges in order of their offsets (a stable sort),    *)
(* and for every range the fetch and the place its bytes are found at.      *)
plan(ranges) ==
    LET wanted == {i \in DOMAIN ranges : ranges[i].len > 0}
        sorted == SetToSortSeq(wanted, LAMBDA i, j :
                      \/ ranges[i].offset < ranges[j].offset
                      \/ ranges[i].offset = ranges[j].offset /\ i < j)
        none == [fetches |-> <<>>,
                 slices |-> [i \in DOMAIN ranges |-> [fetch |-> NO_FETCH, offset |-> 0]]]
    IN  FoldLeft(LAMBDA acc, i : absorb(ranges, acc, i), none, sorted)

(* Mutant of splice_from_plan: every range starts where its fetch does. *)
splice_from_planStart(ranges, fetched) ==
    LET slices == plan(ranges).slices
    IN  [i \in DOMAIN ranges |->
           IF slices[i].fetch = NO_FETCH THEN <<>>
           ELSE SubSeq(fetched[slices[i].fetch], 1, ranges[i].len)]
(* splice_from_plan: each range's bytes out of the fetches' buffers. *)
splice_from_plan(ranges, fetched) ==
    LET slices == plan(ranges).slices
    IN  [i \in DOMAIN ranges |->
           IF slices[i].fetch = NO_FETCH THEN <<>>
           ELSE SubSeq(fetched[slices[i].fetch], slices[i].offset + 1,
                       slices[i].offset + ranges[i].len)]

----------------------------------------------------------------------------
Idle ==
    /\ plans = <<>> /\ todo = <<>> /\ segs = <<>> /\ buf = <<>> /\ chunks = <<>>
    /\ got = <<>> /\ worker = NoWorker /\ failed = {}
Reset ==
    /\ plans' = <<>> /\ todo' = <<>> /\ segs' = <<>> /\ buf' = <<>> /\ chunks' = <<>>
    /\ got' = <<>> /\ worker' = NoWorker /\ failed' = {}

Init ==
    /\ ver = 1
    /\ blocks \in [listed : {Blocks, Blocks \ {1}}, infos : {{}, {1}}]
    /\ meta = [c \in Contexts |-> 0]
    /\ identity = [c \in Contexts |-> 0]
    /\ pages = [c \in Contexts |-> [p \in Pages |-> 0]]
    /\ checked = {}
    /\ faults = 0
    /\ pc = "idle"
    /\ call = NoCall
    /\ fetches = <<>> /\ bufs = <<>>
    /\ result = Nothing
    /\ Idle

(* The call returns: with the bytes of its ranges, or with an error. *)
Finish(ok, data) ==
    /\ result' = [ok |-> ok, call |-> call, data |-> data]
    /\ pc' = "idle" /\ call' = NoCall /\ fetches' = <<>> /\ bufs' = <<>>
    /\ Reset
Fail == Finish(FALSE, <<>>)
Fault == faults < MaxFaults /\ faults' = faults + 1

Whole == <<Fetch(0, FileLength)>>
Coalesced == call.mode = "coalesced"

(* The calls: open_with_context and read_all, read_range_with_context, and  *)
(* read_ranges_with_context with coalescing off and on.                     *)
Call(c, mode, ranges) ==
    /\ pc = "idle"
    /\ mode = "stream" => ranges = Whole
    /\ mode = "range" => Len(ranges) = 1
    /\ call' = [mode |-> mode, ctx |-> c, ranges |-> ranges, v |-> 0]
    /\ fetches' = IF mode = "coalesced" THEN plan(ranges).fetches ELSE ranges
    /\ bufs' = <<>>
    /\ result' = Nothing
    /\ pc' = "open"
    /\ UNCHANGED <<shared, faults, reader>>

(* read_ranges: an empty range costs no read; all fetched, the call returns. *)
NoMore ==
    /\ pc = "open"
    /\ fetches = <<>>
    /\ Finish(TRUE, IF Coalesced THEN splice_from_plan(call.ranges, bufs) ELSE bufs)
    /\ UNCHANGED <<shared, faults>>
SkipEmpty ==
    /\ pc = "open"
    /\ fetches # <<>>
    /\ call.mode = "ranges" /\ Head(fetches).len = 0
    /\ bufs' = Append(bufs, <<>>)
    /\ fetches' = Tail(fetches)
    /\ UNCHANGED <<shared, faults, pc, call, result, reader>>

(* open_inner: the metadata, cached or fetched, and the plans; only a       *)
(* streaming reader of a file with an identity has the page cache attached. *)
open_inner(v) ==
    /\ pc = "open"
    /\ fetches # <<>>
    /\ ~(call.mode = "ranges" /\ Head(fetches).len = 0)
    /\ v \in {meta[call.ctx], ver} \ {0}
    /\ meta' = [meta EXCEPT ![call.ctx] = v]
    /\ call' = [call EXCEPT !.v = v]
    /\ plans' = plan_read(Head(fetches).offset, Head(fetches).len)
    /\ pc' = IF call.mode = "stream" THEN "attach" ELSE "next"
    /\ UNCHANGED <<ver, blocks, identity, pages, checked, faults, fetches, bufs, result,
                   todo, segs, buf, chunks, got, worker, failed>>

(* The metadata cannot be had, it is a directory's, or there is no worker. *)
OpenFails ==
    /\ pc = "open"
    /\ fetches # <<>>
    /\ Fault
    /\ Fail
    /\ UNCHANGED shared

----------------------------------------------------------------------------
(* attach_cache *)

(* The identity was checked within the TTL. *)
SkipCheck == call.v \in checked

(* on_file_open: another identity than the recorded one drops the pages. *)
on_file_open(c, v) ==
    /\ pages' = IF identity[c] \in {0, v} THEN pages
                ELSE [pages EXCEPT ![c] = [p \in Pages |-> 0]]
    /\ identity' = [identity EXCEPT ![c] = v]

attach_cache ==
    /\ pc = "attach"
    /\ \/ /\ SkipCheck
          /\ pc' = "next"
          /\ UNCHANGED <<identity, pages>>
       \/ /\ ~SkipCheck
          /\ on_file_open(call.ctx, call.v)
          /\ pc' = "attached"
    /\ UNCHANGED <<ver, blocks, meta, checked, faults, call, fetches, bufs, result, reader>>

RecordCheck ==
    /\ pc = "attached"
    /\ checked' = checked \cup {call.v}
    /\ pc' = "next"
    /\ UNCHANGED <<ver, blocks, meta, identity, pages, faults, call, fetches, bufs, result, reader>>

(* The time to live of a check is over. *)
CheckExpires ==
    /\ \E v \in checked : checked' = checked \ {v}
    /\ UNCHANGED <<ver, blocks, meta, identity, pages, faults, pc, call, fetches, bufs, result, reader>>

----------------------------------------------------------------------------
(* read_next_block *)

(* Plans of blocks without an id are skipped. *)
NextPlans == SelectSeq(plans, Valid)

(* read_through_cache: the pages the range [from, to) touches; a page the   *)
(* cache has is kept as it was found by get_batch_bytes.                     *)
PagesOf(from, to) ==
    [i \in 1 .. (to - 1) \div PageSize - from \div PageSize + 1 |->
       LET p == from \div PageSize + i - 1
           start == p * PageSize
           end == Min({start + PageSize, FileLength})
       IN  [page |-> p, start |-> start, end |-> end,
            from |-> Max({start, from}), to |-> Min({end, to}),
            hit |-> pages[call.ctx][p]]]

(* The reader is finished: a merged fetch must have come whole. *)
ReaderDone ==
    /\ pc = "next"
    /\ NextPlans = <<>>
    /\ IF Coalesced /\ Len(got) # Head(fetches).len
       THEN Fail
       ELSE /\ bufs' = Append(bufs, got)
            /\ fetches' = Tail(fetches)
            /\ pc' = "open"
            /\ Reset
            /\ UNCHANGED <<call, result>>
    /\ UNCHANGED <<shared, faults>>

(* The next block, through the cache or straight from the workers. *)
read_next_block ==
    /\ pc = "next"
    /\ NextPlans # <<>>
    /\ LET next == Head(NextPlans)
           from == AbsOffset(next)
       IN  IF call.mode = "stream"
           THEN /\ todo' = PagesOf(from, from + next.length)
                /\ pc' = "page"
                /\ UNCHANGED segs
           ELSE /\ segs' = SelectSeq(plan_read(from, next.length), Valid)
                /\ pc' = "select"
                /\ UNCHANGED todo
    /\ plans' = NextPlans
    /\ buf' = <<>> /\ chunks' = <<>>
    /\ UNCHANGED <<shared, faults, call, fetches, bufs, result, got, worker, failed>>

(* A block is done: its bytes are the call's, the iteration moves on. *)
BlockDone(bytes) ==
    /\ got' = got \o bytes
    /\ plans' = Tail(plans)
    /\ pc' = "next"
    /\ buf' = <<>> /\ chunks' = <<>>
    /\ UNCHANGED <<shared, faults, call, fetches, bufs, result, failed>>

PagesServed ==
    /\ pc = "page"
    /\ todo = <<>>
    /\ BlockDone(chunks)
    /\ UNCHANGED <<todo, segs, worker>>

PageHit ==
    /\ pc = "page"
    /\ todo # <<>>
    /\ LET page == Head(todo)
       IN  /\ page.hit # 0
           /\ chunks' = chunks \o BytesOf(page.hit, page.from, page.to)
    /\ todo' = Tail(todo)
    /\ UNCHANGED <<shared, faults, pc, call, fetches, bufs, result, plans, segs, buf, got, worker, failed>>

(* A miss reads the whole page: read_file_range, by positioned reads. *)
PageMiss ==
    /\ pc = "page"
    /\ todo # <<>>
    /\ Head(todo).hit = 0
    /\ segs' = SelectSeq(plan_read(Head(todo).start, Head(todo).end - Head(todo).start), Valid)
    /\ buf' = <<>>
    /\ pc' = "select"
    /\ UNCHANGED <<shared, faults, call, fetches, bufs, result, plans, todo, chunks, got, worker, failed>>

PageWhole(page) == Len(buf) >= page.end - page.start

(* The page has been read: a short one is an error, a whole one is put into *)
(* the cache, which may refuse it, and the part asked for is kept.          *)
PageRead(fills) ==
    /\ pc = "select"
    /\ segs = <<>>
    /\ todo # <<>>
    /\ LET page == Head(todo)
           from == page.from - page.start + 1
           to == Min({page.to - page.start, Len(buf)})
       IN  IF ~PageWhole(page) \/ from > to
           THEN /\ Fail
                /\ UNCHANGED pages
           ELSE /\ pages' = IF fills THEN [pages EXCEPT ![call.ctx][page.page] = call.v]
                                     ELSE pages
                /\ chunks' = chunks \o SubSeq(buf, from, to)
                /\ todo' = Tail(todo)
                /\ buf' = <<>>
                /\ pc' = "page"
                /\ UNCHANGED <<call, fetches, bufs, result, plans, segs, got, worker, failed>>
    /\ UNCHANGED <<ver, blocks, meta, identity, checked, faults>>

(* Without the cache the range is the block. *)
RangeRead ==
    /\ pc = "select"
    /\ segs = <<>>
    /\ todo = <<>>
    /\ BlockDone(buf)
    /\ UNCHANGED <<todo, segs, worker>>

----------------------------------------------------------------------------
(* read_segment *)

(* select_worker_for_read: one that has not failed, if there is one. *)
Candidates == IF Workers \subseteq failed THEN Workers ELSE Workers \ failed

Goto(step) ==
    /\ pc' = step
    /\ UNCHANGED <<shared, call, fetches, bufs, result, plans, todo, segs, buf, chunks, got>>

Select(w) ==
    /\ pc = "select"
    /\ segs # <<>>
    /\ w \in Candidates
    /\ worker' = [addr |-> w, client |-> w]
    /\ Goto("acquire")
    /\ UNCHANGED <<faults, failed>>

(* acquire_worker gives a client, *)
Acquired ==
    /\ pc \in {"acquire", "failover", "reacquire"}
    /\ Goto("read")
    /\ UNCHANGED <<faults, worker, failed>>
(* its session has expired and is opened anew, *)
AcquireExpired ==
    /\ pc = "acquire"
    /\ Fault
    /\ Goto("reacquire")
    /\ UNCHANGED <<worker, failed>>
(* or the worker is marked failed and another one is tried, once. *)
AcquireFails(w) ==
    /\ pc = "acquire"
    /\ Fault
    /\ failed' = failed \cup {worker.addr}
    /\ w \in Candidates'
    /\ worker' = [worker EXCEPT !.client = w]
    /\ Goto("failover")

(* try_read_block: the segment comes whole, *)
try_read_block ==
    /\ pc \in {"read", "reread"}
    /\ buf' = buf \o BytesOf(call.v, AbsOffset(Head(segs)), AbsOffset(Head(segs)) + Head(segs).length)
    /\ segs' = Tail(segs)
    /\ worker' = NoWorker
    /\ pc' = "select"
    /\ UNCHANGED <<shared, faults, call, fetches, bufs, result, plans, todo, chunks, got, failed>>

(* or the session has expired: the worker is connected anew and asked again, *)
ReadExpired ==
    /\ pc = "read"
    /\ Fault
    /\ Goto("reconnect")
    /\ UNCHANGED <<worker, failed>>
Reconnect ==
    /\ pc = "reconnect"
    /\ worker' = [worker EXCEPT !.client = worker.addr]
    /\ Goto("reread")
    /\ UNCHANGED <<faults, failed>>
(* or the read fails; so it does after the second failure of any kind. *)
ReadFails ==
    /\ pc \in {"read", "reread", "failover", "reacquire", "reconnect"}
    /\ Fault
    /\ Fail
    /\ UNCHANGED shared

----------------------------------------------------------------------------
(* Another client overwrites the file. *)
Overwrite ==
    /\ ver < MaxVersion
    /\ ver' = ver + 1
    /\ UNCHANGED <<blocks, meta, identity, pages, checked, faults, pc, call, fetches, bufs, result, reader>>

Step ==
    \/ NoMore \/ SkipEmpty \/ (\E v \in Versions : open_inner(v))
    \/ attach_cache \/ RecordCheck
    \/ ReaderDone \/ read_next_block \/ PagesServed \/ PageHit \/ PageMiss
    \/ (\E fills \in BOOLEAN : PageRead(fills)) \/ RangeRead
    \/ (\E w \in Workers : Select(w)) \/ Acquired \/ try_read_block \/ Reconnect
Next ==
    \/ \E c \in Contexts, mode \in {"stream", "range", "ranges", "coalesced"},
          ranges \in RangeLists \cup {Whole} : Call(c, mode, ranges)
    \/ Step
    \/ OpenFails \/ AcquireExpired \/ (\E w \in Workers : AcquireFails(w))
    \/ ReadExpired \/ ReadFails
    \/ CheckExpires \/ Overwrite

Spec == Init /\ [][Next]_vars

----------------------------------------------------------------------------
TypeOK ==
    /\ ver \in Versions
    /\ blocks.listed \subseteq Blocks /\ blocks.infos \subseteq Blocks
    /\ meta \in [Contexts -> 0 .. MaxVersion] /\ identity \in [Contexts -> 0 .. MaxVersion]
    /\ pages \in [Contexts -> [Pages -> 0 .. MaxVersion]]
    /\ checked \subseteq Versions
    /\ failed \subseteq Workers /\ faults \in 0 .. MaxFaults
    /\ pc \in {"idle", "open", "attach", "attached", "next", "page", "select", "acquire",
               "failover", "reacquire", "read", "reconnect", "reread"}
    /\ call.v \in 0 .. MaxVersion
    /\ pc = "idle" => call = NoCall /\ Idle
    /\ pc \in {"acquire", "failover", "reacquire", "read", "reconnect", "reread"}
         => segs # <<>> /\ {worker.addr, worker.client} \subseteq Workers

(* The offsets of a range that lie in the file, without those of blocks     *)
(* that have no id.                                                          *)
Readable(r) ==
    LET end == Min({r.offset + r.len, FileLength})
        known == blocks.listed \cup blocks.infos
    IN  SelectSeq([i \in 1 .. end - r.offset |-> r.offset + i - 1],
                  LAMBDA p : p \div BlockSize \in known)

(* What a call returns for each of its ranges is every byte of the range    *)
(* that can be read, in order, once and nothing else, whether its blocks    *)
(* came through cached pages, through several workers or out of a merged    *)
(* fetch (read_all, read_through_cache, splice_from_plan).                   *)
ReadWhole ==
    result.ok =>
      /\ DOMAIN result.data = DOMAIN result.call.ranges
      /\ \A i \in DOMAIN result.data :
           LET data == result.data[i]
           IN  [k \in DOMAIN data |-> data[k][2]] = Readable(result.call.ranges[i])

(* A streaming reader never returns bytes of another version of the file    *)
(* than the one its metadata names, though the check of the cached pages is *)
(* skipped when it was done lately (attach_cache, on_file_open).             *)
VersionAsOpened ==
    result.ok /\ result.call.mode = "stream" =>
      \A i \in DOMAIN result.data : \A k \in DOMAIN result.data[i] :
        result.data[i][k][1] = result.call.v

(* Merging never costs more than it may: no fetch is longer than the cap    *)
(* or the longest range, and the bytes fetched beyond the ranges' own are   *)
(* at most a gap for every range but the first (range_coalesce::plan).      *)
MergeBounded ==
    pc = "open" /\ Coalesced /\ bufs = <<>> =>
      LET Bytes(rs) == UNION {r.offset .. r.offset + r.len - 1 : r \in Range(rs)}
          longest == Max({r.len : r \in Range(call.ranges)})
      IN  /\ \A f \in Range(fetches) : f.len <= Max({1, MaxBytes, longest})
          /\ Bytes(call.ranges) \subseteq Bytes(fetches)
          /\ Cardinality(Bytes(fetches) \ Bytes(call.ranges)) <= Gap * (Len(call.ranges) - 1)

(* Every segment asked of a worker lies inside the stretch of the UFS file  *)
(* the request describes, and that stretch inside the file                  *)
(* (build_ufs_read_options, ufs_block_length).                               *)
SegmentInUfsBlock ==
    \A i \in DOMAIN segs :
      LET u == build_ufs_read_options(segs[i])
      IN  /\ AbsOffset(segs[i]) >= u.offset_in_file
          /\ AbsOffset(segs[i]) + segs[i].length <= u.offset_in_file + u.block_size
          /\ u.offset_in_file + u.block_size <= FileLength
====
