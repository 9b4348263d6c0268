--------------------------- MODULE PositionedRead ---------------------------
(***************************************************************************)
(* Direct block reads of the Python bindings                               *)
(* (bindings/python/src/positioned_read.rs, worker.rs and the methods      *)
(* positioned_read and acquire_worker_for_block): a block index becomes a  *)
(* block id and the real length of that block, the request is clamped to   *)
(* it, and the read is repeated once when the session with the worker      *)
(* has expired.                                                            *)
(*                                                                         *)
(* Block number i of the file (from 0) has the id i + 1 and holds the      *)
(* bytes from i * BlockBytes.  The status carries either the block infos,  *)
(* which come out of a hash map in any order, or only the list of ids.     *)
(***************************************************************************)
EXTENDS Integers, Sequences, FiniteSets, SequencesExt

CONSTANTS BlockBytes,   \* block_size_bytes of the files
          MaxBytes,     \* bound: length of a file
          MaxAsk,       \* bound: offset and length asked
          MaxExpired,   \* bound: requests that meet an expired session or fail
          MaxQueries    \* bound: calls

VARIABLES status,    \* the URIStatus: its length, infos (in map order), ufs
          query,     \* the call: method, index, offset, length
          block,     \* what was resolved: id, bytes, ufs options
          where,     \* where the call is
          wrapper,   \* the worker client the program holds: its class, the ufs block, or closed
          handshakes,\* reconnects this call has made
          bytes,     \* the run of bytes the call returned
          verdict,   \* how it ended
          expired, queries

vars == <<status, query, block, where, wrapper, handshakes, bytes, verdict, expired, queries>>

Blocks(len) == (len + BlockBytes - 1) \div BlockBytes
Ids(len) == 1 .. Blocks(len)
LengthOf(len, id) == IF id * BlockBytes <= len THEN BlockBytes ELSE len - ((id - 1) * BlockBytes)
Smaller(a, b) == IF a < b THEN a ELSE b

(* A block info: the offset, and a length, which is the stored one, 0 for a block that
   is not cached, or the configured size even of a short last block. *)
Info(id, length) == [id |-> id, offset |-> (id - 1) * BlockBytes, length |-> length]
Lengths(len) == {f \in [Ids(len) -> 0 .. BlockBytes] :
                    \A id \in Ids(len) : f[id] \in {0, LengthOf(len, id), BlockBytes}}

URIStatus ==
    UNION {{[length |-> len, infos |-> [i \in DOMAIN p |-> Info(p[i], f[p[i]])],
             block_ids |-> [i \in Ids(len) |-> i], ufs |-> u] :
               p \in (SetToSeqs(Ids(len)) \cup {<<>>}), f \in Lengths(len), u \in BOOLEAN} :
           len \in 0 .. MaxBytes}

Queries ==
    {[method |-> "positioned_read", index |-> i, offset |-> o, length |-> n] :
        i \in 0 .. Blocks(MaxBytes), o \in 0 .. MaxAsk, n \in -1 .. MaxAsk}
    \cup {[method |-> "positioned_read", index |-> 0, offset |-> a[1], length |-> a[2]] :
        a \in {<<-1, 1>>, <<0, -2>>}}
    \cup {[method |-> "connect", index |-> 0, offset |-> 0, length |-> 0]}
    \cup {[method |-> m, index |-> i, offset |-> 0, length |-> BlockBytes] :
        m \in {"acquire_worker_for_block", "read_block_positioned"}, i \in 0 .. Blocks(MaxBytes) - 1}
    \cup {[method |-> "read_block_positioned", index |-> 0, offset |-> 0, length |-> n] : n \in {-1, 0}}
Steps == {"idle", "positioned_read", "acquire_worker_for_block", "read_block_positioned",
          "connect", "acquire", "read", "again"}
NoBlock == [id |-> 0, bytes |-> 0, ufs |-> <<>>]

-----------------------------------------------------------------------------
get_block_info(id) == {k \in DOMAIN status.infos : status.infos[k].id = id}

(* The stored length of a block, never past the end of the file. *)
actual_block_length(id, index) ==
    LET offset == IF get_block_info(id) # {}
                  THEN status.infos[CHOOSE k \in get_block_info(id) : TRUE].offset
                  ELSE index * BlockBytes
        cap == Smaller(status.length - offset, BlockBytes)
        stored == IF get_block_info(id) # {}
                  THEN status.infos[CHOOSE k \in get_block_info(id) : TRUE].length ELSE 0
    IN  IF status.length - offset <= 0 THEN 0
        ELSE IF stored > 0 THEN Smaller(stored, cap) ELSE cap

ufs_block_length(index) ==
    LET start == index * BlockBytes
    IN  IF status.length > start THEN Smaller(status.length - start, BlockBytes) ELSE 0

open_ufs_block_options(index) ==
    IF status.ufs THEN <<index * BlockBytes, ufs_block_length(index)>> ELSE <<>>

open_ufs_block_options_for_block_id(id) ==
    IF \E k \in DOMAIN status.block_ids : status.block_ids[k] = id
    THEN open_ufs_block_options(id - 1) ELSE <<>>

(* The ids in file order: the block infos sorted by offset, or the list of ids. *)
resolve_idsMapOrder ==
    IF status.infos # <<>> THEN [k \in DOMAIN status.infos |-> status.infos[k].id]
    ELSE status.block_ids
resolve_ids ==
    IF status.infos # <<>>
    THEN LET sorted == SortSeq(status.infos, LAMBDA a, b : a.offset < b.offset)
         IN  [k \in DOMAIN sorted |-> sorted[k].id]
    ELSE status.block_ids

End(how, run) ==
    /\ where' = "idle" /\ verdict' = how /\ bytes' = run
    /\ UNCHANGED <<status, query, queries>>

Ask ==
    /\ where = "idle" /\ queries < MaxQueries /\ queries' = queries + 1
    /\ query' \in Queries /\ where' = query'.method
    /\ block' = NoBlock /\ handshakes' = 0 /\ bytes' = <<0, 0>> /\ verdict' = "none"
    /\ UNCHANGED <<status, wrapper, expired>>

(* The checks of positioned_read, resolve_block_id and the clamping. *)
resolve_block_id ==
    /\ where = "positioned_read"
    /\ UNCHANGED <<wrapper, handshakes, expired>>
    /\ IF query.offset < 0 \/ query.length < -1 \/ query.index >= Len(resolve_ids)
       THEN End("refused", <<0, 0>>) /\ UNCHANGED block
       ELSE LET id == resolve_ids[query.index + 1]
                size == actual_block_length(id, query.index)
                effective == IF query.length < 0 THEN size - query.offset
                             ELSE Smaller(query.length, size - query.offset)
            IN  IF query.offset >= size
                THEN End("refused", <<0, 0>>) /\ UNCHANGED block
                ELSE IF effective = 0
                THEN End("ok", <<0, 0>>) /\ UNCHANGED block
                ELSE /\ block' = [id |-> id, bytes |-> effective,
                                  ufs |-> open_ufs_block_options(query.index)]
                     /\ where' = "acquire"
                     /\ UNCHANGED <<status, query, bytes, verdict, queries>>

(* A method of the synchronous classes raises inside a running event loop. *)
guarded_block_on ==
    /\ End("refused", <<0, 0>>)
    /\ UNCHANGED <<block, wrapper, handshakes, expired>>
sync_positioned_read ==
    \/ where = "positioned_read" /\ guarded_block_on
    \/ resolve_block_id

(* A request to the worker goes well, or finds the session expired, or fails. *)
Trouble == expired < MaxExpired /\ expired' = expired + 1

acquire_with_auth_retry ==
    /\ where = "acquire" /\ UNCHANGED <<block, wrapper>>
    /\ \/ where' = "read" /\ UNCHANGED <<status, query, handshakes, bytes, verdict, expired, queries>>
       \/ /\ Trouble /\ where' = "read" /\ handshakes' = handshakes + 1
          /\ UNCHANGED <<status, query, bytes, verdict, queries>>
       \/ Trouble /\ End("error", <<0, 0>>) /\ UNCHANGED handshakes

(* The worker serves a range inside the block. *)
Served(offset, n) ==
    <<((block.id - 1) * BlockBytes) + offset, ((block.id - 1) * BlockBytes) + offset + n>>

positioned_read_with_reauth ==
    /\ where \in {"read", "again"} /\ UNCHANGED <<block, wrapper>>
    /\ \/ End("ok", Served(query.offset, block.bytes)) /\ UNCHANGED <<handshakes, expired>>
       \/ /\ where = "read" /\ Trouble /\ where' = "again" /\ handshakes' = handshakes + 1
          /\ UNCHANGED <<status, query, bytes, verdict, queries>>
       \/ Trouble /\ End("error", <<0, 0>>) /\ UNCHANGED handshakes

from_sdk(id, ufs) == [open |-> TRUE, class |-> "AsyncWorkerClient", id |-> id, ufs |-> ufs]

(* A pooled client for one block, wrapped with the ufs options of that block, or
   with none when the caller gave no path. *)
acquire_worker_for_block ==
    /\ where = "acquire_worker_for_block" /\ UNCHANGED <<block, handshakes>>
    /\ \/ Trouble /\ End("error", <<0, 0>>) /\ UNCHANGED wrapper
       \/ /\ \E ufs \in {<<>>, open_ufs_block_options_for_block_id(query.index + 1)} :
                wrapper' = from_sdk(query.index + 1, ufs)
          /\ End("ok", <<0, 0>>) /\ UNCHANGED expired
sync_acquire_worker_for_block ==
    \/ where = "acquire_worker_for_block" /\ guarded_block_on
    \/ acquire_worker_for_block

(* A client of the program's own, for an address it names; an empty address is
   refused.  It knows no file, so it has no ufs options. *)
Unpooled(how) ==
    /\ where = "connect" /\ UNCHANGED <<block, handshakes>>
    /\ \/ End("refused", <<0, 0>>) /\ UNCHANGED <<wrapper, expired>>
       \/ Trouble /\ End("error", <<0, 0>>) /\ UNCHANGED wrapper
       \/ /\ wrapper' = [from_sdk(0, <<>>) EXCEPT !.class = how]
          /\ End("ok", <<0, 0>>) /\ UNCHANGED expired
connect == Unpooled("AsyncWorkerClient")
sync_connect == Unpooled("WorkerClient")

(* read_block_positioned: no clamping, no retry; the options only for their block. *)
ufs_opts_for_block(id) == IF wrapper.id = id THEN wrapper.ufs ELSE <<>>
ReadBlock(class) ==
    /\ where = "read_block_positioned" /\ wrapper.class = class
    /\ UNCHANGED <<wrapper, handshakes>>
    /\ IF query.length <= 0
       THEN /\ End(IF query.length < 0 THEN "refused" ELSE "ok", <<0, 0>>)
            /\ UNCHANGED <<block, expired>>
       ELSE /\ block' = [id |-> query.index + 1, bytes |-> query.length,
                         ufs |-> ufs_opts_for_block(query.index + 1)]
            /\ \/ ~wrapper.open /\ End("refused", <<0, 0>>) /\ UNCHANGED expired
               \/ wrapper.open /\ Trouble /\ End("error", <<0, 0>>)
               \/ wrapper.open /\ End("ok", <<0, 0>>) /\ UNCHANGED expired
read_block_positioned == ReadBlock("AsyncWorkerClient")
sync_read_block_positioned == ReadBlock("WorkerClient")

Release(class) ==
    /\ where = "idle" /\ wrapper.open /\ wrapper.class = class
    /\ wrapper' = [wrapper EXCEPT !.open = FALSE]
    /\ UNCHANGED <<status, query, block, where, handshakes, bytes, verdict, expired, queries>>
close == Release("AsyncWorkerClient")
sync_close == Release("WorkerClient")

Over == where = "idle" /\ queries = MaxQueries /\ UNCHANGED vars

Init ==
    /\ status \in URIStatus
    /\ query = [method |-> "positioned_read", index |-> 0, offset |-> 0, length |-> 0]
    /\ block = NoBlock /\ where = "idle" /\ wrapper = [from_sdk(0, <<>>) EXCEPT !.open = FALSE]
    /\ handshakes = 0 /\ bytes = <<0, 0>> /\ verdict = "none" /\ expired = 0 /\ queries = 0

Next ==
    \/ Ask \/ resolve_block_id \/ acquire_with_auth_retry \/ positioned_read_with_reauth
    \/ acquire_worker_for_block \/ read_block_positioned \/ connect \/ close
    \/ sync_positioned_read \/ sync_acquire_worker_for_block \/ sync_read_block_positioned
    \/ sync_connect \/ sync_close \/ Over
Spec == Init /\ [][Next]_vars

-----------------------------------------------------------------------------
TypeOK ==
    /\ status.length \in 0 .. MaxBytes /\ where \in Steps
    /\ block.id \in 0 .. Blocks(MaxBytes) /\ handshakes \in 0 .. 2
    /\ verdict \in {"none", "ok", "error", "refused"}

(* positioned_read(block_index, offset, length) returns the bytes of the file that
   the index-th block holds from offset on: as many as were asked, never more than
   the block has, and length -1 to the end of the block, whether the status lists
   the blocks in map order or only by id and whether or not they are cached. *)
ReadsTheBlock ==
    (query.method = "positioned_read" /\ verdict = "ok" /\ bytes # <<0, 0>>) =>
        LET start == query.index * BlockBytes
            end == Smaller(start + BlockBytes, status.length)
        IN  /\ bytes[1] = start + query.offset
            /\ bytes[2] = IF query.length < 0 THEN end
                          ELSE Smaller(bytes[1] + query.length, end)

(* The options that let a worker load a block from the under file system describe
   the block that is read, its place and its real length. *)
UfsDescribesBlock ==
    block.ufs # <<>> =>
        block.ufs = <<(block.id - 1) * BlockBytes, LengthOf(status.length, block.id)>>
=============================================================================
