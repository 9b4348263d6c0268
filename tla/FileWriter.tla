----------------------------- MODULE FileWriter -----------------------------
(***************************************************************************)
(* GoosefsFileWriter (src/src/io/file_writer.rs): one file written to      *)
(* cache blocks on the workers, to one UFS stream, or to both, and then    *)
(* completed on the master.                                                *)
(*                                                                         *)
(* The writer is driven by one task (every call takes &mut self), so its   *)
(* steps interleave only with failures: each step chooses how its RPCs     *)
(* end.  Bytes are counted, not named.  What the workers, the UFS and the  *)
(* master hold is modelled from what the writer asks of them.              *)
(*                                                                         *)
(* A WriteBlock stream is "open", "broken" (the server's error waits in    *)
(* response_rx; a chunk may still enter the channel), or "drained" (the    *)
(* error was received by an earlier flush and the background task is gone).*)
(***************************************************************************)
EXTENDS Integers, FiniteSets

CONSTANTS
    Workers,
    WriteTypes,     \* the write types of this instance
    BlockSize,      \* block_size_bytes
    ChunkSize,      \* config.chunk_size
    Replicas,       \* ReplicaWritePlan.initial_replicas
    DurableMin,     \* ReplicaWritePlan.min_needed_replicas of ASYNC_THROUGH
    IgnoreUnknown,  \* local_ufs_client_ignore_block_stream_unknown_status
    FlushEnabled,   \* file_async_persist_flush_enabled
    MaxBytes        \* bound: bytes offered to write

ASSUME WriterAssumption ==
    /\ WriteTypes \subseteq {"MUST_CACHE", "CACHE_THROUGH", "THROUGH",
                             "ASYNC_THROUGH"}
    /\ BlockSize \in Nat \ {0}
    /\ ChunkSize \in Nat \ {0}
    /\ Replicas \in Nat \ {0}
    /\ DurableMin \in 1 .. Replicas
    /\ IgnoreUnknown \in BOOLEAN
    /\ FlushEnabled \in BOOLEAN
    /\ MaxBytes \in Nat
    /\ IsFiniteSet(Workers)

Blocks == 0 .. MaxBytes     \* block indices; a block holds a byte at least
NoFile == -1                \* no file on the UFS

VARIABLES
    write_type,
    flags,          \* the flags of the writer that are set
    committed,      \* Len(committed_block_ids), the index of the next block
    total,          \* total_bytes_written
    current,        \* current_block_writer, "Some" or "None"
    bytes_written,  \* ActiveBlockWriter.bytes_written
    pending,        \* the length of ActiveBlockWriter.pending_chunk
    replica,        \* the stream of each replica writer; "none" is no replica
    ufs,            \* the state of ufs_stream; "none" is None
    ufs_sent,       \* bytes sent on it
    pc,
    len,            \* of the buffer that write() places
    offset,         \* into it
    err,            \* the error being handled
    cached,         \* external: bytes of each block committed on each worker
    ufs_file,       \* external: length of the file on the UFS, or NoFile
    inode,          \* external: "incomplete", "complete" or "absent"
    length,         \* external: the length the master recorded
    offered,        \* bytes offered to write() so far
    failed,         \* ghost: the kinds of call that have returned an error
    outcome,        \* ghost: what the last close() or cancel() returned
    faults          \* ghost: the RPCs that failed and left blocks behind

block == <<current, bytes_written, pending, replica>>
stream == <<ufs, ufs_sent>>
buffer == <<len, offset, err>>
world == <<cached, ufs_file, inode, length>>
ghosts == <<failed, outcome, faults>>
vars == <<write_type, flags, committed, total, block, stream, pc, buffer, world,
          offered, ghosts>>

cancelled == "cancelled" \in flags
closed == "closed" \in flags
should_cache == "should_cache" \in flags
ufs_write_enabled == "ufs_write_enabled" \in flags
block_opened == "block_opened" \in flags
completed == "ufs_stream_completed" \in flags
active == current = "Some"

AsyncThrough == write_type = "ASYNC_THROUGH"    \* need_async_persist
CacheStream == write_type # "THROUGH"           \* WriteStrategy.cache_stream
UfsStream == write_type \in {"CACHE_THROUGH", "THROUGH"}    \* .ufs_stream

Min2(a, b) == IF a < b THEN a ELSE b
Streams == {"none", "open", "broken", "drained"}
Live == {w \in Workers : replica[w] # "none"}
NoReplica == [w \in Workers |-> "none"]

NoBlock ==
    /\ current' = "None"
    /\ bytes_written' = 0
    /\ pending' = 0
    /\ replica' = NoReplica
NoUfs == ufs' = "none" /\ ufs_sent' = 0

(* A call returns; Fail is a call that returns an error. *)
Idle == pc' = "idle" /\ len' = 0 /\ offset' = 0 /\ err' = "none"
Fail(call) == Idle /\ failed' = failed \cup {call}

----------------------------------------------------------------------------
(* ActiveBlockWriter: the same operation on every replica.  In the parallel *)
(* path (ASYNC_THROUGH, more than one replica) the ones that fail are       *)
(* dropped and enough must remain; in the sequential path one failure       *)
(* cancels them all.  A replica that accepted a chunk may break unseen.     *)
Parallel == AsyncThrough /\ Cardinality(Live) > 1

Surviving(kept) ==
    /\ kept \subseteq Live
    /\ kept # {}
    /\ IF Parallel THEN Cardinality(kept) >= DurableMin ELSE kept = Live

(* write_chunk succeeds: one replica at least takes the chunk. *)
WriteChunk ==
    \E kept \in SUBSET Live, bad \in SUBSET Live :
      /\ Surviving(kept)
      /\ bad \subseteq kept
      /\ replica' = [w \in Workers |->
                       IF w \notin kept THEN "none"
                       ELSE IF w \in bad /\ replica[w] = "open" THEN "broken"
                       ELSE replica[w]]

(* The tail is sent and flush_replicas succeeds: every replica kept has       *)
(* acknowledged.  Without replicas there is nothing to flush.                 *)
TailAndFlush(kept) ==
    IF Live = {} THEN pending = 0 /\ kept = {}
    ELSE Surviving(kept) /\ \A w \in kept : replica[w] = "open"

(* What a failed operation of several replicas is reported as. *)
FanoutError == IF Parallel THEN "Exhausted" ELSE "Io"

----------------------------------------------------------------------------
(* open_ufs_stream *)
OpenUfs ==
    /\ ufs' = "open"
    /\ ufs_sent' = 0

(* create_with_context: CACHE_THROUGH and THROUGH open the UFS stream now;   *)
(* when that fails the caller gets no writer.                                *)
create_with_context ==
    /\ pc = "create"
    /\ inode' = "incomplete"
    /\ \/ /\ UfsStream
          /\ \/ OpenUfs /\ pc' = "idle" /\ UNCHANGED flags
             \/ /\ flags' = flags \cup {"cancelled"}
                /\ pc' = "gone"
                /\ UNCHANGED stream
       \/ /\ ~UfsStream
          /\ pc' = "idle"
          /\ UNCHANGED <<flags, stream>>
    /\ UNCHANGED <<write_type, committed, total, block, buffer, cached, ufs_file,
                   length, offered, ghosts>>

----------------------------------------------------------------------------
(* write: the buffer goes to the cache stream, then to the UFS stream. *)
write(n) ==
    /\ pc = "idle"
    /\ ~cancelled /\ ~closed
    /\ offered + n <= MaxBytes
    /\ offered' = offered + n
    /\ len' = n
    /\ pc' = IF should_cache THEN "cache" ELSE "ufs"
    /\ UNCHANGED <<write_type, flags, committed, total, block, stream, offset, err,
                   world, ghosts>>

(* ActiveBlockWriter.remaining *)
Remaining == BlockSize - bytes_written

(* write_to_cache_stream: place bytes in the open block, sending only whole  *)
(* chunks; the tail waits in pending_chunk.                                  *)
EmitAlignedChunks ==
    /\ pc = "cache"
    /\ offset < len
    /\ active /\ Remaining > 0
    /\ LET n == Min2(Remaining, len - offset)
           sends == pending + n >= ChunkSize
       IN  \/ /\ bytes_written' = bytes_written + n
              /\ offset' = offset + n
              /\ pending' = (pending + n) % ChunkSize
              /\ IF sends THEN WriteChunk ELSE UNCHANGED replica
              /\ UNCHANGED <<pc, current, err>>
           \/ /\ sends
              /\ err' = FanoutError
              /\ pc' = "cache_err"
              /\ UNCHANGED <<block, offset>>
    /\ UNCHANGED <<write_type, flags, committed, total, stream, len, world, offered,
                   ghosts>>

(* open_next_block closes a full block on the way. *)
NeedsFreshBlock ==
    /\ pc = "cache"
    /\ offset < len
    /\ ~active \/ Remaining = 0
    /\ pc' = IF active THEN "switch" ELSE "open_block"
    /\ UNCHANGED <<write_type, flags, committed, total, block, stream, buffer, world,
                   offered, ghosts>>

CacheDone ==
    /\ pc = "cache"
    /\ offset = len
    /\ pc' = "ufs"
    /\ UNCHANGED <<write_type, flags, committed, total, block, stream, buffer, world,
                   offered, ghosts>>

(* open_replica_writers, from the hash-picked workers or from all of them.   *)
OpenNextBlock ==
    /\ pc = "open_block"
    /\ \/ /\ \E opened \in SUBSET Workers :
               /\ Cardinality(opened) \in 1 .. Replicas
               /\ AsyncThrough => Cardinality(opened) >= DurableMin
               /\ replica' = [w \in Workers |->
                                IF w \in opened THEN "open" ELSE "none"]
          /\ current' = "Some"
          /\ flags' = flags \cup {"block_opened"}
          /\ pc' = "cache"
          /\ UNCHANGED <<bytes_written, pending, err>>
       \/ /\ err' \in {"Io", "Exhausted", "Auth"}
          /\ pc' = "cache_err"
          /\ UNCHANGED <<block, flags>>
    /\ UNCHANGED <<write_type, committed, total, stream, len, offset, world, offered,
                   ghosts>>

(* Mutant of Commit: the pending tail never reaches the workers. *)
CommitWithoutTail(done, n) ==
    cached' = [cached EXCEPT ![committed] =
                 [w \in Workers |->
                    IF w \in done /\ replica[w] = "open" THEN n - pending
                    ELSE @[w]]]

(* The workers in done commit the block that is being closed; one whose      *)
(* stream is not open has nothing to commit.                                 *)
Commit(done, n) ==
    cached' = [cached EXCEPT ![committed] =
                 [w \in Workers |->
                    IF w \in done /\ replica[w] = "open" THEN n ELSE @[w]]]

(* Mutant of CloseFailed: the block id is not kept for the cleanup. *)
CloseFailedUntracked(kept) ==
    /\ kept # {}
    /\ \E done \in SUBSET kept : Commit(done, bytes_written)
    /\ UNCHANGED committed

(* close_replicas fails with any of the replicas committed; the block id is  *)
(* recorded all the same.                                                    *)
CloseFailed(kept) ==
    /\ kept # {}
    /\ \E done \in SUBSET kept : Commit(done, bytes_written)
    /\ committed' = committed + 1

(* close_current_block(true), the switch to the next block: send the tail,   *)
(* flush, close every replica and, for ASYNC_THROUGH, commitLocation.        *)
SwitchBlock ==
    /\ pc = "switch"
    /\ NoBlock
    /\ \/ /\ Live # {} \/ pending > 0        \* the tail or the flush failed
          /\ err' = FanoutError
          /\ pc' = "cache_err"
          /\ UNCHANGED <<cached, committed, faults>>
       \/ \E kept \in SUBSET Live :
            /\ TailAndFlush(kept)
            /\ \/ /\ CloseFailed(kept)
                  /\ err' = "Io"
                  /\ pc' = "cache_err"
                  /\ UNCHANGED faults
               \/ /\ AsyncThrough /\ kept # {}     \* commit_location failed
                  /\ Commit(kept, bytes_written)
                  /\ err' = "Io"
                  /\ faults' = faults \cup {"commit_location"}
                  /\ pc' = "cache_err"
                  /\ UNCHANGED committed
               \/ /\ Commit(kept, bytes_written)
                  /\ committed' = committed + 1
                  /\ pc' = "open_block"
                  /\ UNCHANGED <<err, faults>>
    /\ UNCHANGED <<write_type, flags, total, stream, len, offset, ufs_file, inode,
                   length, offered, failed, outcome>>

(* cache_write_failure_is_fatal *)
Fatal ==
    \/ err = "Exhausted"
    \/ ~UfsStream /\ ~AsyncThrough
    \/ AsyncThrough /\ block_opened
    \/ err = "Auth"
    \/ ~block_opened /\ ~IgnoreUnknown

(* Degrade to the UFS for the rest of the file, or give up. *)
HandleCacheWriteException ==
    /\ pc = "cache_err"
    /\ NoBlock
    /\ \/ /\ Fatal
          /\ flags' = flags \cup {"cancelled"}
          /\ Fail("write")
       \/ /\ ~Fatal
          /\ flags' = (flags \ {"should_cache"}) \cup {"ufs_write_enabled"}
          /\ pc' = "ufs"
          /\ UNCHANGED <<buffer, failed>>
    /\ UNCHANGED <<write_type, committed, total, stream, world, offered, outcome,
                   faults>>

(* write_to_ufs_stream, then the accounting at the end of write. *)
WriteToUfsStream ==
    /\ pc = "ufs"
    /\ ufs_write_enabled
    /\ \/ /\ ufs = "none"                  \* open it first, or fail to
          /\ \/ OpenUfs /\ UNCHANGED <<pc, buffer, failed>>
             \/ Fail("write") /\ UNCHANGED stream
          /\ UNCHANGED total
       \/ /\ ufs # "none"
          /\ ufs' \in {ufs, IF ufs = "open" THEN "broken" ELSE ufs}
          /\ ufs_sent' = ufs_sent + len
          /\ total' = total + len
          /\ Idle
          /\ UNCHANGED failed
       \/ /\ ufs # "none"                  \* handle_ufs_write_exception
          /\ NoUfs
          /\ Fail("write")
          /\ UNCHANGED total
    /\ UNCHANGED <<write_type, flags, committed, block, world, offered, outcome, faults>>

WriteDone ==
    /\ pc = "ufs"
    /\ ~ufs_write_enabled
    /\ total' = total + len
    /\ Idle
    /\ UNCHANGED <<write_type, flags, committed, block, stream, world, offered, ghosts>>

----------------------------------------------------------------------------
(* flush: the UFS stream, and the cache block of an ASYNC_THROUGH file. *)
FlushUfs ==
    /\ pc = "idle"
    /\ ~cancelled /\ ~closed
    /\ ufs # "none"
    /\ ufs' \in {"broken", "drained"} \ (IF ufs = "drained" THEN {"broken"} ELSE {})
    /\ failed' = failed \cup {"flush"}
    /\ UNCHANGED <<write_type, flags, committed, total, block, ufs_sent, pc, buffer,
                   world, offered, outcome, faults>>

FlushBlock ==
    /\ pc = "idle"
    /\ ~cancelled /\ ~closed
    /\ AsyncThrough /\ FlushEnabled
    /\ active /\ bytes_written > 0
    /\ pending' = 0
    /\ \/ /\ \E kept \in SUBSET Live :
               /\ TailAndFlush(kept)
               /\ replica' = [w \in Workers |->
                                IF w \in kept THEN replica[w] ELSE "none"]
          /\ UNCHANGED failed
       \/ /\ Parallel \/ pending > 0       \* too few are left, or the tail failed
          /\ replica' = NoReplica
          /\ failed' = failed \cup {"flush"}
       \/ /\ ~Parallel                     \* a replica answered with its error
          /\ \E w \in Live : replica' = [replica EXCEPT ![w] = "drained"]
          /\ failed' = failed \cup {"flush"}
    /\ UNCHANGED <<write_type, flags, committed, total, current, bytes_written,
                   stream, pc, buffer, world, offered, outcome, faults>>

----------------------------------------------------------------------------
(* close: the UFS stream, the last block, completeFile. *)
Close ==
    /\ pc = "idle"
    /\ ~closed
    /\ flags' = flags \cup {"closed"}
    /\ IF cancelled
       THEN outcome' = "noop" /\ UNCHANGED pc
       ELSE /\ pc' = IF ufs # "none" THEN "close_ufs" ELSE "close_last"
            /\ UNCHANGED outcome
    /\ UNCHANGED <<write_type, committed, total, block, stream, buffer, world, offered,
                   failed, faults>>

(* close fails before completeFile: the cleanup runs, then the error returns. *)
Abort == pc' = "cleanup" /\ outcome' = "aborted"

CloseUfs ==
    /\ pc = "close_ufs"
    /\ NoUfs
    /\ \/ /\ ufs = "open"
          /\ ufs_file' = ufs_sent
          /\ flags' = flags \cup {"ufs_stream_completed"}
          /\ pc' = "close_last"
          /\ UNCHANGED outcome
       \/ /\ Abort                         \* the flush, or the close, failed
          /\ ufs_file' \in {ufs_file} \cup (IF ufs = "open" THEN {ufs_sent} ELSE {})
          /\ UNCHANGED flags
    /\ UNCHANGED <<write_type, committed, total, block, buffer, cached, inode, length,
                   offered, failed, faults>>

(* close_current_block(false): send the tail and close, without a flush. *)
CloseLast ==
    /\ pc = "close_last"
    /\ NoBlock
    /\ \/ /\ bytes_written = 0              \* no block, or cancel it
          /\ pc' = "complete"
          /\ UNCHANGED <<cached, committed, outcome>>
       \/ /\ pending > 0                    \* the tail failed
          /\ Abort
          /\ UNCHANGED <<cached, committed>>
       \/ /\ bytes_written > 0
          /\ \E kept \in SUBSET Live :
               /\ IF pending > 0 THEN Surviving(kept) ELSE kept = Live
               /\ \/ CloseFailed(kept) /\ Abort
                  \/ /\ \A w \in kept : replica[w] # "broken"
                     /\ Commit(kept, bytes_written)
                     /\ committed' = committed + 1
                     /\ pc' = "complete"
                     /\ UNCHANGED outcome
    /\ UNCHANGED <<write_type, flags, total, stream, buffer, ufs_file, inode, length,
                   offered, failed, faults>>

(* completeFile; an error may reach the client after the master applied it. *)
CompleteFile ==
    /\ pc = "complete"
    /\ \/ /\ inode' = "complete"
          /\ length' = total
          /\ outcome' = "ok"
          /\ pc' = "idle"
       \/ /\ \/ inode' = "complete" /\ length' = total
             \/ UNCHANGED <<inode, length>>
          /\ IF completed
             THEN pc' = "recover" /\ UNCHANGED outcome
             ELSE pc' = "idle" /\ outcome' = "err"
    /\ UNCHANGED <<write_type, flags, committed, total, block, stream, buffer, cached,
                   ufs_file, offered, failed, faults>>

NothingCached == [b \in Blocks |-> [w \in Workers |-> 0]]

(* handle_complete_file_error: drop the inode, import the file from the UFS. *)
Recover ==
    /\ pc = "recover"
    /\ pc' = "idle"
    /\ \/ /\ inode' = "complete"
          /\ length' = ufs_file
          /\ cached' = NothingCached
          /\ outcome' = "ok"
       \/ /\ inode' = "absent"              \* the reload failed
          /\ cached' = NothingCached
          /\ outcome' = "err"
          /\ UNCHANGED length
       \/ /\ outcome' = "err"               \* the delete failed
          /\ UNCHANGED <<inode, length, cached>>
    /\ UNCHANGED <<write_type, flags, committed, total, block, stream, buffer,
                   ufs_file, offered, failed, faults>>

----------------------------------------------------------------------------
(* cancel does nothing on a writer that is cancelled already. *)
Cancel ==
    /\ pc = "idle"
    /\ ~closed
    /\ flags' = flags \cup {"cancelled"}
    /\ IF cancelled
       THEN /\ outcome' = IF outcome = "cancelled" THEN outcome ELSE "cancel_noop"
            /\ UNCHANGED pc
       ELSE pc' = "cleanup" /\ outcome' = "cancelled"
    /\ UNCHANGED <<write_type, committed, total, block, stream, buffer, world, offered,
                   failed, faults>>

(* perform_drop_cleanup: the same cleanup, on a runtime if there is one. *)
Drop ==
    /\ pc = "idle"
    /\ \/ /\ closed \/ cancelled
          /\ pc' = "gone"
          /\ NoUfs /\ NoBlock
          /\ UNCHANGED <<flags, outcome, faults>>
       \/ /\ ~closed /\ ~cancelled
          /\ flags' = flags \cup {"cancelled"}
          /\ outcome' = "dropped"
          /\ \/ pc' = "cleanup" /\ UNCHANGED <<faults, block, stream>>
             \/ /\ pc' = "gone"
                /\ faults' = faults \cup {"cleanup"}
                /\ NoUfs /\ NoBlock
    /\ UNCHANGED <<write_type, committed, total, buffer, world, offered, failed>>

RemoveBlocks ==
    cached' = [b \in Blocks |-> IF b < committed THEN NothingCached[b]
                                ELSE cached[b]]

(* do_cancel_cleanup: cancel the streams, remove_blocks, or delete the file. *)
Cleanup ==
    /\ pc = "cleanup"
    /\ pc' = IF outcome = "dropped" THEN "gone" ELSE "idle"
    /\ NoUfs /\ NoBlock
    /\ \/ RemoveBlocks /\ UNCHANGED <<inode, faults>>
       \/ /\ committed > 0
          /\ cached' = NothingCached
          /\ inode' = "absent"
          /\ UNCHANGED faults
       \/ /\ committed > 0
          /\ faults' = faults \cup {"cleanup"}
          /\ UNCHANGED <<cached, inode>>
    /\ UNCHANGED <<write_type, flags, committed, total, buffer, ufs_file, length,
                   offered, failed, outcome>>

----------------------------------------------------------------------------
Init ==
    /\ write_type \in WriteTypes
    /\ flags = {f \in {"should_cache", "ufs_write_enabled"} :
                   \/ f = "should_cache" /\ CacheStream
                   \/ f = "ufs_write_enabled" /\ UfsStream}
    /\ committed = 0
    /\ total = 0
    /\ current = "None"
    /\ bytes_written = 0
    /\ pending = 0
    /\ replica = NoReplica
    /\ ufs = "none"
    /\ ufs_sent = 0
    /\ pc = "create"
    /\ len = 0
    /\ offset = 0
    /\ err = "none"
    /\ cached = NothingCached
    /\ ufs_file = NoFile
    /\ inode = "absent"
    /\ length = 0
    /\ offered = 0
    /\ failed = {}
    /\ outcome = "none"
    /\ faults = {}

(* The writer has been dropped. *)
Gone == pc = "gone" /\ UNCHANGED vars

Next ==
    \/ create_with_context
    \/ \E n \in 1 .. MaxBytes : write(n)
    \/ EmitAlignedChunks \/ NeedsFreshBlock \/ CacheDone
    \/ OpenNextBlock \/ SwitchBlock \/ HandleCacheWriteException
    \/ WriteToUfsStream \/ WriteDone
    \/ FlushUfs \/ FlushBlock
    \/ Close \/ CloseUfs \/ CloseLast \/ CompleteFile \/ Recover
    \/ Cancel \/ Drop \/ Cleanup
    \/ Gone

Spec == Init /\ [][Next]_vars

----------------------------------------------------------------------------
Flags == {"cancelled", "closed", "should_cache", "ufs_write_enabled",
          "block_opened", "ufs_stream_completed"}
Locations == {"create", "idle", "cache", "open_block", "switch", "cache_err",
              "ufs", "close_ufs", "close_last", "complete", "recover",
              "cleanup", "gone"}

(* Every variable of the writer and of the world it writes to has its type;  *)
(* the pending tail is always shorter than a chunk (pending_chunk's doc) and  *)
(* the open block never holds more than a block (ActiveBlockWriter.remaining  *)
(* does not underflow).                                                       *)
TypeOK ==
    /\ write_type \in WriteTypes
    /\ flags \subseteq Flags
    /\ committed \in Blocks /\ total \in 0 .. MaxBytes
    /\ current \in {"None", "Some"}
    /\ bytes_written \in 0 .. BlockSize
    /\ pending \in 0 .. ChunkSize - 1
    /\ replica \in [Workers -> Streams]
    /\ ufs \in Streams /\ ufs_sent \in 0 .. MaxBytes
    /\ pc \in Locations
    /\ len \in 0 .. MaxBytes /\ offset \in 0 .. len
    /\ err \in {"none", "Io", "Exhausted", "Auth"}
    /\ cached \in [Blocks -> [Workers -> 0 .. BlockSize]]
    /\ ufs_file \in -1 .. MaxBytes
    /\ inode \in {"incomplete", "complete", "absent"}
    /\ length \in 0 .. MaxBytes
    /\ offered \in 0 .. MaxBytes
    /\ failed \subseteq {"write", "flush"}
    /\ outcome \in {"none", "ok", "noop", "err", "aborted", "cancelled",
                    "cancel_noop", "dropped"}
    /\ faults \subseteq {"commit_location", "cleanup"}

(* The bytes of block b in a file of total bytes. *)
BlockLen(b) == IF total > b * BlockSize THEN Min2(BlockSize, total - b * BlockSize)
               ELSE 0
CachedWhole ==
    \A b \in Blocks :
      BlockLen(b) > 0 =>
        Cardinality({w \in Workers : cached[b][w] = BlockLen(b)})
          >= IF AsyncThrough THEN DurableMin ELSE 1
UfsWhole == ufs_file = total

Whole ==
    /\ inode = "complete"
    /\ length = total
    /\ ufs_write_enabled => UfsWhole
    /\ UfsWhole \/ CachedWhole
    /\ \A b \in Blocks, w \in Workers : cached[b][w] \in {0, BlockLen(b)}

(* When close() returns Ok and no earlier call of the writer failed, the      *)
(* master has the file complete with the length written, and every byte is    *)
(* where the write type promises: on the UFS for THROUGH, CACHE_THROUGH and a *)
(* degraded file (also when completeFile failed and the file was imported     *)
(* back), otherwise in cache blocks each held by enough workers; no worker    *)
(* holds a torn block.  (close, handle_cache_write_exception,                 *)
(* close_current_block, handle_complete_file_error.)                          *)
CompletedWhole == outcome = "ok" /\ failed = {} => Whole

(* Every block a worker has committed is one the cleanup will name: its id is *)
(* in committed_block_ids, also when its close reported an error; the one     *)
(* exception is a block whose commitLocation failed.  (close_current_block.)  *)
CommittedTracked ==
    faults = {} => \A b \in Blocks, w \in Workers : cached[b][w] > 0 => b < committed

(* Once cancel(), the cleanup of a dropped writer, or the cleanup of a close  *)
(* that failed before completeFile has run with its RPCs working, no worker   *)
(* keeps a block of the file and no stream is left; a cancelled file never    *)
(* reached the UFS.  (do_cancel_cleanup, perform_drop_cleanup.)               *)
CancelCleans ==
    outcome \in {"cancelled", "dropped", "aborted"} /\ pc \in {"idle", "gone"}
      /\ faults = {}
    => /\ cached = NothingCached
       /\ ufs = "none" /\ ~active
       /\ outcome # "aborted" => ufs_file = NoFile

(* An ASYNC_THROUGH file is written to the cache or to the UFS, never partly  *)
(* to each: it degrades only while no block has ever been opened.  (Rule 3 of *)
(* handle_cache_write_exception.)                                             *)
AsyncNeverSplit ==
    AsyncThrough /\ (ufs_write_enabled \/ ufs # "none" \/ ufs_file # NoFile)
    => cached = NothingCached /\ ~active /\ ~block_opened

(* What a writer has committed it also tracks, a cancel removes every block   *)
(* it tracks, and an ASYNC_THROUGH file is never split.                       *)
BlocksTracked == TypeOK /\ CommittedTracked /\ CancelCleans /\ AsyncNeverSplit

----------------------------------------------------------------------------
(* A statement of the source's comments that the code does not keep.          *)

(* A flush failure is always fatal (doc of flush): close() does not return Ok *)
(* for a file that lost bytes.                                                *)
FlushFailureFatal == outcome = "ok" /\ "write" \notin failed => Whole
=============================================================================
