-------------------------- MODULE FileWriterProofs --------------------------
(***************************************************************************)
(* Proofs about the file writer (FileWriter), for every block and chunk    *)
(* size, set of workers, number of replicas and length of file.            *)
(***************************************************************************)
EXTENDS FileWriter, FiniteSetTheorems, TLAPS

\* The time limits of the provers, in seconds.
USE SMTT(30), ZenonT(60)

(* The bytes of n whole blocks, and the replicas a block needs. *)
Bytes(n) == n * BlockSize
Need == IF AsyncThrough THEN DurableMin ELSE 1
Closing == {"close_ufs", "close_last", "complete", "recover"}
Caching == {"cache", "open_block", "switch", "cache_err"}

(* Where a call is, what it has in hand, and the state it leaves behind. *)
Flow ==
    /\ pc \notin Caching \cup {"ufs"} => len = 0 /\ offset = 0
    /\ pc \in Caching => should_cache
    /\ pc \in Caching \cup {"ufs"} => ~closed /\ ~cancelled
    /\ pc \in Closing => closed /\ ~cancelled /\ outcome = "none"
    /\ pc = "create" => ~closed /\ ~cancelled /\ total = 0 /\ (ufs_write_enabled => UfsStream)
    /\ pc = "switch" => active /\ bytes_written = BlockSize
    /\ pc = "open_block" => ~active
    /\ pc = "close_ufs" => ufs # "none"
    /\ pc \in Closing \ {"close_ufs"} => ufs = "none"
    /\ pc = "recover" => completed
    /\ pc = "cleanup" => outcome \in {"cancelled", "dropped", "aborted"}
    /\ ~active => bytes_written = 0 /\ pending = 0 /\ replica = NoReplica
    /\ active => should_cache /\ block_opened
    /\ ~should_cache => ufs_write_enabled
    /\ ~closed => ufs_file = NoFile /\ ~completed
    /\ ~closed /\ ~cancelled => outcome = "none"
    /\ closed /\ pc \in {"idle", "gone", "cleanup"} => outcome # "none"
    /\ cancelled /\ failed = {} /\ outcome = "none" => pc = "gone"
    /\ UfsStream => ufs_write_enabled
    /\ completed => ufs_file # NoFile
    /\ outcome \in {"cancelled", "dropped"} => cancelled /\ ~closed
    /\ outcome \in {"ok", "aborted"} => closed
    /\ outcome = "ok" => pc \in {"idle", "gone"}

(* The blocks, the stream and the count of bytes never exceed what was offered. *)
Bounded ==
    /\ ~closed \/ pc \in {"close_ufs", "close_last"} =>
         Bytes(committed) + bytes_written + len - offset <= offered
    /\ total + len <= offered
    /\ ufs_sent + len <= offered

(* What is committed, and where an ASYNC_THROUGH file goes. *)
Tracked ==
    /\ CommittedTracked
    /\ CancelCleans
    /\ ufs # "none" \/ ufs_file # NoFile => ufs_write_enabled
    /\ ~block_opened => committed = 0 /\ cached = NothingCached
    /\ AsyncThrough /\ ufs_write_enabled => ~should_cache /\ ~block_opened

(* The writer is still writing or closing, and no call has failed. *)
Sound == failed = {} /\ outcome = "none"
Before == pc \notin {"complete", "recover"}

(* Every byte of a write is in a full block, in the open one, or was handed   *)
(* to the UFS stream.                                                         *)
Placed ==
    Sound =>
      /\ Before => Bytes(committed) + bytes_written <= total + offset
      /\ Before /\ should_cache /\ pc # "cache_err" =>
           Bytes(committed) + bytes_written = total + offset
      /\ pc = "ufs" /\ should_cache => offset = len
      /\ should_cache /\ ~block_opened => total = 0 /\ offset = 0
      /\ ufs # "none" => ufs_sent = total
      /\ ufs_write_enabled /\ ufs = "none" =>
           \/ pc \in {"create", "gone"}
           \/ pc = "ufs" /\ total = 0
           \/ pc \in Closing /\ ufs_file = total

(* A commitLocation that failed ends the write. *)
FaultsEnd == Sound /\ faults # {} => pc = "cache_err" /\ AsyncThrough /\ block_opened

(* The open block has its replicas, ... *)
Enough(ws) == ws # {} /\ (AsyncThrough => Cardinality(ws) >= DurableMin)
Replicated ==
    Sound /\ active => Enough(Live) /\ \A w \in Workers : replica[w] # "drained"

(* ... the committed blocks are whole, and unless the file is on the UFS      *)
(* enough workers hold them, before and after the last one is closed.         *)
BlocksWhole ==
    Sound /\ Before => \A b \in Blocks, w \in Workers : cached[b][w] \in {0, BlockSize}
Holders(b, n) == {w \in Workers : cached[b][w] = n}
CacheOnly == Sound /\ Before /\ ~ufs_write_enabled /\ pc # "cache_err"
BlocksHeld ==
    CacheOnly =>
      \A b \in Blocks : b < committed => Cardinality(Holders(b, BlockSize)) >= Need
ClosedWhole ==
    Sound /\ ~Before =>
      /\ \A b \in Blocks, w \in Workers : cached[b][w] \in {0, BlockLen(b)}
      /\ ufs_write_enabled => UfsWhole
      /\ ~ufs_write_enabled => CachedWhole
Held == FaultsEnd /\ Replicated /\ BlocksWhole /\ BlocksHeld /\ ClosedWhole

WriterInv == TypeOK /\ Flow /\ Bounded /\ Tracked /\ Placed /\ Held /\ CompletedWhole

----------------------------------------------------------------------------
\* The constants, under the assumption of FileWriter.
LEMMA WriterConstants ==
    /\ BlockSize \in Nat \ {0} /\ ChunkSize \in Nat \ {0} /\ Replicas \in Nat \ {0}
    /\ DurableMin \in 1 .. Replicas /\ MaxBytes \in Nat
    /\ WriteTypes \subseteq {"MUST_CACHE", "CACHE_THROUGH", "THROUGH", "ASYNC_THROUGH"}
  BY WriterAssumption, ZenonT(60)

\* The blocks before a block hold so many bytes.
LEMMA BytesFacts ==
    /\ \A n \in Nat : /\ Bytes(n) \in Nat /\ Bytes(n + 1) = Bytes(n) + BlockSize
                      /\ n <= Bytes(n)
    /\ \A m, n \in Nat : m < n => Bytes(m) + BlockSize <= Bytes(n)
    /\ Bytes(0) = 0
<1>1. BlockSize \in Nat /\ BlockSize >= 1
  BY WriterConstants
<1>2. ASSUME NEW n \in Nat
      PROVE  /\ Bytes(n) \in Nat /\ Bytes(n + 1) = Bytes(n) + BlockSize
             /\ n <= Bytes(n)
  BY <1>1 DEF Bytes
<1>3. ASSUME NEW m \in Nat, NEW n \in Nat, m < n PROVE Bytes(m) + BlockSize <= Bytes(n)
  <2>1. PICK k \in Nat : n = m + 1 + k
    <3>1. n - m - 1 \in Nat /\ n = m + 1 + (n - m - 1)
      BY <1>3
    <3> QED BY <3>1, ZenonT(60)
  <2>2. Bytes(n) = Bytes(m) + BlockSize + k * BlockSize /\ k * BlockSize >= 0
    BY <1>1, <2>1 DEF Bytes
  <2> QED BY <1>1, <1>2, <2>2
<1>4. Bytes(0) = 0
  BY <1>1 DEF Bytes
<1> QED
  BY <1>2, <1>3, <1>4, Zenon

(* The sets of flags, of failed calls and of faults only get their members. *)
LEMMA FlagTypes ==
  ASSUME TypeOK, [Next]_vars
  PROVE  /\ flags' \subseteq Flags /\ failed' \subseteq {"write", "flush"}
         /\ faults' \subseteq {"commit_location", "cleanup"}
<1>0. /\ flags \subseteq Flags /\ failed \subseteq {"write", "flush"}
      /\ faults \subseteq {"commit_location", "cleanup"}
  BY ZenonT(60) DEF TypeOK
<1>1. CASE create_with_context
  BY <1>0, <1>1, Zenon DEF create_with_context, Fail, Flags, ghosts
<1>2. ASSUME NEW n \in 1 .. MaxBytes, write(n)
      PROVE  /\ flags' \subseteq Flags /\ failed' \subseteq {"write", "flush"}
             /\ faults' \subseteq {"commit_location", "cleanup"}
  BY <1>0, <1>2, Zenon DEF write, ghosts
<1>3. CASE EmitAlignedChunks
  BY <1>0, <1>3, Zenon DEF EmitAlignedChunks, Fail, Flags, ghosts
<1>4. CASE NeedsFreshBlock
  BY <1>0, <1>4, Zenon DEF NeedsFreshBlock, Fail, Flags, ghosts
<1>5. CASE CacheDone
  BY <1>0, <1>5, Zenon DEF CacheDone, Fail, Flags, ghosts
<1>6. CASE OpenNextBlock
  BY <1>0, <1>6, Zenon DEF OpenNextBlock, Fail, Flags, ghosts
<1>7. CASE SwitchBlock
  BY <1>0, <1>7, Zenon DEF SwitchBlock, Fail, Flags, ghosts
<1>8. CASE HandleCacheWriteException
  BY <1>0, <1>8, Zenon DEF HandleCacheWriteException, Fail, Flags, ghosts
<1>9. CASE WriteToUfsStream
  BY <1>0, <1>9, Zenon DEF WriteToUfsStream, Fail, Flags, ghosts
<1>10. CASE WriteDone
  BY <1>0, <1>10, Zenon DEF WriteDone, Fail, Flags, ghosts
<1>11. CASE FlushUfs
  BY <1>0, <1>11, Zenon DEF FlushUfs, Fail, Flags, ghosts
<1>12. CASE FlushBlock
  BY <1>0, <1>12, Zenon DEF FlushBlock, Fail, Flags, ghosts
<1>13. CASE Close
  BY <1>0, <1>13, Zenon DEF Close, Fail, Flags, ghosts
<1>14. CASE CloseUfs
  BY <1>0, <1>14, Zenon DEF CloseUfs, Fail, Flags, ghosts
<1>15. CASE CloseLast
  BY <1>0, <1>15, Zenon DEF CloseLast, Fail, Flags, ghosts
<1>16. CASE CompleteFile
  BY <1>0, <1>16, Zenon DEF CompleteFile, Fail, Flags, ghosts
<1>17. CASE Recover
  BY <1>0, <1>17, Zenon DEF Recover, Fail, Flags, ghosts
<1>18. CASE Cancel
  BY <1>0, <1>18, Zenon DEF Cancel, Fail, Flags, ghosts
<1>19. CASE Drop
  BY <1>0, <1>19, Zenon DEF Drop, Fail, Flags, ghosts
<1>20. CASE Cleanup
  BY <1>0, <1>20, Zenon DEF Cleanup, Fail, Flags, ghosts
<1>21. CASE UNCHANGED vars
  BY <1>0, <1>21, Zenon DEF vars, ghosts
<1> QED
  BY <1>1, <1>2, <1>3, <1>4, <1>5, <1>6, <1>7, <1>8, <1>9, <1>10, <1>11,
     <1>12, <1>13, <1>14, <1>15, <1>16, <1>17, <1>18, <1>19, <1>20, <1>21, ZenonT(60) DEF
     Next, Gone

(* Where the calls are. *)
LEMMA FlowStep ==
  ASSUME TypeOK, Flow, [Next]_vars
  PROVE  Flow'
<1> USE WriterConstants DEF TypeOK, Flow, block, stream, buffer, world, ghosts,
      Idle, Fail, Abort, NoBlock, NoUfs, OpenUfs, NoReplica, NoFile, Caching,
      Closing, cancelled, closed, should_cache, ufs_write_enabled,
      block_opened, completed, active, Streams, Remaining, Min2, UfsStream
<1>1. CASE create_with_context
  BY <1>1, ZenonT(60) DEF create_with_context
<1>2. ASSUME NEW n \in 1 .. MaxBytes, write(n) PROVE  Flow'
  BY <1>2, ZenonT(60) DEF write
<1>3. CASE EmitAlignedChunks
  BY <1>3, ZenonT(60) DEF EmitAlignedChunks
<1>4. CASE NeedsFreshBlock
  BY <1>4 DEF NeedsFreshBlock
<1>5. CASE CacheDone
  BY <1>5, ZenonT(60) DEF CacheDone
<1>6. CASE OpenNextBlock
  BY <1>6, ZenonT(60) DEF OpenNextBlock
<1>7. CASE SwitchBlock
  BY <1>7, ZenonT(60) DEF SwitchBlock
<1>8. CASE HandleCacheWriteException
  BY <1>8, ZenonT(60) DEF HandleCacheWriteException
<1>9. CASE WriteToUfsStream
  BY <1>9, ZenonT(60) DEF WriteToUfsStream
<1>10. CASE WriteDone
  BY <1>10, ZenonT(60) DEF WriteDone
<1>11. CASE FlushUfs
  BY <1>11, ZenonT(60) DEF FlushUfs
<1>12. CASE FlushBlock
  BY <1>12, ZenonT(60) DEF FlushBlock
<1>13. CASE Close
  BY <1>13, ZenonT(60) DEF Close
<1>14. CASE CloseUfs
  BY <1>14 DEF CloseUfs
<1>15. CASE CloseLast
  BY <1>15, ZenonT(60) DEF CloseLast, CloseFailed
<1>16. CASE CompleteFile
  BY <1>16, ZenonT(60) DEF CompleteFile
<1>17. CASE Recover
  BY <1>17, ZenonT(60) DEF Recover
<1>18. CASE Cancel
  BY <1>18, ZenonT(60) DEF Cancel
<1>19. CASE Drop
  BY <1>19, ZenonT(60) DEF Drop
<1>20. CASE Cleanup
  BY <1>20, ZenonT(60) DEF Cleanup
<1>21. CASE UNCHANGED vars
  BY <1>21 DEF vars
<1> HIDE DEF TypeOK, Flow
<1> QED
  BY <1>1, <1>2, <1>3, <1>4, <1>5, <1>6, <1>7, <1>8, <1>9, <1>10, <1>11,
     <1>12, <1>13, <1>14, <1>15, <1>16, <1>17, <1>18, <1>19, <1>20, <1>21,
     Zenon DEF Next, Gone

(* The counts stay within what was offered, ... *)
LEMMA CountsStep ==
  ASSUME TypeOK, Flow, Bounded, [Next]_vars
  PROVE  /\ total' + len' <= offered' /\ ufs_sent' + len' <= offered'
         /\ total' \in 0 .. MaxBytes /\ ufs_sent' \in 0 .. MaxBytes
         /\ length' \in 0 .. MaxBytes
<1> USE WriterConstants DEF TypeOK, Flow, Bounded, block, stream, buffer, world,
      ghosts, Idle, Fail, Abort, NoBlock, NoUfs, OpenUfs, NoReplica, NoFile,
      Caching, Closing, completed, closed
<1>1. CASE create_with_context
  BY <1>1, ZenonT(60) DEF create_with_context
<1>2. ASSUME NEW n \in 1 .. MaxBytes, write(n)
      PROVE  /\ total' + len' <= offered' /\ ufs_sent' + len' <= offered'
             /\ total' \in 0 .. MaxBytes /\ ufs_sent' \in 0 .. MaxBytes
             /\ length' \in 0 .. MaxBytes
  BY <1>2 DEF write
<1>3. CASE EmitAlignedChunks
  BY <1>3, ZenonT(60) DEF EmitAlignedChunks
<1>4. CASE NeedsFreshBlock
  BY <1>4, ZenonT(60) DEF NeedsFreshBlock
<1>5. CASE CacheDone
  BY <1>5, ZenonT(60) DEF CacheDone
<1>6. CASE OpenNextBlock
  BY <1>6, ZenonT(60) DEF OpenNextBlock
<1>7. CASE SwitchBlock
  BY <1>7, ZenonT(60) DEF SwitchBlock
<1>8. CASE HandleCacheWriteException
  BY <1>8 DEF HandleCacheWriteException
<1>9. CASE WriteToUfsStream
  BY <1>9 DEF WriteToUfsStream
<1>10. CASE WriteDone
  BY <1>10 DEF WriteDone
<1>11. CASE FlushUfs
  BY <1>11, ZenonT(60) DEF FlushUfs
<1>12. CASE FlushBlock
  BY <1>12, ZenonT(60) DEF FlushBlock
<1>13. CASE Close
  BY <1>13, ZenonT(60) DEF Close
<1>14. CASE CloseUfs
  BY <1>14 DEF CloseUfs
<1>15. CASE CloseLast
  BY <1>15, ZenonT(60) DEF CloseLast
<1>16. CASE CompleteFile
  BY <1>16, ZenonT(60) DEF CompleteFile
<1>17. CASE Recover
  BY <1>17 DEF Recover
<1>18. CASE Cancel
  BY <1>18, ZenonT(60) DEF Cancel
<1>19. CASE Drop
  BY <1>19 DEF Drop
<1>20. CASE Cleanup
  BY <1>20 DEF Cleanup
<1>21. CASE UNCHANGED vars
  BY <1>21, ZenonT(60) DEF vars
<1> HIDE DEF TypeOK, Flow, Bounded
<1> QED
  BY <1>1, <1>2, <1>3, <1>4, <1>5, <1>6, <1>7, <1>8, <1>9, <1>10, <1>11,
     <1>12, <1>13, <1>14, <1>15, <1>16, <1>17, <1>18, <1>19, <1>20, <1>21,
     Zenon DEF Next, Gone

(* ... and so block indices do not run out. *)
LEMMA BytesStep ==
  ASSUME TypeOK, Flow, Bounded, [Next]_vars
  PROVE  /\ ~closed' \/ pc' \in {"close_ufs", "close_last"} =>
              Bytes(committed)' + bytes_written' + len' - offset' <= offered'
         /\ committed' \in Blocks
<1>0. /\ Bytes(committed) \in Nat /\ Bytes(committed + 1) = Bytes(committed) + BlockSize
      /\ committed <= Bytes(committed)
  <2>1. committed \in Nat
    BY WriterConstants DEF TypeOK, Blocks
  <2> QED
    BY <2>1, BytesFacts, ZenonT(60)
<1> USE WriterConstants DEF TypeOK, Flow, Bounded, Blocks, block, stream,
      buffer, world, ghosts, Idle, Fail, Abort, NoBlock, NoUfs, OpenUfs,
      NoReplica, NoFile, Caching, Closing, closed, active
<1>1. CASE create_with_context
  BY <1>0, <1>1, ZenonT(60) DEF create_with_context
<1>2. ASSUME NEW n \in 1 .. MaxBytes, write(n)
      PROVE  /\ ~closed' \/ pc' \in {"close_ufs", "close_last"} =>
                  Bytes(committed)' + bytes_written' + len' - offset' <= offered'
             /\ committed' \in Blocks
  BY <1>0, <1>2 DEF write
<1>3. CASE EmitAlignedChunks
  BY <1>0, <1>3 DEF EmitAlignedChunks, Remaining, Min2
<1>4. CASE NeedsFreshBlock
  BY <1>0, <1>4, ZenonT(60) DEF NeedsFreshBlock
<1>5. CASE CacheDone
  BY <1>0, <1>5, ZenonT(60) DEF CacheDone
<1>6. CASE OpenNextBlock
  BY <1>0, <1>6, ZenonT(60) DEF OpenNextBlock
<1>7. CASE SwitchBlock
  <2>1. committed' \in {committed, committed + 1} /\ committed' \in Blocks
    BY <1>0, <1>7 DEF SwitchBlock, CloseFailed
  <2>2. Bytes(committed') <= Bytes(committed) + BlockSize
    BY <1>0, <2>1
  <2> QED
    BY <1>0, <1>7, <2>1, <2>2 DEF SwitchBlock
<1>8. CASE HandleCacheWriteException
  BY <1>0, <1>8 DEF HandleCacheWriteException
<1>9. CASE WriteToUfsStream
  BY <1>0, <1>9 DEF WriteToUfsStream
<1>10. CASE WriteDone
  BY <1>0, <1>10 DEF WriteDone
<1>11. CASE FlushUfs
  BY <1>0, <1>11, ZenonT(60) DEF FlushUfs
<1>12. CASE FlushBlock
  BY <1>0, <1>12, ZenonT(60) DEF FlushBlock
<1>13. CASE Close
  BY <1>0, <1>13, ZenonT(60) DEF Close
<1>14. CASE CloseUfs
  BY <1>0, <1>14, ZenonT(60) DEF CloseUfs
<1>15. CASE CloseLast
  BY <1>0, <1>15 DEF CloseLast, CloseFailed, Live
<1>16. CASE CompleteFile
  BY <1>0, <1>16, ZenonT(60) DEF CompleteFile
<1>17. CASE Recover
  BY <1>0, <1>17, ZenonT(60) DEF Recover
<1>18. CASE Cancel
  BY <1>0, <1>18, ZenonT(60) DEF Cancel
<1>19. CASE Drop
  BY <1>0, <1>19 DEF Drop
<1>20. CASE Cleanup
  BY <1>0, <1>20 DEF Cleanup
<1>21. CASE UNCHANGED vars
  BY <1>0, <1>21, ZenonT(60) DEF vars
<1> HIDE DEF TypeOK, Flow, Bounded
<1> QED
  BY <1>1, <1>2, <1>3, <1>4, <1>5, <1>6, <1>7, <1>8, <1>9, <1>10, <1>11,
     <1>12, <1>13, <1>14, <1>15, <1>16, <1>17, <1>18, <1>19, <1>20, <1>21,
     Zenon DEF Next, Gone

(* Types *)
LEMMA TypeStep ==
  ASSUME TypeOK, Flow, Bounded, [Next]_vars
  PROVE  TypeOK'
<1>0. /\ flags' \subseteq Flags /\ failed' \subseteq {"write", "flush"}
      /\ faults' \subseteq {"commit_location", "cleanup"}
      /\ committed' \in Blocks /\ total' \in 0 .. MaxBytes
      /\ ufs_sent' \in 0 .. MaxBytes /\ length' \in 0 .. MaxBytes
  BY FlagTypes, CountsStep, BytesStep, ZenonT(60)
<1> USE WriterConstants DEF TypeOK, block, stream, buffer, world, ghosts, Idle,
      Fail, Abort, NoBlock, NoUfs, OpenUfs, Locations, Streams, NoReplica,
      NothingCached
<1>1. CASE create_with_context
  BY <1>0, <1>1 DEF create_with_context
<1>2. ASSUME NEW n \in 1 .. MaxBytes, write(n) PROVE  TypeOK'
  BY <1>0, <1>2 DEF write, Flow, Caching
<1>3. CASE EmitAlignedChunks
  BY <1>0, <1>3 DEF EmitAlignedChunks, WriteChunk, FanoutError, Remaining, Min2
<1>4. CASE NeedsFreshBlock
  BY <1>0, <1>4 DEF NeedsFreshBlock
<1>5. CASE CacheDone
  BY <1>0, <1>5 DEF CacheDone
<1>6. CASE OpenNextBlock
  BY <1>0, <1>6 DEF OpenNextBlock
<1>7. CASE SwitchBlock
  BY <1>0, <1>7 DEF SwitchBlock, Commit, CloseFailed, FanoutError
<1>8. CASE HandleCacheWriteException
  BY <1>0, <1>8 DEF HandleCacheWriteException
<1>9. CASE WriteToUfsStream
  BY <1>0, <1>9 DEF WriteToUfsStream
<1>10. CASE WriteDone
  BY <1>0, <1>10 DEF WriteDone
<1>11. CASE FlushUfs
  BY <1>0, <1>11, ZenonT(60) DEF FlushUfs
<1>12. CASE FlushBlock
  BY <1>0, <1>12 DEF FlushBlock
<1>13. CASE Close
  BY <1>0, <1>13 DEF Close
<1>14. CASE CloseUfs
  BY <1>0, <1>14 DEF CloseUfs
<1>15. CASE CloseLast
  <2>1. cached' \in [Blocks -> [Workers -> 0 .. BlockSize]]
    BY <1>15 DEF CloseLast, Commit, CloseFailed
  <2> QED
    BY <1>0, <1>15, <2>1 DEF CloseLast
<1>16. CASE CompleteFile
  BY <1>0, <1>16 DEF CompleteFile
<1>17. CASE Recover
  BY <1>0, <1>17 DEF Recover
<1>18. CASE Cancel
  BY <1>0, <1>18, ZenonT(60) DEF Cancel
<1>19. CASE Drop
  BY <1>0, <1>19 DEF Drop
<1>20. CASE Cleanup
  BY <1>0, <1>20 DEF Cleanup, RemoveBlocks
<1>21. CASE UNCHANGED vars
  BY <1>0, <1>21 DEF vars
<1> HIDE DEF TypeOK
<1> QED
  BY <1>1, <1>2, <1>3, <1>4, <1>5, <1>6, <1>7, <1>8, <1>9, <1>10, <1>11,
     <1>12, <1>13, <1>14, <1>15, <1>16, <1>17, <1>18, <1>19, <1>20, <1>21,
     Zenon DEF Next, Gone

(* What is committed is tracked, ... *)
LEMMA TrackedStep ==
  ASSUME TypeOK, Flow, Tracked, [Next]_vars
  PROVE  (CommittedTracked /\ CancelCleans)'
<1> USE WriterConstants DEF TypeOK, Flow, Tracked, CommittedTracked,
      CancelCleans, Blocks, block, stream, buffer, world, ghosts, Idle, Fail,
      Abort, NoBlock, NoUfs, OpenUfs, NoReplica, NoFile, Caching, Closing,
      cancelled, closed, should_cache, ufs_write_enabled, block_opened,
      completed, active, NothingCached, Commit, CloseFailed, RemoveBlocks
<1>1. CASE create_with_context
  BY <1>1, ZenonT(60) DEF create_with_context
<1>2. ASSUME NEW n \in 1 .. MaxBytes, write(n)
      PROVE  (CommittedTracked /\ CancelCleans)'
  BY <1>2, ZenonT(60) DEF write
<1>3. CASE EmitAlignedChunks
  BY <1>3, ZenonT(60) DEF EmitAlignedChunks
<1>4. CASE NeedsFreshBlock
  BY <1>4, ZenonT(60) DEF NeedsFreshBlock
<1>5. CASE CacheDone
  BY <1>5, ZenonT(60) DEF CacheDone
<1>6. CASE OpenNextBlock
  BY <1>6, ZenonT(60) DEF OpenNextBlock
<1>7. CASE SwitchBlock
  <2>1. CommittedTracked'
    BY <1>7 DEF SwitchBlock
  <2>2. CancelCleans'
    BY <1>7, ZenonT(60) DEF SwitchBlock
  <2> QED
    BY <2>1, <2>2, ZenonT(60)
<1>8. CASE HandleCacheWriteException
  BY <1>8, ZenonT(60) DEF HandleCacheWriteException
<1>9. CASE WriteToUfsStream
  BY <1>9, ZenonT(60) DEF WriteToUfsStream
<1>10. CASE WriteDone
  BY <1>10, ZenonT(60) DEF WriteDone
<1>11. CASE FlushUfs
  BY <1>11, ZenonT(60) DEF FlushUfs
<1>12. CASE FlushBlock
  BY <1>12, ZenonT(60) DEF FlushBlock
<1>13. CASE Close
  BY <1>13, ZenonT(60) DEF Close
<1>14. CASE CloseUfs
  BY <1>14, ZenonT(60) DEF CloseUfs
<1>15. CASE CloseLast
  BY <1>15 DEF CloseLast
<1>16. CASE CompleteFile
  BY <1>16, ZenonT(60) DEF CompleteFile
<1>17. CASE Recover
  BY <1>17 DEF Recover
<1>18. CASE Cancel
  BY <1>18, ZenonT(60) DEF Cancel
<1>19. CASE Drop
  <2>1. CommittedTracked'
    BY <1>19, ZenonT(60) DEF Drop
  <2>2. CancelCleans'
    BY <1>19, ZenonT(60) DEF Drop
  <2> QED
    BY <2>1, <2>2, ZenonT(60)
<1>20. CASE Cleanup
  <2>1. CommittedTracked'
    BY <1>20 DEF Cleanup
  <2>2. CancelCleans'
    BY <1>20 DEF Cleanup
  <2> QED
    BY <2>1, <2>2, ZenonT(60)
<1>21. CASE UNCHANGED vars
  BY <1>21, ZenonT(60) DEF vars
<1> HIDE DEF TypeOK, Flow, CancelCleans, CommittedTracked, Tracked
<1> QED
  BY <1>1, <1>2, <1>3, <1>4, <1>5, <1>6, <1>7, <1>8, <1>9, <1>10, <1>11,
     <1>12, <1>13, <1>14, <1>15, <1>16, <1>17, <1>18, <1>19, <1>20, <1>21,
     Zenon DEF Next, Gone

(* ... and an ASYNC_THROUGH file is never split. *)
LEMMA AsyncStep ==
  ASSUME TypeOK, Flow, Tracked, [Next]_vars
  PROVE  /\ ufs' # "none" \/ ufs_file' # NoFile => ufs_write_enabled'
         /\ ~block_opened' => committed' = 0 /\ cached' = NothingCached
         /\ AsyncThrough' /\ ufs_write_enabled' => ~should_cache' /\ ~block_opened'
<1> USE WriterConstants DEF TypeOK, Flow, Tracked, Fatal, UfsStream,
      AsyncThrough, block, stream, buffer, world, ghosts, Idle, Fail, Abort,
      NoBlock, NoUfs, OpenUfs, NoReplica, NoFile, Caching, Closing, cancelled,
      closed, should_cache, ufs_write_enabled, block_opened, completed,
      active, NothingCached, Commit, CloseFailed, RemoveBlocks
<1>1. CASE create_with_context
  BY <1>1, ZenonT(60) DEF create_with_context
<1>2. ASSUME NEW n \in 1 .. MaxBytes, write(n)
      PROVE  /\ ufs' # "none" \/ ufs_file' # NoFile => ufs_write_enabled'
             /\ ~block_opened' => committed' = 0 /\ cached' = NothingCached
             /\ AsyncThrough' /\ ufs_write_enabled' => ~should_cache' /\ ~block_opened'
  BY <1>2, ZenonT(60) DEF write
<1>3. CASE EmitAlignedChunks
  BY <1>3, ZenonT(60) DEF EmitAlignedChunks
<1>4. CASE NeedsFreshBlock
  BY <1>4, ZenonT(60) DEF NeedsFreshBlock
<1>5. CASE CacheDone
  BY <1>5, ZenonT(60) DEF CacheDone
<1>6. CASE OpenNextBlock
  BY <1>6, ZenonT(60) DEF OpenNextBlock
<1>7. CASE SwitchBlock
  BY <1>7, ZenonT(60) DEF SwitchBlock
<1>8. CASE HandleCacheWriteException
  BY <1>8, ZenonT(60) DEF HandleCacheWriteException
<1>9. CASE WriteToUfsStream
  BY <1>9, ZenonT(60) DEF WriteToUfsStream
<1>10. CASE WriteDone
  BY <1>10, ZenonT(60) DEF WriteDone
<1>11. CASE FlushUfs
  BY <1>11, ZenonT(60) DEF FlushUfs
<1>12. CASE FlushBlock
  BY <1>12, ZenonT(60) DEF FlushBlock
<1>13. CASE Close
  BY <1>13, ZenonT(60) DEF Close
<1>14. CASE CloseUfs
  BY <1>14, ZenonT(60) DEF CloseUfs
<1>15. CASE CloseLast
  BY <1>15 DEF CloseLast
<1>16. CASE CompleteFile
  BY <1>16, ZenonT(60) DEF CompleteFile
<1>17. CASE Recover
  BY <1>17, ZenonT(60) DEF Recover
<1>18. CASE Cancel
  BY <1>18, ZenonT(60) DEF Cancel
<1>19. CASE Drop
  BY <1>19, ZenonT(60) DEF Drop
<1>20. CASE Cleanup
  BY <1>20, ZenonT(60) DEF Cleanup
<1>21. CASE UNCHANGED vars
  BY <1>21, ZenonT(60) DEF vars
<1> HIDE DEF TypeOK, Flow, Tracked
<1> QED
  BY <1>1, <1>2, <1>3, <1>4, <1>5, <1>6, <1>7, <1>8, <1>9, <1>10, <1>11,
     <1>12, <1>13, <1>14, <1>15, <1>16, <1>17, <1>18, <1>19, <1>20, <1>21,
     Zenon DEF Next, Gone

(* Every byte is accounted for. *)
LEMMA PlacedStep ==
  ASSUME TypeOK, Flow, Tracked, Placed, [Next]_vars
  PROVE  Placed'
<1>0. /\ Bytes(committed) \in Nat /\ Bytes(committed + 1) = Bytes(committed) + BlockSize
      /\ committed <= Bytes(committed) /\ Bytes(0) = 0
  <2>1. committed \in Nat
    BY WriterConstants DEF TypeOK, Blocks
  <2> QED
    BY <2>1, BytesFacts, ZenonT(60)
<1> USE WriterConstants DEF TypeOK, Flow, Tracked, Placed, Sound, Before, block,
      stream, buffer, world, ghosts, Idle, Fail, Abort, NoBlock, NoUfs,
      OpenUfs, NoReplica, NoFile, Caching, Closing, cancelled, closed,
      should_cache, ufs_write_enabled, block_opened, completed, active,
      CloseFailed
<1>1. CASE create_with_context
  BY <1>0, <1>1 DEF create_with_context, UfsStream
<1>2. ASSUME NEW n \in 1 .. MaxBytes, write(n) PROVE  Placed'
  BY <1>0, <1>2, ZenonT(60) DEF write
<1>3. CASE EmitAlignedChunks
  BY <1>0, <1>3 DEF EmitAlignedChunks, Remaining, Min2
<1>4. CASE NeedsFreshBlock
  BY <1>0, <1>4, ZenonT(60) DEF NeedsFreshBlock
<1>5. CASE CacheDone
  BY <1>0, <1>5, ZenonT(60) DEF CacheDone
<1>6. CASE OpenNextBlock
  BY <1>0, <1>6 DEF OpenNextBlock
<1>7. CASE SwitchBlock
  BY <1>0, <1>7 DEF SwitchBlock
<1>8. CASE HandleCacheWriteException
  BY <1>0, <1>8 DEF HandleCacheWriteException, Fatal, UfsStream, AsyncThrough
<1>9. CASE WriteToUfsStream
  BY <1>0, <1>9 DEF WriteToUfsStream
<1>10. CASE WriteDone
  BY <1>0, <1>10 DEF WriteDone
<1>11. CASE FlushUfs
  BY <1>0, <1>11, ZenonT(60) DEF FlushUfs
<1>12. CASE FlushBlock
  BY <1>0, <1>12, ZenonT(60) DEF FlushBlock
<1>13. CASE Close
  BY <1>0, <1>13, ZenonT(60) DEF Close
<1>14. CASE CloseUfs
  BY <1>0, <1>14 DEF CloseUfs
<1>15. CASE CloseLast
  BY <1>0, <1>15, ZenonT(60) DEF CloseLast
<1>16. CASE CompleteFile
  BY <1>0, <1>16, ZenonT(60) DEF CompleteFile
<1>17. CASE Recover
  BY <1>0, <1>17, ZenonT(60) DEF Recover
<1>18. CASE Cancel
  BY <1>0, <1>18, ZenonT(60) DEF Cancel
<1>19. CASE Drop
  BY <1>0, <1>19, ZenonT(60) DEF Drop
<1>20. CASE Cleanup
  BY <1>0, <1>20, ZenonT(60) DEF Cleanup
<1>21. CASE UNCHANGED vars
  BY <1>0, <1>21, ZenonT(60) DEF vars
<1> HIDE DEF TypeOK, Flow, Placed, Tracked
<1> QED
  BY <1>1, <1>2, <1>3, <1>4, <1>5, <1>6, <1>7, <1>8, <1>9, <1>10, <1>11,
     <1>12, <1>13, <1>14, <1>15, <1>16, <1>17, <1>18, <1>19, <1>20, <1>21,
     Zenon DEF Next, Gone

(* The open block, and the blocks committed before it *)
LEMMA FaultsStep ==
  ASSUME TypeOK, Flow, FaultsEnd, [Next]_vars
  PROVE  FaultsEnd'
<1> USE DEF TypeOK, Flow, FaultsEnd, Sound, Fatal, UfsStream, AsyncThrough,
      block, stream, buffer, world, ghosts, Idle, Fail, Abort, NoBlock, NoUfs,
      OpenUfs, cancelled, closed, should_cache, ufs_write_enabled,
      block_opened, completed, active
<1>1. CASE create_with_context
  BY <1>1, ZenonT(60) DEF create_with_context
<1>2. ASSUME NEW n \in 1 .. MaxBytes, write(n) PROVE  FaultsEnd'
  BY <1>2, ZenonT(60) DEF write
<1>3. CASE EmitAlignedChunks
  BY <1>3, ZenonT(60) DEF EmitAlignedChunks
<1>4. CASE NeedsFreshBlock
  BY <1>4, ZenonT(60) DEF NeedsFreshBlock
<1>5. CASE CacheDone
  BY <1>5, ZenonT(60) DEF CacheDone
<1>6. CASE OpenNextBlock
  BY <1>6, ZenonT(60) DEF OpenNextBlock
<1>7. CASE SwitchBlock
  BY <1>7, ZenonT(60) DEF SwitchBlock
<1>8. CASE HandleCacheWriteException
  BY <1>8, ZenonT(60) DEF HandleCacheWriteException
<1>9. CASE WriteToUfsStream
  BY <1>9, ZenonT(60) DEF WriteToUfsStream
<1>10. CASE WriteDone
  BY <1>10, ZenonT(60) DEF WriteDone
<1>11. CASE FlushUfs
  BY <1>11, ZenonT(60) DEF FlushUfs
<1>12. CASE FlushBlock
  BY <1>12, ZenonT(60) DEF FlushBlock
<1>13. CASE Close
  BY <1>13, ZenonT(60) DEF Close
<1>14. CASE CloseUfs
  BY <1>14, ZenonT(60) DEF CloseUfs
<1>15. CASE CloseLast
  BY <1>15, ZenonT(60) DEF CloseLast
<1>16. CASE CompleteFile
  BY <1>16, ZenonT(60) DEF CompleteFile
<1>17. CASE Recover
  BY <1>17, ZenonT(60) DEF Recover
<1>18. CASE Cancel
  BY <1>18, ZenonT(60) DEF Cancel
<1>19. CASE Drop
  BY <1>19, ZenonT(60) DEF Drop
<1>20. CASE Cleanup
  BY <1>20, ZenonT(60) DEF Cleanup
<1>21. CASE UNCHANGED vars
  BY <1>21, ZenonT(60) DEF vars
<1> HIDE DEF TypeOK, Flow, FaultsEnd
<1> QED
  BY <1>1, <1>2, <1>3, <1>4, <1>5, <1>6, <1>7, <1>8, <1>9, <1>10, <1>11,
     <1>12, <1>13, <1>14, <1>15, <1>16, <1>17, <1>18, <1>19, <1>20, <1>21,
     Zenon DEF Next, Gone

\* A replica is committed with the bytes of the block, or left as it was.
LEMMA CommitValues ==
  ASSUME TypeOK, NEW done, NEW n, Commit(done, n)
  PROVE  \A b \in Blocks, w \in Workers : cached'[b][w] \in {cached[b][w], n}
  BY ZenonT(60) DEF TypeOK, Commit, Blocks

\* Every step keeps the committed blocks whole.
LEMMA BlocksStep ==
  ASSUME TypeOK, Flow, BlocksWhole, [Next]_vars
  PROVE  BlocksWhole'
<1> USE WriterConstants DEF TypeOK, Flow, BlocksWhole, Before, Sound, Blocks,
      block, stream, buffer, world, ghosts, Idle, Fail, Abort, NoBlock, NoUfs,
      OpenUfs, cancelled, closed, should_cache, ufs_write_enabled,
      block_opened, completed, active, NoReplica, NoFile, Caching, Closing,
      NothingCached, Commit, CloseFailed, RemoveBlocks
<1>1. CASE create_with_context
  BY <1>1, ZenonT(60) DEF create_with_context
<1>2. ASSUME NEW n \in 1 .. MaxBytes, write(n) PROVE  BlocksWhole'
  BY <1>2, ZenonT(60) DEF write
<1>3. CASE EmitAlignedChunks
  BY <1>3, ZenonT(60) DEF EmitAlignedChunks
<1>4. CASE NeedsFreshBlock
  BY <1>4, ZenonT(60) DEF NeedsFreshBlock
<1>5. CASE CacheDone
  BY <1>5, ZenonT(60) DEF CacheDone
<1>6. CASE OpenNextBlock
  BY <1>6, ZenonT(60) DEF OpenNextBlock
<1>7. CASE SwitchBlock
  <2>1. bytes_written = BlockSize
    BY <1>7, ZenonT(60) DEF SwitchBlock
  <2>2. \A b \in Blocks, w \in Workers : cached'[b][w] \in {cached[b][w], bytes_written}
    <3> HIDE DEF TypeOK, Commit, Blocks
    <3>1. \A done : Commit(done, bytes_written) =>
            \A b \in Blocks, w \in Workers : cached'[b][w] \in {cached[b][w], bytes_written}
      BY CommitValues, ZenonT(60)
    <3> QED
      BY <1>7, <3>1, ZenonT(60) DEF SwitchBlock
  <2> QED
    BY <1>7, <2>1, <2>2, ZenonT(60) DEF SwitchBlock
<1>8. CASE HandleCacheWriteException
  BY <1>8, ZenonT(60) DEF HandleCacheWriteException
<1>9. CASE WriteToUfsStream
  BY <1>9, ZenonT(60) DEF WriteToUfsStream
<1>10. CASE WriteDone
  BY <1>10, ZenonT(60) DEF WriteDone
<1>11. CASE FlushUfs
  BY <1>11, ZenonT(60) DEF FlushUfs
<1>12. CASE FlushBlock
  BY <1>12, ZenonT(60) DEF FlushBlock
<1>13. CASE Close
  BY <1>13, ZenonT(60) DEF Close
<1>14. CASE CloseUfs
  BY <1>14, ZenonT(60) DEF CloseUfs
<1>15. CASE CloseLast
  BY <1>15, ZenonT(60) DEF CloseLast
<1>16. CASE CompleteFile
  BY <1>16, ZenonT(60) DEF CompleteFile
<1>17. CASE Recover
  BY <1>17, ZenonT(60) DEF Recover
<1>18. CASE Cancel
  BY <1>18, ZenonT(60) DEF Cancel
<1>19. CASE Drop
  BY <1>19, ZenonT(60) DEF Drop
<1>20. CASE Cleanup
  BY <1>20, ZenonT(60) DEF Cleanup
<1>21. CASE UNCHANGED vars
  BY <1>21, ZenonT(60) DEF vars
<1> HIDE DEF TypeOK, Flow, BlocksWhole
<1> QED
  BY <1>1, <1>2, <1>3, <1>4, <1>5, <1>6, <1>7, <1>8, <1>9, <1>10, <1>11,
     <1>12, <1>13, <1>14, <1>15, <1>16, <1>17, <1>18, <1>19, <1>20, <1>21,
     Zenon DEF Next, Gone

(* Replicas that survive an operation are enough, if there were enough. *)
LEMMA StillEnough ==
  ASSUME NEW kept \in SUBSET Live, Enough(Live), Surviving(kept)
  PROVE  Enough(kept)
  BY WriterConstants, ZenonT(60) DEF Surviving, Enough, Parallel, AsyncThrough

\* Replicas enough to go on with are as many as the write type needs.
LEMMA EnoughNeed ==
  ASSUME NEW kept \in SUBSET Workers, NEW held \in SUBSET Workers, kept \subseteq held,
         Enough(kept)
  PROVE  Cardinality(held) >= Need
<1>1. IsFiniteSet(Workers) /\ DurableMin \in Nat
  BY WriterAssumption
<1>2. IsFiniteSet(kept) /\ IsFiniteSet(held)
  BY <1>1, FS_Subset, ZenonT(60)
<1>3. Cardinality(kept) \in Nat /\ Cardinality(held) \in Nat /\ Cardinality(kept) <= Cardinality(held)
  BY <1>2, FS_CardinalityType, FS_Subset, ZenonT(60)
<1>4. Cardinality(kept) # 0
  BY <1>2, FS_EmptySet, ZenonT(60) DEF Enough
<1> QED
  BY <1>1, <1>3, <1>4 DEF Enough, Need

(* What the operations on the open block leave of its replicas. *)
LEMMA ReplicasKept ==
  ASSUME TypeOK, Flow, Replicated,
         EmitAlignedChunks \/ FlushBlock \/ OpenNextBlock
  PROVE  Replicated'
<1> SUFFICES ASSUME Sound', active'
             PROVE  (Enough(Live) /\ \A w \in Workers : replica[w] # "drained")'
  BY ZenonT(60) DEF Replicated
<1>1. Sound /\ write_type' = write_type
  BY ZenonT(60) DEF Sound, EmitAlignedChunks, FlushBlock, OpenNextBlock, ghosts
<1>2. ASSUME active, UNCHANGED replica
      PROVE  (Enough(Live) /\ \A w \in Workers : replica[w] # "drained")'
  <2>1. Live' = Live
    BY <1>2, ZenonT(60) DEF Live
  <2> QED
    BY <1>1, <1>2, <2>1, ZenonT(60) DEF Replicated, Enough, AsyncThrough
<1>3. ASSUME active, NEW kept \in SUBSET Live, Surviving(kept),
             \A w \in Workers : IF w \in kept THEN replica'[w] \in {replica[w], "broken"}
                                ELSE replica'[w] = "none"
      PROVE  (Enough(Live) /\ \A w \in Workers : replica[w] # "drained")'
  <2>1. Enough(Live) /\ \A w \in Workers : replica[w] # "drained"
    BY <1>1, <1>3, ZenonT(60) DEF Replicated
  <2>2. Enough(kept)
    BY <1>3, <2>1, StillEnough, ZenonT(60)
  <2>3. Live' = kept
    BY <1>3, ZenonT(60) DEF Live
  <2> QED
    BY <1>1, <1>3, <2>1, <2>2, <2>3, ZenonT(60) DEF Enough, AsyncThrough
<1>4. CASE EmitAlignedChunks
  <2>1. active
    BY <1>4, ZenonT(60) DEF EmitAlignedChunks
  <2>2. UNCHANGED replica \/ WriteChunk
    BY <1>4, ZenonT(60) DEF EmitAlignedChunks, block
  <2>3. ASSUME WriteChunk
        PROVE  \E kept \in SUBSET Live :
                 /\ Surviving(kept)
                 /\ \A w \in Workers : IF w \in kept THEN replica'[w] \in {replica[w], "broken"}
                                       ELSE replica'[w] = "none"
    BY <2>3, ZenonT(60) DEF WriteChunk
  <2> QED
    BY <1>2, <1>3, <2>1, <2>2, <2>3, ZenonT(60)
<1>5. CASE FlushBlock
  <2>1. active /\ failed' = {}
    BY <1>5, ZenonT(60) DEF FlushBlock, Sound
  <2>2. PICK kept \in SUBSET Live :
          /\ TailAndFlush(kept)
          /\ replica' = [w \in Workers |-> IF w \in kept THEN replica[w] ELSE "none"]
    BY <1>5, <2>1, ZenonT(60) DEF FlushBlock
  <2>3. Surviving(kept)
    BY <1>1, <2>1, <2>2, ZenonT(60) DEF TailAndFlush, Replicated, Enough
  <2> QED
    BY <1>3, <2>1, <2>2, <2>3, ZenonT(60)
<1>6. CASE OpenNextBlock
  <2>1. CASE UNCHANGED block
    BY <1>6, <2>1, ZenonT(60) DEF OpenNextBlock, block, Flow, active
  <2>2. ASSUME NEW opened \in SUBSET Workers, Cardinality(opened) \in 1 .. Replicas,
               AsyncThrough => Cardinality(opened) >= DurableMin,
               replica' = [w \in Workers |-> IF w \in opened THEN "open" ELSE "none"]
        PROVE  (Enough(Live) /\ \A w \in Workers : replica[w] # "drained")'
    <3>1. Live' = opened
      BY <2>2, ZenonT(60) DEF Live
    <3>2. opened # {}
      BY <2>2, FS_EmptySet
    <3> QED
      BY <1>1, <2>2, <3>1, <3>2, ZenonT(60) DEF Enough, AsyncThrough
  <2> QED
    BY <1>6, <2>1, <2>2, ZenonT(60) DEF OpenNextBlock
<1> QED
  BY <1>4, <1>5, <1>6, ZenonT(60)

\* Every step keeps the open block on enough workers.
LEMMA ReplicasStep ==
  ASSUME TypeOK, Flow, Replicated, [Next]_vars
  PROVE  Replicated'
<1> USE DEF TypeOK, Replicated, Sound, Enough, Live, AsyncThrough, block,
      stream, buffer, world, ghosts, Idle, Fail, Abort, NoBlock, NoUfs,
      OpenUfs, active
<1>1. CASE create_with_context
  BY <1>1, ZenonT(60) DEF create_with_context
<1>2. ASSUME NEW n \in 1 .. MaxBytes, write(n) PROVE  Replicated'
  BY <1>2, ZenonT(60) DEF write
<1>3. CASE EmitAlignedChunks
  BY <1>3, ReplicasKept, ZenonT(60)
<1>4. CASE NeedsFreshBlock
  BY <1>4, ZenonT(60) DEF NeedsFreshBlock
<1>5. CASE CacheDone
  BY <1>5, ZenonT(60) DEF CacheDone
<1>6. CASE OpenNextBlock
  BY <1>6, ReplicasKept, ZenonT(60)
<1>7. CASE SwitchBlock
  BY <1>7, ZenonT(60) DEF SwitchBlock
<1>8. CASE HandleCacheWriteException
  BY <1>8, ZenonT(60) DEF HandleCacheWriteException
<1>9. CASE WriteToUfsStream
  BY <1>9, ZenonT(60) DEF WriteToUfsStream
<1>10. CASE WriteDone
  BY <1>10, ZenonT(60) DEF WriteDone
<1>11. CASE FlushUfs
  BY <1>11, ZenonT(60) DEF FlushUfs
<1>12. CASE FlushBlock
  BY <1>12, ReplicasKept, ZenonT(60)
<1>13. CASE Close
  BY <1>13, ZenonT(60) DEF Close
<1>14. CASE CloseUfs
  BY <1>14, ZenonT(60) DEF CloseUfs
<1>15. CASE CloseLast
  BY <1>15, ZenonT(60) DEF CloseLast
<1>16. CASE CompleteFile
  BY <1>16, ZenonT(60) DEF CompleteFile
<1>17. CASE Recover
  BY <1>17, ZenonT(60) DEF Recover
<1>18. CASE Cancel
  BY <1>18, ZenonT(60) DEF Cancel
<1>19. CASE Drop
  BY <1>19, ZenonT(60) DEF Drop
<1>20. CASE Cleanup
  BY <1>20, ZenonT(60) DEF Cleanup
<1>21. CASE UNCHANGED vars
  BY <1>21, ZenonT(60) DEF vars
<1> HIDE DEF TypeOK, Replicated
<1> QED
  BY <1>1, <1>2, <1>3, <1>4, <1>5, <1>6, <1>7, <1>8, <1>9, <1>10, <1>11,
     <1>12, <1>13, <1>14, <1>15, <1>16, <1>17, <1>18, <1>19, <1>20, <1>21,
     Zenon DEF Next, Gone

(* A block that is switched from is held by enough workers. *)
LEMMA SwitchedHeld ==
  ASSUME TypeOK, Flow, Replicated, BlocksHeld, SwitchBlock
  PROVE  BlocksHeld'
<1> SUFFICES ASSUME Sound', ~ufs_write_enabled', pc' # "cache_err",
                    NEW b \in Blocks, b < committed'
             PROVE  Cardinality(Holders(b, BlockSize)') >= Need'
  BY ZenonT(60) DEF BlocksHeld, CacheOnly
<1>1. /\ Sound /\ write_type' = write_type /\ ~ufs_write_enabled /\ pc = "switch"
      /\ active /\ bytes_written = BlockSize
  BY ZenonT(60) DEF SwitchBlock, Sound, Flow, ufs_write_enabled
<1>2. PICK kept \in SUBSET Live :
        TailAndFlush(kept) /\ Commit(kept, bytes_written) /\ committed' = committed + 1
  BY ZenonT(60) DEF SwitchBlock
<1>3. Enough(kept) /\ \A w \in kept : replica[w] = "open"
  BY <1>1, <1>2, StillEnough, ZenonT(60) DEF TailAndFlush, Replicated, Enough
<1>4. committed \in Nat /\ b \in Nat /\ cached \in [Blocks -> [Workers -> 0 .. BlockSize]]
  BY WriterConstants DEF TypeOK, Blocks
<1>5. CASE b < committed
  <2>1. cached'[b] = cached[b]
    BY <1>2, <1>4, <1>5 DEF Commit
  <2>2. Holders(b, BlockSize)' = Holders(b, BlockSize)
    BY <2>1, ZenonT(60) DEF Holders
  <2>3. Cardinality(Holders(b, BlockSize)) >= Need
    BY <1>1, <1>5, ZenonT(60) DEF BlocksHeld, CacheOnly, Before
  <2> QED
    BY <1>1, <2>2, <2>3, ZenonT(60) DEF Need, AsyncThrough
<1>6. CASE b = committed
  <2>1. kept \subseteq Holders(b, BlockSize)' /\ Holders(b, BlockSize)' \subseteq Workers
    BY <1>1, <1>2, <1>3, <1>4, <1>6, ZenonT(60) DEF Commit, Holders, Live
  <2>2. Cardinality(Holders(b, BlockSize)') >= Need
    BY <1>3, <2>1, EnoughNeed, ZenonT(60)
  <2> QED
    BY <1>1, <2>2, ZenonT(60) DEF Need, AsyncThrough
<1> QED
  BY <1>2, <1>4, <1>5, <1>6

(* The other steps leave the blocks of a file that is only cached. *)
LEMMA CacheOnlyStep ==
  ASSUME TypeOK, Flow, [Next]_vars, ~SwitchBlock
  PROVE  CacheOnly' => CacheOnly /\ UNCHANGED <<cached, committed, write_type>>
<1> USE DEF TypeOK, Flow, CacheOnly, Before, Sound, Fatal, block, stream,
      buffer, world, ghosts, Idle, Fail, Abort, NoBlock, NoUfs, OpenUfs,
      NoReplica, NoFile, Caching, Closing, cancelled, closed, should_cache,
      ufs_write_enabled, block_opened, completed, active
<1>1. CASE create_with_context
  BY <1>1, ZenonT(60) DEF create_with_context
<1>2. ASSUME NEW n \in 1 .. MaxBytes, write(n)
      PROVE  CacheOnly' => CacheOnly /\ UNCHANGED <<cached, committed, write_type>>
  BY <1>2, ZenonT(60) DEF write
<1>3. CASE EmitAlignedChunks
  BY <1>3, ZenonT(60) DEF EmitAlignedChunks
<1>4. CASE NeedsFreshBlock
  BY <1>4, ZenonT(60) DEF NeedsFreshBlock
<1>5. CASE CacheDone
  BY <1>5, ZenonT(60) DEF CacheDone
<1>6. CASE OpenNextBlock
  BY <1>6, ZenonT(60) DEF OpenNextBlock
<1>8. CASE HandleCacheWriteException
  BY <1>8, ZenonT(60) DEF HandleCacheWriteException
<1>9. CASE WriteToUfsStream
  BY <1>9, ZenonT(60) DEF WriteToUfsStream
<1>10. CASE WriteDone
  BY <1>10, ZenonT(60) DEF WriteDone
<1>11. CASE FlushUfs
  BY <1>11, ZenonT(60) DEF FlushUfs
<1>12. CASE FlushBlock
  BY <1>12, ZenonT(60) DEF FlushBlock
<1>13. CASE Close
  BY <1>13, ZenonT(60) DEF Close
<1>14. CASE CloseUfs
  BY <1>14, ZenonT(60) DEF CloseUfs
<1>15. CASE CloseLast
  BY <1>15, ZenonT(60) DEF CloseLast
<1>16. CASE CompleteFile
  BY <1>16, ZenonT(60) DEF CompleteFile
<1>17. CASE Recover
  BY <1>17, ZenonT(60) DEF Recover
<1>18. CASE Cancel
  BY <1>18, ZenonT(60) DEF Cancel
<1>19. CASE Drop
  BY <1>19, ZenonT(60) DEF Drop
<1>20. CASE Cleanup
  BY <1>20, ZenonT(60) DEF Cleanup
<1>21. CASE UNCHANGED vars
  BY <1>21, ZenonT(60) DEF vars
<1> HIDE DEF TypeOK, Flow
<1> QED
  BY <1>1, <1>2, <1>3, <1>4, <1>5, <1>6, <1>8, <1>9, <1>10, <1>11,
     <1>12, <1>13, <1>14, <1>15, <1>16, <1>17, <1>18, <1>19, <1>20, <1>21,
     Zenon DEF Next, Gone

\* Every step keeps the committed blocks on enough workers.
LEMMA HeldStep ==
  ASSUME TypeOK, Flow, Replicated, BlocksHeld, [Next]_vars
  PROVE  BlocksHeld'
<1>1. CASE SwitchBlock
  BY <1>1, SwitchedHeld, ZenonT(60)
<1>2. CASE ~SwitchBlock
  <2> SUFFICES ASSUME CacheOnly', NEW b \in Blocks, b < committed'
               PROVE  Cardinality(Holders(b, BlockSize)') >= Need'
    BY ZenonT(60) DEF BlocksHeld
  <2>1. CacheOnly /\ UNCHANGED <<cached, committed, write_type>>
    BY <1>2, CacheOnlyStep, ZenonT(60)
  <2>2. Holders(b, BlockSize)' = Holders(b, BlockSize) /\ Need' = Need
    BY <2>1, ZenonT(60) DEF Holders, Need, AsyncThrough
  <2> QED
    BY <2>1, <2>2, ZenonT(60) DEF BlocksHeld
<1> QED
  BY <1>1, <1>2, ZenonT(60)

----------------------------------------------------------------------------
(* The file at the end *)

(* The lengths of the blocks of a file of c whole blocks and n bytes more. *)
LEMMA BlockLengths ==
  ASSUME NEW c \in Nat, NEW n \in 0 .. BlockSize, total \in Nat,
         Bytes(c) <= total, NEW b \in Nat
  PROVE  /\ b < c => BlockLen(b) = BlockSize
         /\ total = Bytes(c) + n /\ b = c => BlockLen(b) = n
         /\ total = Bytes(c) + n /\ b > c => BlockLen(b) = 0
<1>1. BlockSize \in Nat /\ Bytes(b) \in Nat /\ Bytes(c) \in Nat
  <2>1. Bytes(b) \in Nat /\ Bytes(c) \in Nat
    BY BytesFacts, ZenonT(60)
  <2> QED
    BY <2>1, WriterConstants, ZenonT(60)
<1>2. BlockLen(b) = IF total > Bytes(b) THEN Min2(BlockSize, total - Bytes(b)) ELSE 0
  BY ZenonT(60) DEF BlockLen, Bytes
<1>3. (b < c => Bytes(b) + BlockSize <= Bytes(c)) /\ (c < b => Bytes(c) + BlockSize <= Bytes(b))
  BY BytesFacts, ZenonT(60)
<1>4. BlockSize > 0
  BY WriterConstants
<1> QED
  BY <1>1, <1>2, <1>3, <1>4 DEF Min2

(* The last block is closed. *)
LEMMA LastWhole ==
  ASSUME TypeOK, Flow, Tracked, Placed, Held, CloseLast, Sound', ~Before'
  PROVE  ClosedWhole'
<1>1. /\ Sound /\ Before /\ pc = "close_last" /\ pc' = "complete" /\ offset = 0 /\ len = 0
      /\ faults = {} /\ ufs = "none"
      /\ UNCHANGED <<write_type, flags, total, ufs_file>>
  BY ZenonT(60) DEF CloseLast, Sound, Before, Flow, Held, FaultsEnd, Abort, Caching, Closing
<1>2. /\ committed \in Blocks /\ committed \in Nat /\ total \in Nat /\ bytes_written \in 0 .. BlockSize
      /\ cached \in [Blocks -> [Workers -> 0 .. BlockSize]] /\ Blocks \subseteq Nat
      /\ replica \in [Workers -> Streams] /\ BlockSize \in Nat \ {0}
      /\ Bytes(committed) \in Nat
  <2>1. /\ committed \in Blocks /\ committed \in Nat /\ total \in Nat
        /\ bytes_written \in 0 .. BlockSize
        /\ cached \in [Blocks -> [Workers -> 0 .. BlockSize]] /\ Blocks \subseteq Nat
        /\ replica \in [Workers -> Streams] /\ BlockSize \in Nat \ {0}
    BY WriterConstants DEF TypeOK, Blocks
  <2>2. Bytes(committed) \in Nat
    BY <2>1, BytesFacts, ZenonT(60)
  <2> QED
    BY <2>1, <2>2, ZenonT(60)
<1>3. /\ Bytes(committed) + bytes_written <= total
      /\ should_cache => Bytes(committed) + bytes_written = total
      /\ ufs_write_enabled => UfsWhole
  BY <1>1, <1>2 DEF Placed, UfsWhole, Closing
<1>4. ufs_write_enabled' => UfsWhole'
  BY <1>1, <1>3, ZenonT(60) DEF UfsWhole, ufs_write_enabled
<1>5. \A b \in Blocks, w \in Workers :
        cached[b][w] \in {0, BlockSize} /\ (cached[b][w] > 0 => b < committed)
  <2>1. \A b \in Blocks, w \in Workers : cached[b][w] \in {0, BlockSize}
    BY <1>1, ZenonT(60) DEF Held, BlocksWhole
  <2>2. \A b \in Blocks, w \in Workers : cached[b][w] > 0 => b < committed
    BY <1>1, <1>2, ZenonT(60) DEF Tracked, CommittedTracked
  <2> QED
    BY <2>1, <2>2, ZenonT(60)
<1>6. \A b \in Blocks : BlockLen(b)' = BlockLen(b)
  BY <1>1, ZenonT(60) DEF BlockLen
<1>7. \A b \in Blocks : b < committed => BlockLen(b) = BlockSize
  BY <1>2, <1>3, BlockLengths
<1>8. CASE bytes_written = 0 /\ UNCHANGED <<cached, committed>>
  <2>1. ASSUME NEW b \in Blocks, NEW w \in Workers
        PROVE  cached'[b][w] \in {0, BlockLen(b)'}
    <3>1. cached'[b][w] = cached[b][w] /\ cached[b][w] \in {0, BlockSize}
      <4>1. cached' = cached
        BY <1>8, ZenonT(60)
      <4>2. cached[b][w] \in {0, BlockSize}
        BY <1>5, ZenonT(60)
      <4> QED
        BY <4>1, <4>2, ZenonT(60)
    <3>2. CASE cached[b][w] = BlockSize
      <4>1. b < committed
        BY <1>2, <1>5, <3>2
      <4> QED
        BY <1>6, <1>7, <3>1, <3>2, <4>1, ZenonT(60)
    <3> QED
      BY <3>1, <3>2, ZenonT(60)
  <2>2. ASSUME ~ufs_write_enabled', NEW b \in Blocks, BlockLen(b)' > 0
        PROVE  Cardinality({w \in Workers : cached'[b][w] = BlockLen(b)'}) >= Need'
    <3>1. ~ufs_write_enabled /\ should_cache
      BY <1>1, <2>2, ZenonT(60) DEF ufs_write_enabled, Flow
    <3>2. b < committed
      BY <1>2, <1>3, <1>6, <1>8, <2>2, <3>1, BlockLengths
    <3>3. Cardinality(Holders(b, BlockSize)) >= Need
      BY <1>1, <3>1, <3>2, ZenonT(60) DEF Held, BlocksHeld, CacheOnly
    <3>4. {w \in Workers : cached'[b][w] = BlockLen(b)'} = Holders(b, BlockSize)
      BY <1>6, <1>7, <1>8, <3>2, ZenonT(60) DEF Holders
    <3> QED
      BY <1>1, <3>3, <3>4, ZenonT(60) DEF Need, AsyncThrough
  <2> QED
    BY <1>4, <2>1, <2>2, ZenonT(60) DEF ClosedWhole, CachedWhole, Need
<1>9. ASSUME bytes_written > 0, NEW kept \in SUBSET Live,
             IF pending > 0 THEN Surviving(kept) ELSE kept = Live,
             \A w \in kept : replica[w] # "broken", Commit(kept, bytes_written)
      PROVE  ClosedWhole'
  <2>1. active /\ should_cache /\ Enough(Live) /\ \A w \in Workers : replica[w] # "drained"
    BY <1>1, <1>9 DEF Flow, Held, Replicated
  <2>2. Enough(kept) /\ kept \subseteq Workers /\ \A w \in kept : replica[w] = "open"
    <3>1. Enough(kept)
      BY <1>9, <2>1, StillEnough, ZenonT(60)
    <3>2. kept \subseteq Workers /\ \A w \in kept : replica[w] # "none"
      BY <1>9, ZenonT(60) DEF Live
    <3> QED
      BY <1>2, <1>9, <2>1, <3>1, <3>2, ZenonT(60) DEF Streams
  <2>3. total = Bytes(committed) + bytes_written
    BY <1>3, <2>1, ZenonT(60)
  <2>4. \A b \in Blocks : /\ b = committed => BlockLen(b) = bytes_written
                          /\ b > committed => BlockLen(b) = 0
    BY <1>2, <2>3, BlockLengths
  <2>5. \A b \in Blocks, w \in Workers :
          cached'[b][w] = IF b = committed /\ w \in kept THEN bytes_written ELSE cached[b][w]
    BY <1>2, <1>9, <2>2, ZenonT(60) DEF Commit
  <2>6. ASSUME NEW b \in Blocks, NEW w \in Workers
        PROVE  cached'[b][w] \in {0, BlockLen(b)'}
    <3>1. CASE b = committed /\ w \in kept
      BY <1>6, <2>4, <2>5, <3>1, ZenonT(60)
    <3>2. CASE ~(b = committed /\ w \in kept)
      <4>0. cached'[b][w] = cached[b][w]
        BY <1>2, <2>5, <3>2, ZenonT(60)
      <4>1. cached'[b][w] = cached[b][w] /\ cached[b][w] \in {0, BlockSize}
        <5>1. cached[b][w] \in {0, BlockSize}
          BY <1>5, ZenonT(60)
        <5> QED
          BY <4>0, <5>1, ZenonT(60)
      <4>2. CASE cached[b][w] = BlockSize
        <5>1. b < committed
          BY <1>2, <1>5, <4>2
        <5> QED
          BY <1>6, <1>7, <4>1, <4>2, <5>1, ZenonT(60)
      <4> QED
        BY <4>1, <4>2, ZenonT(60)
    <3> QED
      BY <3>1, <3>2, ZenonT(60)
  <2>7. ASSUME ~ufs_write_enabled', NEW b \in Blocks, BlockLen(b)' > 0
        PROVE  Cardinality({w \in Workers : cached'[b][w] = BlockLen(b)'}) >= Need'
    <3> DEFINE held == {w \in Workers : cached'[b][w] = BlockLen(b)'}
    <3>1. CASE b < committed
      <4>1. Cardinality(Holders(b, BlockSize)) >= Need
        BY <1>1, <2>7, <3>1, ZenonT(60) DEF Held, BlocksHeld, CacheOnly, ufs_write_enabled
      <4>2. held = Holders(b, BlockSize)
        BY <1>2, <1>6, <1>7, <2>5, <3>1 DEF Holders
      <4> QED
        BY <1>1, <4>1, <4>2, ZenonT(60) DEF Need, AsyncThrough
    <3>2. CASE b = committed
      <4>1. kept \subseteq held
        BY <1>6, <2>2, <2>4, <2>5, <3>2, ZenonT(60)
      <4>2. Cardinality(held) >= Need
        BY <2>2, <4>1, EnoughNeed, ZenonT(60)
      <4> QED
        BY <1>1, <4>2, ZenonT(60) DEF Need, AsyncThrough
    <3>3. b < committed \/ b = committed
      BY <1>2, <1>6, <2>4, <2>7
    <3> QED
      BY <3>1, <3>2, <3>3, ZenonT(60)
  <2> QED
    BY <1>4, <2>6, <2>7, ZenonT(60) DEF ClosedWhole, CachedWhole, Need
<1> QED
  BY <1>1, <1>8, <1>9, ZenonT(60) DEF CloseLast, Abort

(* From then on nothing changes but what the master is told. *)
LEMMA ClosedStep ==
  ASSUME TypeOK, Flow, Tracked, Placed, Held, [Next]_vars
  PROVE  ClosedWhole'
<1> SUFFICES ASSUME Sound', ~Before' PROVE ClosedWhole'
  BY ZenonT(60) DEF ClosedWhole
<1>1. CASE CloseLast
  BY <1>1, LastWhole, ZenonT(60)
<1>2. CASE CompleteFile \/ UNCHANGED vars
  <2>1. /\ Sound /\ ~Before
        /\ UNCHANGED <<cached, total, ufs_file, write_type, flags>>
    BY <1>2, ZenonT(60) DEF CompleteFile, Sound, Before, vars, ghosts, world
  <2>2. /\ \A b \in Blocks : BlockLen(b)' = BlockLen(b)
        /\ UfsWhole' = UfsWhole /\ AsyncThrough' = AsyncThrough
        /\ ufs_write_enabled' = ufs_write_enabled
    BY <2>1, ZenonT(60) DEF BlockLen, UfsWhole, AsyncThrough, ufs_write_enabled
  <2> QED
    BY <2>1, <2>2, ZenonT(60) DEF ClosedWhole, CachedWhole, Held
<1>3. pc' \in {"complete", "recover"}
  BY ZenonT(60) DEF Before
<1>4. CASE Next /\ ~CloseLast /\ ~CompleteFile /\ ~Gone
  <2>2. CASE create_with_context \/ EmitAlignedChunks \/ \E n \in 1 .. MaxBytes : write(n)
    BY <1>3, <2>2, ZenonT(60) DEF create_with_context, write, EmitAlignedChunks, Idle, Fail, Abort
  <2>3. CASE NeedsFreshBlock \/ CacheDone \/ OpenNextBlock
    BY <1>3, <2>3, ZenonT(60) DEF NeedsFreshBlock, CacheDone, OpenNextBlock, Idle, Fail, Abort
  <2>4. CASE SwitchBlock \/ HandleCacheWriteException \/ WriteToUfsStream
    BY <1>3, <2>4, ZenonT(60) DEF SwitchBlock, HandleCacheWriteException, WriteToUfsStream, Idle,
       Fail, Abort
  <2>5. CASE WriteDone \/ FlushUfs \/ FlushBlock
    BY <1>3, <2>5, ZenonT(60) DEF WriteDone, FlushUfs, FlushBlock, Idle, Fail, Abort
  <2>6. CASE Close \/ CloseUfs \/ Recover
    BY <1>3, <2>6, ZenonT(60) DEF Close, CloseUfs, Recover, Idle, Fail, Abort
  <2>7. CASE Cancel \/ Drop \/ Cleanup
    BY <1>3, <2>7, ZenonT(60) DEF Cancel, Drop, Cleanup, Idle, Fail, Abort
  <2> QED
    BY <1>4, <2>2, <2>3, <2>4, <2>5, <2>6, <2>7, ZenonT(60) DEF Next
<1> QED
  BY <1>1, <1>2, <1>4, ZenonT(60) DEF Gone

(* Nothing of a file that close() returned Ok for changes any more. *)
LEMMA CompletedStep ==
  ASSUME TypeOK, Flow, Tracked, Held, CompletedWhole, [Next]_vars
  PROVE  CompletedWhole'
<1> SUFFICES ASSUME outcome' = "ok", failed' = {} PROVE Whole'
  BY ZenonT(60) DEF CompletedWhole
<1>1. ASSUME UNCHANGED <<cached, total, ufs_file, write_type, flags>>
      PROVE  /\ \A b \in Blocks : BlockLen(b)' = BlockLen(b)
             /\ UfsWhole' = UfsWhole /\ CachedWhole' = CachedWhole
             /\ ufs_write_enabled' = ufs_write_enabled
  BY <1>1, ZenonT(60) DEF BlockLen, UfsWhole, CachedWhole, AsyncThrough, ufs_write_enabled
<1>2. CASE CompleteFile
  <2>1. /\ Sound /\ ~Before /\ inode' = "complete" /\ length' = total'
        /\ UNCHANGED <<cached, total, ufs_file, write_type, flags>>
    BY <1>2, ZenonT(60) DEF CompleteFile, Sound, Before, Flow, Closing
  <2>2. ClosedWhole
    BY ZenonT(60) DEF Held
  <2> QED
    BY <1>1, <2>1, <2>2 DEF ClosedWhole, Whole
<1>3. CASE Recover
  <2>1. /\ Sound /\ ~Before /\ inode' = "complete" /\ length' = ufs_file /\ completed
        /\ cached' = NothingCached /\ UNCHANGED <<total, ufs_file, flags>>
    BY <1>3, ZenonT(60) DEF Recover, Sound, Before, Flow, Closing
  <2>2. ufs_file = total
    BY <2>1, ZenonT(60) DEF Flow, Tracked, Held, ClosedWhole, UfsWhole
  <2>3. \A b \in Blocks, w \in Workers : cached'[b][w] = 0
    BY <2>1, ZenonT(60) DEF NothingCached
  <2> QED
    BY <2>1, <2>2, <2>3, ZenonT(60) DEF Whole, UfsWhole
<1>4. CASE Drop \/ UNCHANGED vars
  <2>1. /\ outcome = "ok" /\ failed = {}
        /\ UNCHANGED <<cached, total, ufs_file, write_type, flags, inode, length>>
    BY <1>4, ZenonT(60) DEF Drop, vars, ghosts, world
  <2> QED
    BY <1>1, <2>1 DEF CompletedWhole, Whole
<1>5. CASE Next /\ ~CompleteFile /\ ~Recover /\ ~Drop /\ ~Gone
  <2>1. outcome = "ok" => closed /\ pc \in {"idle", "gone"}
    BY ZenonT(60) DEF Flow
  <2>2. CASE create_with_context \/ EmitAlignedChunks \/ \E n \in 1 .. MaxBytes : write(n)
    BY <2>1, <2>2, ZenonT(60) DEF create_with_context, write, EmitAlignedChunks, closed, ghosts,
       Abort
  <2>3. CASE NeedsFreshBlock \/ CacheDone \/ OpenNextBlock
    BY <2>1, <2>3, ZenonT(60) DEF NeedsFreshBlock, CacheDone, OpenNextBlock, closed, ghosts, Abort
  <2>4. CASE SwitchBlock \/ HandleCacheWriteException \/ WriteToUfsStream
    BY <2>1, <2>4, ZenonT(60) DEF SwitchBlock, HandleCacheWriteException, WriteToUfsStream,
       closed, ghosts, Abort
  <2>5. CASE WriteDone \/ FlushUfs \/ FlushBlock
    BY <2>1, <2>5, ZenonT(60) DEF WriteDone, FlushUfs, FlushBlock, closed, ghosts, Abort
  <2>6. CASE Close \/ CloseUfs \/ CloseLast
    BY <2>1, <2>6, ZenonT(60) DEF Close, CloseUfs, CloseLast, closed, ghosts, Abort
  <2>7. CASE Cancel \/ Cleanup
    BY <2>1, <2>7, ZenonT(60) DEF Cancel, Cleanup, closed, ghosts, Abort
  <2> QED
    BY <1>5, <2>2, <2>3, <2>4, <2>5, <2>6, <2>7, ZenonT(60) DEF Next
<1> QED
  BY <1>2, <1>3, <1>4, <1>5, ZenonT(60) DEF Gone

----------------------------------------------------------------------------
\* A new writer has written nothing.
LEMMA WriterStart == Init => WriterInv
<1> SUFFICES ASSUME Init PROVE WriterInv
  BY ZenonT(60)
<1> USE DEF Init
<1>1. TypeOK
  BY WriterConstants DEF TypeOK, Blocks, Flags, Locations, Streams, NoReplica, NothingCached, NoFile
<1>2. Flow
  BY ZenonT(60) DEF Flow, Caching, Closing, active, cancelled, closed, should_cache,
     ufs_write_enabled,
     block_opened, completed, UfsStream, CacheStream
<1>3. Bounded /\ Placed
  <2>1. Bytes(committed) = 0
    BY BytesFacts, ZenonT(60)
  <2> QED
    BY <2>1 DEF Bounded, Placed, Closing
<1>4. Tracked
  BY DEF Tracked, CommittedTracked, CancelCleans, NothingCached, AsyncThrough, UfsStream,
     ufs_write_enabled
<1>5. Held
  BY WriterConstants DEF Held, FaultsEnd, Replicated, BlocksWhole, BlocksHeld, ClosedWhole,
     Before, active, NothingCached, Blocks
<1>6. CompletedWhole
  BY ZenonT(60) DEF CompletedWhole
<1> QED
  BY <1>1, <1>2, <1>3, <1>4, <1>5, <1>6, ZenonT(60) DEF WriterInv

\* Every step of the writer keeps the inductive invariant.
LEMMA WriterStep == WriterInv /\ [Next]_vars => WriterInv'
<1> SUFFICES ASSUME WriterInv, [Next]_vars PROVE WriterInv'
  BY ZenonT(60)
<1>1. TypeOK /\ Flow /\ Bounded /\ Tracked /\ Placed /\ Held /\ CompletedWhole
  BY ZenonT(60) DEF WriterInv
<1>2. FaultsEnd /\ Replicated /\ BlocksWhole /\ BlocksHeld
  BY <1>1, ZenonT(60) DEF Held
<1>3. TypeOK' /\ Flow'
  BY <1>1, TypeStep, FlowStep, ZenonT(60)
<1>4. Bounded'
  BY <1>1, CountsStep, BytesStep, ZenonT(60) DEF Bounded
<1>5. Tracked'
  BY <1>1, TrackedStep, AsyncStep, ZenonT(60) DEF Tracked
<1>6. Placed'
  BY <1>1, PlacedStep, ZenonT(60)
<1>7. Held'
  BY <1>1, <1>2, FaultsStep, ReplicasStep, BlocksStep, HeldStep, ClosedStep, ZenonT(60) DEF Held
<1>8. CompletedWhole'
  BY <1>1, CompletedStep, ZenonT(60)
<1> QED
  BY <1>3, <1>4, <1>5, <1>6, <1>7, <1>8, ZenonT(60) DEF WriterInv

\* The inductive invariant holds throughout.
LEMMA WriterInvariance == Spec => []WriterInv
  BY WriterStart, WriterStep, PTL DEF Spec

(* When close() returns Ok and no call of the writer has failed, the master   *)
(* has the file complete with the length written, and every byte is where     *)
(* the write type promises it; no worker holds a torn block.                  *)
THEOREM FileIsWhole == Spec => []CompletedWhole
  BY WriterInvariance, PTL DEF WriterInv

(* Every block a worker has committed is one the cleanup names, a cleanup     *)
(* whose RPCs work leaves none, and an ASYNC_THROUGH file is never partly on  *)
(* the workers and partly on the UFS.                                         *)
THEOREM BlocksAreTracked == Spec => []BlocksTracked
<1>1. WriterInv => BlocksTracked
  <2> SUFFICES ASSUME WriterInv PROVE BlocksTracked
    BY ZenonT(60)
  <2>1. TypeOK /\ CommittedTracked /\ CancelCleans
    BY ZenonT(60) DEF WriterInv, Tracked
  <2>2. AsyncNeverSplit
    BY ZenonT(60) DEF WriterInv, Tracked, Flow, AsyncNeverSplit
  <2> QED
    BY <2>1, <2>2, ZenonT(60) DEF BlocksTracked
<1> QED
  BY <1>1, WriterInvariance, PTL
============================================================================
