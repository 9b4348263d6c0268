----------------------------- MODULE MCStreams -----------------------------
(***************************************************************************)
(* Files written and read, in the SDK and through the Python bindings, for *)
(* TLC: FileWriter, ReplicaWrite (how it opens a block), FileReader,       *)
(* PyReader and PyWriter (the bindings' file objects), PyGoosefs (their    *)
(* file system objects) and Checksum (the CRC sent with a written file).   *)
(* Each behaviour runs one of them, named by on; the others stay in one of *)
(* their initial states or are off.                                        *)
(***************************************************************************)
EXTENDS FileWriter, TLC

CONSTANTS
    FileLength, ReadBlockSize, PageSize, Contexts, ReadWorkers, Gap,
    ReadMaxBytes, RangeLists, MaxVersion, MaxFaults,
    AsyncTasks, SyncThreads, PyFileLength, PREFETCH_HINT, MaxSize, MaxReads,
    MaxFailed,
    Tasks, MaxData, MaxBroken,
    Clients, Forked, BATCH_CONCURRENCY_LIMIT,
    RESOURCE_BATCH_CONCURRENCY_LIMIT, MaxPaths, MaxCalls,
    Nodes, Counts, Stocks, min_remain_bytes, min_remain_tenths, cache_tenths,
    Sequence, MaxRefused,
    Data, MaxWritten

VARIABLES on,
          ver, blocks, meta, identity, pages, checked, rd_failed, rd_faults,
          rd_pc, call, fetches, plans, todo, segs, buf, chunks, got, bufs,
          worker, result,
          reader_kind, inner, holder, prefetch, step, ask, parked, pulled,
          given, due, reads, failures,
          kind, slot, guard, busy, doing, told, file, data, size, body,
          explicit, asked, broken,
          class, handle, context, at, method, paths, fate, yielded, streams,
          readers, pg_result, calls,
          conf, blacklist, stage, use_all, pool, initial, min_needed, opened,
          listed, excused, error, refused,
          writer_checksum_type, checksum, written, crc

source == INSTANCE FileReader
    WITH BlockSize <- ReadBlockSize, Workers <- ReadWorkers, MaxBytes <-
         ReadMaxBytes, failed <- rd_failed, faults <- rd_faults, pc <- rd_pc
reader == INSTANCE PyReader
    WITH FileLength <- PyFileLength, reader <- reader_kind
saver == INSTANCE PyWriter
client == INSTANCE PyGoosefs
    WITH result <- pg_result
opener == INSTANCE ReplicaWrite
sum == INSTANCE Checksum WITH MaxLength <- MaxWritten

ASSUME BindingsAssumption ==
    /\ reader!ReaderAssumption /\ client!BatchAssumption
    /\ IsFiniteSet(Tasks) /\ saver!SaverAssumption

sourceVars == <<ver, blocks, meta, identity, pages, checked, rd_failed,
    rd_faults, rd_pc, call, fetches, plans, todo, segs, buf, chunks, got,
    bufs, worker, result>>
readerVars == <<reader_kind, inner, holder, prefetch, step, ask, parked,
    pulled, given, due, reads, failures>>
saverVars == <<kind, slot, guard, busy, doing, told, file, data, size, body,
    explicit, asked, broken>>
clientVars == <<class, handle, context, at, method, paths, fate, yielded,
    streams, readers, pg_result, calls>>
openerVars == <<conf, blacklist, stage, use_all, pool, initial, min_needed,
    opened, listed, excused, error, refused>>
sumVars == <<writer_checksum_type, checksum, written, crc>>
all == <<on, vars, sourceVars, readerVars, saverVars, clientVars, openerVars, sumVars>>

\* The values of its variables while FileReader does not run.
sourceOff ==
    /\ ver = 0 /\ blocks = 0 /\ meta = 0 /\ identity = 0 /\ pages = 0
    /\ checked = 0 /\ rd_failed = 0 /\ rd_faults = 0 /\ rd_pc = 0
    /\ call = 0 /\ fetches = 0 /\ plans = 0 /\ todo = 0 /\ segs = 0
    /\ buf = 0 /\ chunks = 0 /\ got = 0 /\ bufs = 0 /\ worker = 0
    /\ result = 0

\* The values of its variables while PyReader does not run.
readerOff ==
    /\ reader_kind = 0 /\ inner = 0 /\ holder = 0 /\ prefetch = 0
    /\ step = 0 /\ ask = 0 /\ parked = 0 /\ pulled = 0 /\ given = 0
    /\ due = 0 /\ reads = 0 /\ failures = 0

\* The values of its variables while PyWriter does not run.
saverOff ==
    /\ kind = 0 /\ slot = 0 /\ guard = 0 /\ busy = 0 /\ doing = 0
    /\ told = 0 /\ file = 0 /\ data = 0 /\ size = 0 /\ body = 0
    /\ explicit = 0 /\ asked = 0 /\ broken = 0

\* The values of its variables while PyGoosefs does not run.
clientOff ==
    /\ class = 0 /\ handle = 0 /\ context = 0 /\ at = 0 /\ method = 0
    /\ paths = 0 /\ fate = 0 /\ yielded = 0 /\ streams = 0 /\ readers = 0
    /\ pg_result = 0 /\ calls = 0

\* The values of its variables while ReplicaWrite does not run.
openerOff ==
    /\ conf = 0 /\ blacklist = 0 /\ stage = 0 /\ use_all = 0 /\ pool = 0
    /\ initial = 0 /\ min_needed = 0 /\ opened = 0 /\ listed = 0
    /\ excused = 0 /\ error = 0 /\ refused = 0

\* The values of its variables while Checksum does not run.
sumOff == writer_checksum_type = 0 /\ checksum = 0 /\ written = 0 /\ crc = 0

\* The bytes 0x00, 0x31, 0x80 and 0xff.
SomeBytes == {{}, {0, 4, 5}, {7}, 0 .. 7}

\* Workers with room, nearly full, and closed to writes.
SomeStocks ==
    {[capacity |-> 10, used |-> 0, forbid |-> FALSE],
     [capacity |-> 10, used |-> 9, forbid |-> FALSE],
     [capacity |-> 10, used |-> 0, forbid |-> TRUE]}

\* Ranges apart and near, out of order, nested, empty, equal, longer than the cap.
Span(o, l) == [offset |-> o, len |-> l]
InFile ==
    {<<Span(3, 2)>>,
     <<Span(0, 5), Span(2, 2)>>,
     <<Span(4, 2), Span(1, 0), Span(0, 2), Span(4, 2)>>}

\* The workers of FileWriter are interchangeable.
WorkerSymmetry == Permutations(Workers)

SuiteInit ==
    /\ on \in {"writer", "source", "reader", "saver", "client", "opener", "sum"}
    /\ Init /\ (on # "writer" => write_type = "MUST_CACHE")
    /\ IF on = "source" THEN source!Init ELSE sourceOff
    /\ IF on = "reader" THEN reader!Init ELSE readerOff
    /\ IF on = "saver" THEN saver!Init ELSE saverOff
    /\ IF on = "client" THEN client!Init ELSE clientOff
    /\ IF on = "opener" THEN opener!Init ELSE openerOff
    /\ IF on = "sum" THEN sum!Init ELSE sumOff

SuiteNext ==
    \/ on = "writer" /\ Next /\ UNCHANGED <<on, sourceVars, readerVars, saverVars, clientVars, openerVars, sumVars>>
    \/ on = "source" /\ source!Next /\ UNCHANGED <<on, vars, readerVars, saverVars, clientVars, openerVars, sumVars>>
    \/ on = "reader" /\ reader!Next /\ UNCHANGED <<on, vars, sourceVars, saverVars, clientVars, openerVars, sumVars>>
    \/ on = "saver" /\ saver!Next /\ UNCHANGED <<on, vars, sourceVars, readerVars, clientVars, openerVars, sumVars>>
    \/ on = "client" /\ client!Next /\ UNCHANGED <<on, vars, sourceVars, readerVars, saverVars, openerVars, sumVars>>
    \/ on = "opener" /\ opener!Next /\ UNCHANGED <<on, vars, sourceVars, readerVars, saverVars, clientVars, sumVars>>
    \/ on = "sum" /\ sum!Next /\ UNCHANGED <<on, vars, sourceVars, readerVars, saverVars, clientVars, openerVars>>

SuiteSpec == SuiteInit /\ [][SuiteNext]_all

----------------------------------------------------------------------------
\* A read returns every byte of its ranges, from the version of the file it
\* opened, or fails; coalesced ranges stay within the gap and the cap; and a
\* segment lies in the block its options describe (FileReader).
ReadWhole ==
    on = "source" => /\ source!TypeOK /\ source!ReadWhole /\ source!VersionAsOpened
                     /\ source!MergeBounded /\ source!SegmentInUfsBlock

\* The reads of a Python reader hand out the file in order, and between calls
\* tell() is where the next one starts (PyReader).
ReadsInOrder ==
    /\ [](on = "reader" => reader!TypeOK /\ reader!TellExact)
    /\ [][on = "reader" => reader!InOrder]_readerVars

\* A Python writer ends its file once, and a with block left by an exception
\* does not commit it (PyWriter).
EndedOnce ==
    /\ [](on = "saver" => saver!TypeOK /\ saver!RaisedNeverCommits)
    /\ [][on = "saver" => saver!StaysEnded]_saverVars

\* A batch raises the first failing path in input order, never has more calls
\* in flight than its window, and drops the streams of a failed batch
\* (PyGoosefs).
BatchSound == on = "client" => client!BatchSound

\* An open block has the replicas it is promised, asynchronous data goes only
\* where it fits, and a block is given up only after every usable worker
\* (ReplicaWrite); and the checksum sent with a file is the CRC of its bytes,
\* however the writes split them (Checksum).
BlocksWritten ==
    /\ on = "opener" => /\ opener!TypeOK /\ opener!ReplicasPromised /\ opener!SpaceRespected
                        /\ opener!GivesUpLast
    /\ on = "sum" => sum!TypeOK /\ sum!ChecksumOfFile
=============================================================================
