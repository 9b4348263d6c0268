---------------------------- MODULE MCFileSystem ----------------------------
(***************************************************************************)
(* Configuration and metadata for TLC: MetadataCache, Config (the layers   *)
(* of a configuration), CallOptions (what a caller asks, on its way to the *)
(* master), FileSystem (the status, listing and write-type logic of the    *)
(* file system object), PositionedRead (the bindings' direct block reads)  *)
(* and Names (cache keys, metric names, URL segments and block ids). Each  *)
(* behaviour runs one of them, named by on; the others stay in one of      *)
(* their initial states or are off.                                        *)
(***************************************************************************)
EXTENDS MetadataCache, TLC

CONSTANTS
    Hosts, PageCache, MetaCache, Uring, Pushgateway,
    Workers, BlockSize, MaxLength, MaxSteps, MaxFaults,
    BlockBytes, MaxBytes, MaxAsk, MaxExpired, MaxQueries,
    Sizes, MaxItems, MaxCalls,
    MaxText, FileIds, SeqBits, IdBits

VARIABLES on,
          phase, text, value, addr, given, files,
          config, parent, file, held, cached, op, info, wt, reply, steps,
          faults,
          uri_status, query, block, where, wrapper, handshakes, bytes,
          verdict, expired, queries,
          defaults, call, message, lookup, ids, raised, items, pos,
          name, block_ids

settings == INSTANCE Config
fs == INSTANCE FileSystem
blocks == INSTANCE PositionedRead
    WITH status <- uri_status
options == INSTANCE CallOptions
    WITH config <- defaults
names == INSTANCE Names
    WITH ids <- block_ids

settingsVars == <<phase, text, value, addr, given, files>>
fsVars == <<config, parent, file, held, cached, op, info, wt, reply, steps,
    faults>>
blocksVars == <<uri_status, query, block, where, wrapper, handshakes, bytes,
    verdict, expired, queries>>
optionsVars == <<defaults, call, message, lookup, ids, raised, items, pos>>
namesVars == <<name, block_ids>>
all == <<on, vars, settingsVars, fsVars, blocksVars, optionsVars, namesVars>>

\* The values of its variables while Config does not run.
settingsOff ==
    /\ phase = 0 /\ text = 0 /\ value = 0 /\ addr = 0 /\ given = 0 /\ files = 0

\* The values of its variables while PositionedRead does not run.
blocksOff ==
    /\ uri_status = 0 /\ query = 0 /\ block = 0 /\ where = 0 /\ wrapper = 0
    /\ handshakes = 0 /\ bytes = 0 /\ verdict = 0 /\ expired = 0
    /\ queries = 0

\* The values of its variables while CallOptions does not run.
optionsOff ==
    /\ defaults = 0 /\ call = 0 /\ message = 0 /\ lookup = 0 /\ ids = 0
    /\ raised = 0 /\ items = 0 /\ pos = 0

\* The files and the tasks of MetadataCache are interchangeable.
FileTaskSymmetry == Permutations(Files) \cup Permutations(Tasks)

SuiteInit ==
    /\ on \in {"metadata", "config", "fs", "blocks", "options", "names"}
    /\ Init
    /\ IF on = "config" THEN settings!Init ELSE settingsOff
    /\ fs!Init /\ (on # "fs" => config.check = 0 /\ config.write_type = "none" /\ parent = "none")
    /\ IF on = "blocks" THEN blocks!Init ELSE blocksOff
    /\ IF on = "options" THEN options!Init ELSE optionsOff
    /\ IF on = "names" THEN names!Init ELSE name = 0 /\ block_ids = 0

SuiteNext ==
    \/ on = "metadata" /\ Next /\ UNCHANGED <<on, settingsVars, fsVars, blocksVars, optionsVars, namesVars>>
    \/ on = "config" /\ settings!Next /\ UNCHANGED <<on, vars, fsVars, blocksVars, optionsVars, namesVars>>
    \/ on = "fs" /\ fs!Next /\ UNCHANGED <<on, vars, settingsVars, blocksVars, optionsVars, namesVars>>
    \/ on = "blocks" /\ blocks!Next /\ UNCHANGED <<on, vars, settingsVars, fsVars, optionsVars, namesVars>>
    \/ on = "options" /\ options!Next /\ UNCHANGED <<on, vars, settingsVars, fsVars, blocksVars, namesVars>>
    \/ on = "names" /\ names!Next /\ UNCHANGED <<on, vars, settingsVars, fsVars, blocksVars, optionsVars>>

SuiteSpec == SuiteInit /\ [][SuiteNext]_all

----------------------------------------------------------------------------
\* The environment decides, then the file, then the default; a text means the
\* same in both; no source brings a value outside its domain into a connected
\* context, whose page cache and readers are usable with the options made of
\* them; the master addresses come from one source; and of several properties
\* files only the first is read (Config).
ConfigLayered ==
    on = "config" => /\ settings!TypeOK /\ settings!LayerOrder /\ settings!LayersAgree
                     /\ settings!DomainsKept /\ settings!OptionsUsable /\ settings!MastersOneSource
                     /\ settings!FirstFileDecides

\* Every offset of a file is found in its block, whatever order the master
\* lists the blocks in; the cached percentage is that of the bytes workers
\* hold, and agrees with the one reported without a probe; the metadata cache
\* holds statuses as the master sent them; and the write type of a new file
\* comes from its parent before the configuration (FileSystem).
StatusSound ==
    /\ [](on = "fs" => /\ fs!TypeOK /\ fs!OffsetsFound /\ fs!PercentSound
                       /\ fs!EstimateAgrees /\ fs!CacheUnenriched)
    /\ fs!ParentBeforeConfig

\* A positioned read returns the bytes of the block it names, and the
\* under-storage options sent with it are those of that block
\* (PositionedRead).
ReadsTheBlock ==
    on = "blocks" => /\ blocks!TypeOK /\ blocks!ReadsTheBlock /\ blocks!UfsDescribesBlock

\* A message to the master leaves nothing to its zeros that has another
\* default, says what the caller asked, and is sent past the cache when the
\* caller wants the master's state; what comes back keeps its meaning
\* (CallOptions). The key a changed entry invalidates is that of the cached
\* listing, a metric's name is valid, a label stays one URL segment, and no
\* two blocks have one id (Names).
OptionsCarried ==
    /\ on = "options" => /\ options!TypeOK /\ options!NothingLeftOpen /\ options!AskedIsSent
                         /\ options!FreshIsFetched /\ options!ResultsFaithful
    /\ on = "names" => /\ names!TypeOK /\ names!KeysMeet /\ names!MetricNamesValid
                       /\ names!SegmentsKept /\ names!BlockIdsApart
=============================================================================
