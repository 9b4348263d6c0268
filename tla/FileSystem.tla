----------------------------- MODULE FileSystem -----------------------------
(***************************************************************************)
(* BaseFileSystem: the calls an application makes on one file of one       *)
(* directory, while the file is written, persisted and evicted and the     *)
(* write type kept in the directory's extended attribute changes.          *)
(*                                                                         *)
(* create_file and write_file first settle the write type, asking the      *)
(* master for the parent; get_status takes the master's FileInfo (from the *)
(* metadata cache, see MetadataCache.tla), then asks the workers which     *)
(* blocks they hold or estimates how much of the file is in GooseFS, and   *)
(* hands out a URIStatus.  The master lists a file's blocks in any order   *)
(* and never fills block_ids or in_goose_fs_percentage.                    *)
(***************************************************************************)
EXTENDS Integers, Sequences, FiniteSets, SequencesExt, FiniteSetsExt

CONSTANTS Workers,       \* the workers probed for every block
          BlockSize,     \* block_size_bytes
          MaxLength,     \* bound on the length of the file
          MaxSteps,      \* bound on what others do to the file and directory
          MaxFaults      \* bound on parents that cannot be fetched

Types == {"MustCache", "CacheThrough", "Through", "AsyncThrough"}

VARIABLES
    config,    \* check_block_replicas and write_type of the configuration
    parent,    \* the directory's innerWriteType: a type, "none" or "unknown"
    file,      \* the master's FileInfo, or Absent
    held,      \* held[i]: the workers that hold block i of the file
    cached,    \* the metadata cache's entry for the file
    op,        \* the call under way
    info,      \* the FileInfo it works on
    wt,        \* the write type it settled on
    reply,     \* the URIStatus handed out by the last step, and by which call
    steps,     \* what others have done
    faults     \* parents that could not be fetched
master == <<parent, file, held>>
call == <<op, info, wt>>
bounds == <<steps, faults>>
vars == <<config, master, cached, call, reply, bounds>>

----------------------------------------------------------------------------
(* FileInfo and URIStatus *)

NumBlocks(length) == (length + BlockSize - 1) \div BlockSize

(* ufs_block_length *)
ufs_block_length(length, i) ==
    LET left == length - i * BlockSize
    IN  IF left < 0 THEN 0 ELSE IF left > BlockSize THEN BlockSize ELSE left

(* The id of the block with index i: any injective numbering. *)
BlockId(i) == 7 + i
BlockInfo(length, i, locations) ==
    [id |-> BlockId(i), offset |-> i * BlockSize,
     length |-> ufs_block_length(length, i), locations |-> locations]

Absent == [exists |-> FALSE, folder |-> FALSE, completed |-> FALSE, length |-> 0,
           cacheable |-> FALSE, persistence |-> "", infos |-> <<>>, ids |-> <<>>,
           percent |-> 0]
NoEntry == [Absent EXCEPT !.persistence = "no entry"]
NoAnswer == [op |-> "none", st |-> Absent]
persisted(fi) == fi.persistence = "PERSISTED"

(* ensure_block_ids_from_file_block_infos *)
ensure_block_ids(fi) ==
    IF fi.ids # <<>> \/ fi.infos = <<>> THEN fi
    ELSE LET byOffset == SortSeq(fi.infos, LAMBDA a, b : a.offset < b.offset)
         IN  [fi EXCEPT !.ids = [i \in DOMAIN byOffset |-> byOffset[i].id]]

from_proto(fi) == ensure_block_ids(fi)
is_readable(st) == st.folder \/ st.completed

block_index_for_offset(st, offset) == offset \div BlockSize
offset_in_block(st, offset) == offset % BlockSize

(* Mutant of recompute: a located block counts as a full one. *)
recomputeFullBlocks(fi) ==
    IF fi.length = 0 THEN [fi EXCEPT !.percent = 100]
    ELSE LET located == {i \in DOMAIN fi.infos : fi.infos[i].locations # {}}
         IN  [fi EXCEPT !.percent = (Cardinality(located) * BlockSize * 100) \div fi.length]

(* recompute_in_goosefs_percentage: a located block counts as a whole. *)
recompute(fi) ==
    IF fi.length = 0 THEN [fi EXCEPT !.percent = 100]
    ELSE LET located == {i \in DOMAIN fi.infos : fi.infos[i].locations # {}}
             size == FoldSet(LAMBDA i, n : n + fi.infos[i].length, 0, located)
         IN  [fi EXCEPT !.percent = Min({(size * 100) \div fi.length, 100})]

(* fill_in_goosefs_percentage_without_probe *)
fill_without_probe(fi) ==
    IF fi.folder THEN fi
    ELSE IF \/ fi.length = 0
            \/ fi.persistence = "TO_BE_PERSISTED"
            \/ fi.completed /\ fi.cacheable /\ fi.persistence \in {"", "NOT_PERSISTED"}
         THEN [fi EXCEPT !.percent = 100]
    ELSE recompute(fi)

(* A block with the workers of a set that hold it as its locations. *)
Located(block, ws) ==
    [block EXCEPT !.locations = held[block.offset \div BlockSize] \cap ws]

(* The workers that answered CheckBlocks are believed; when none did, the     *)
(* locations the master gave stay (apply_probed_locations).                   *)
probed(fi, answered) ==
    IF answered = {} THEN fi
    ELSE [fi EXCEPT !.infos = [i \in DOMAIN @ |-> Located(@[i], answered)]]

(* enrich_file_block_locations: nothing is probed or computed for a file      *)
(* without blocks.                                                            *)
enrich(fi, answered) ==
    IF fi.infos = <<>> THEN fi
    ELSE recompute(probed(ensure_block_ids(fi), answered))

----------------------------------------------------------------------------
(* The calls *)

Return == op' = "idle" /\ info' = Absent /\ wt' = "none"

(* get_status_through_cache: a completed or an absent entry is served, unless *)
(* the caller asks for a sync; an answer of the master is always inserted.    *)
Serves(sync) == ~sync /\ cached # NoEntry /\ (cached.exists => cached.completed)

get_status_with_options(o, sync) ==
    /\ op = "idle"
    /\ o \in {"get_status", "exists"}
    /\ IF Serves(sync)
       THEN /\ op' = IF cached.exists THEN o ELSE "idle"
            /\ info' = cached
            /\ UNCHANGED <<cached, wt>>
       ELSE \/ op' = o /\ file.exists /\ info' = file /\ cached' = file /\ UNCHANGED wt
            \/ Return /\ ~file.exists /\ cached' = file
            \/ Return /\ UNCHANGED cached
    /\ reply' = NoAnswer
    /\ UNCHANGED <<config, master, bounds>>

(* exists: an incomplete file does not, nor does one that is not found. *)
exists(st) == IF is_readable(st) THEN st ELSE Absent

(* The rest of get_status_with_options: the probe of the workers (any of them *)
(* may fail to answer), or the estimate; then the URIStatus.                  *)
Finish ==
    /\ op \in {"get_status", "exists"}
    /\ \E answered \in SUBSET Workers :
         LET st == from_proto(IF config.check > 0 THEN enrich(info, answered)
                              ELSE fill_without_probe(ensure_block_ids(info)))
         IN  reply' = [op |-> op, st |-> IF op = "exists" THEN exists(st) ELSE st]
    /\ Return
    /\ UNCHANGED <<config, master, cached, bounds>>

(* list_status_with_options: listings keep what the master reports. *)
list_status ==
    /\ op = "idle"
    /\ reply' = [op |-> "list_status", st |-> from_proto(file)]
    /\ UNCHANGED <<config, master, cached, call, bounds>>

(* Steps 3 and 4 of resolve_write_type: the configuration, MustCache. *)
config_write_type == IF config.write_type # "none" THEN config.write_type ELSE "MustCache"

(* resolve_write_type: what the caller asked for, the parent's attribute, the *)
(* configuration; a parent that cannot be fetched is passed over.             *)
resolve_write_type(options) ==
    IF options # "Inherit" THEN wt' = options /\ UNCHANGED faults
    ELSE \/ /\ wt' = IF parent \in Types THEN parent ELSE config_write_type
            /\ UNCHANGED faults
         \/ wt' = config_write_type /\ faults < MaxFaults /\ faults' = faults + 1

(* create_file and write_file: once the type is settled the file is created;  *)
(* the writer drops the cached entry.                                         *)
Resolve(options) ==
    /\ op = "idle"
    /\ options \in Types \cup {"Inherit"}
    /\ op' = IF options = "Inherit" THEN "create" ELSE "createAs"
    /\ resolve_write_type(options)
    /\ reply' = NoAnswer
    /\ UNCHANGED <<config, master, cached, info, steps>>

create_file ==
    /\ op \in {"create", "createAs"}
    /\ \/ /\ ~file.exists
          /\ file' = [Absent EXCEPT !.exists = TRUE, !.cacheable = wt # "Through",
                        !.persistence = IF wt = "AsyncThrough" THEN "TO_BE_PERSISTED"
                                        ELSE "NOT_PERSISTED"]
          /\ cached' = NoEntry
       \/ UNCHANGED <<file, cached>>
    /\ Return
    /\ reply' = NoAnswer
    /\ UNCHANGED <<config, parent, held, bounds>>

(* delete, and a rename away: applied at the master and then dropped from the *)
(* cache, or reported as an error, applied or not.                            *)
delete ==
    /\ op = "idle" /\ file.exists
    /\ \/ file' = Absent /\ held' = [i \in DOMAIN held |-> {}] /\ cached' \in {NoEntry, cached}
       \/ UNCHANGED <<file, held, cached>>
    /\ reply' = NoAnswer
    /\ UNCHANGED <<config, parent, call, bounds>>

----------------------------------------------------------------------------
(* What others do: the writer completes the file, the persist job runs,       *)
(* workers evict and load blocks of a persisted file, the master learns which *)
(* blocks they hold, the directory's attribute is set.                        *)

Permuted(infos) == {[i \in DOMAIN infos |-> infos[p[i]]] :
                      p \in {q \in [DOMAIN infos -> DOMAIN infos] : IsInjective(q)}}

Complete ==
    /\ file.exists /\ ~file.completed
    /\ \E length \in 0 .. MaxLength, w \in Workers, through \in BOOLEAN :
         LET infos == [i \in 1 .. NumBlocks(length) |->
                         BlockInfo(length, i - 1, IF file.cacheable THEN {w} ELSE {})]
         IN  /\ ~file.cacheable => through
             /\ \E listed \in Permuted(infos) :
                  file' = [file EXCEPT !.completed = TRUE, !.length = length,
                             !.infos = listed,
                             !.persistence = IF through THEN "PERSISTED" ELSE @]
             /\ held' = [i \in DOMAIN held |->
                           IF file.cacheable /\ i < NumBlocks(length) THEN {w} ELSE {}]
    /\ cached' \in {NoEntry, cached}
    /\ reply' = NoAnswer
    /\ UNCHANGED <<config, parent, call, bounds>>

Others ==
    /\ steps < MaxSteps /\ steps' = steps + 1
    /\ \/ /\ file.completed
          /\ file' = [file EXCEPT !.persistence = "PERSISTED"]
          /\ UNCHANGED <<parent, held>>
       \/ /\ persisted(file)
          /\ \E i \in 0 .. NumBlocks(file.length) - 1, ws \in SUBSET Workers :
               held' = [held EXCEPT ![i] = ws]
          /\ UNCHANGED <<parent, file>>
       \/ /\ file' = [file EXCEPT !.infos = [i \in DOMAIN @ |-> Located(@[i], Workers)]]
          /\ UNCHANGED <<parent, held>>
       \/ parent' \in Types \cup {"none", "unknown"} /\ UNCHANGED <<file, held>>
    /\ reply' = NoAnswer
    /\ UNCHANGED <<config, cached, call, faults>>

Init ==
    /\ config \in [check : {0, 1}, write_type : {"none", "CacheThrough"}]
    /\ parent \in {"none", "unknown", "Through"}
    /\ file = Absent
    /\ held = [i \in 0 .. NumBlocks(MaxLength) - 1 |-> {}]
    /\ cached = NoEntry
    /\ op = "idle" /\ info = Absent /\ wt = "none"
    /\ reply = NoAnswer
    /\ steps = 0 /\ faults = 0

Next ==
    \/ \E sync \in BOOLEAN : \E o \in {"get_status", "exists"} : get_status_with_options(o, sync)
    \/ Finish \/ list_status \/ create_file \/ delete
    \/ \E options \in Types \cup {"Inherit"} : Resolve(options)
    \/ Complete \/ Others

Spec == Init /\ [][Next]_vars

----------------------------------------------------------------------------
TypeOK ==
    /\ config \in [check : {0, 1}, write_type : Types \cup {"none"}]
    /\ parent \in Types \cup {"none", "unknown"}
    /\ DOMAIN file = DOMAIN Absent /\ file.length \in 0 .. MaxLength
    /\ \A i \in DOMAIN held : held[i] \subseteq Workers
    /\ op \in {"idle", "get_status", "exists", "create", "createAs"}
    /\ wt \in Types \cup {"none"}
    /\ steps \in 0 .. MaxSteps /\ faults \in 0 .. MaxFaults

(* Every byte of a status handed out is found in the block that              *)
(* block_index_for_offset names, at the place offset_in_block gives, in       *)
(* whatever order the master listed the blocks.                               *)
OffsetsFound ==
    LET st == reply.st
    IN  \A offset \in 0 .. st.length - 1 :
          \E i \in DOMAIN st.infos :
            /\ st.infos[i].id = st.ids[block_index_for_offset(st, offset) + 1]
            /\ st.infos[i].offset + offset_in_block(st, offset) = offset
            /\ offset_in_block(st, offset) < st.infos[i].length

(* A probed status says 100 percent exactly when every block of the file has  *)
(* a location, and no status says more (recompute_in_goosefs_percentage).     *)
PercentSound ==
    LET st == reply.st
    IN  /\ st.percent \in 0 .. 100
        /\ config.check > 0 /\ reply.op = "get_status" /\ st.infos # <<>> =>
             (st.percent = 100 <=> \A i \in DOMAIN st.infos : st.infos[i].locations # {})

(* While the master knows where the blocks are, the estimate made without     *)
(* asking the workers (fill_in_goosefs_percentage_without_probe) is the       *)
(* percentage that asking them would give: the shortcuts for files that are   *)
(* only in GooseFS never overstate it.                                        *)
EstimateAgrees ==
    LET current == \A i \in DOMAIN file.infos :
                     file.infos[i].locations = held[file.infos[i].offset \div BlockSize]
    IN  file.completed /\ file.infos # <<>> /\ current =>
          fill_without_probe(file).percent = enrich(file, Workers).percent

(* The metadata cache holds the master's answer, never a status enriched for  *)
(* one caller (INV-MC-D1: "never write locations back into the metadata       *)
(* cache").                                                                   *)
CacheUnenriched == cached.percent = 0 /\ cached.ids = <<>>

(* A new file whose caller left the write type open gets the parent's when    *)
(* the parent has one, and another only if the parent could not be fetched    *)
(* (the priorities of resolve_write_type).                                    *)
ParentBeforeConfig ==
    [][op = "idle" /\ op' = "create" =>
         IF parent \in Types THEN wt' = parent \/ faults' > faults
         ELSE wt' = config_write_type]_vars
=============================================================================
