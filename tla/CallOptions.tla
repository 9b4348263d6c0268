---------------------------- MODULE CallOptions ----------------------------
(***************************************************************************)
(* What a caller asks of a call, on its way to the master: the options of  *)
(* the bindings and of the file system object (src/fs/options.rs), the     *)
(* defaults that the writer and the master client fill in, and the message *)
(* that is sent; and on the way back the error class or the list that a    *)
(* Python program is given.                                                *)
(*                                                                         *)
(* The master merges no defaults of its own: a field that is not set is    *)
(* read as its protobuf zero.  An optional value is the set of the value,  *)
(* or the empty set.                                                       *)
(***************************************************************************)
EXTENDS Integers, Sequences, FiniteSets

CONSTANTS Sizes,     \* block sizes a caller may ask for, 0 among them
          MaxItems,  \* bound: entries of a listing
          MaxCalls   \* bound: calls

VARIABLES
    config,    \* the settings that fill in what the caller leaves open
    call,      \* the last call: its name and its options
    message,   \* the options in the request sent to the master
    lookup,    \* the metadata cache was asked first
    ids,       \* operation ids drawn so far
    raised,    \* the exception class the caller got
    items,     \* the listing the caller got
    pos        \* how far it has iterated over it
vars == <<config, call, message, lookup, ids, raised, items, pos>>

Option(S) == {{}} \cup {{x} : x \in S}
unwrap_or(o, default) == IF o = {} THEN default ELSE CHOOSE x \in o : TRUE

----------------------------------------------------------------------------
(* Enumerations: their values in the bindings, in messages and as texts. *)
PyWriteType == [MustCache |-> 1, TryCache |-> 2, CacheThrough |-> 3, Through |-> 4,
                AsyncThrough |-> 5]
WritePType == [MustCache |-> 1, TryCache |-> 2, CacheThrough |-> 3, Through |-> 4,
               AsyncThrough |-> 5, None |-> 6]
as_str == [MustCache |-> "must_cache", TryCache |-> "try_cache", Through |-> "through",
           CacheThrough |-> "cache_through", AsyncThrough |-> "async_through"]
WriteTypes == DOMAIN as_str
from_py(n) == CHOOSE t \in WriteTypes : PyWriteType[t] = n
into_py(t) == PyWriteType[t]
from_str(text) == {t \in WriteTypes : as_str[t] = text}
try_from_proto(n) == {t \in WriteTypes : WritePType[t] = n}

PyWriterChecksumType == [Null |-> 0, Crc32 |-> 1, Crc32c |-> 2]
as_proto == [Null |-> 0, Crc32 |-> 1, Crc32c |-> 2]
complete_file_crc(type, crc) == [crc_type |-> {as_proto[type]}, crc_value |-> {crc}]

Never == 0
Always == 2
LoadMetadataPType == Never .. Always
Intervals == {-1, 0, 10}

----------------------------------------------------------------------------
(* The options of the file system object. *)
CreateFileOptions == [write_type : Option(WriteTypes), block_size_bytes : Option(Sizes),
                      replication_max : Option({3}), recursive : BOOLEAN]
DeleteOptions == [recursive : BOOLEAN, unchecked : BOOLEAN, goosefs_only : BOOLEAN]
GetStatusOptions == [sync_interval_ms : Option(Intervals),
                     load_metadata_type : Option(LoadMetadataPType)]
ListStatusOptions == [recursive : BOOLEAN, sync_interval_ms : Option(Intervals),
                      load_metadata_type : Option(LoadMetadataPType),
                      load_metadata_only : BOOLEAN]

(* The options every message has: the interval and, for a change, an id. *)
Common == [sync_interval_ms : Option(Intervals), operation_id : Option(0 .. MaxCalls)]
common_p_options(sync, id) == [sync_interval_ms |-> {sync}, operation_id |-> id]
write_common_p_options == common_p_options(config.sync, {ids + 1})

(* fill_write_common_options: the caller's values stay. *)
fill_write_common_options(slot) ==
    IF slot = {} THEN {write_common_p_options}
    ELSE LET existing == unwrap_or(slot, {})
         IN  {[sync_interval_ms |-> {unwrap_or(existing.sync_interval_ms, config.sync)},
               operation_id |-> {unwrap_or(existing.operation_id, ids + 1)}]}

default_file_mode == "rw-r--r--"
default_dir_mode == "rwxr-xr-x"

(* Mutant of apply_create_file_defaults: a block size of zero is kept. *)
apply_create_file_defaultsZero(o) ==
    [o EXCEPT !.recursive = {unwrap_or(@, TRUE)},
              !.block_size_bytes = {unwrap_or(@, config.block_size)},
              !.mode = {unwrap_or(@, default_file_mode)},
              !.write_type = IF @ = {} THEN config.write_type ELSE @,
              !.persistence_wait_time = {unwrap_or(@, config.wait)}]

(* apply_create_file_defaults: what create_with_context fills in. *)
apply_create_file_defaults(o) ==
    [o EXCEPT !.recursive = {unwrap_or(@, TRUE)},
              !.block_size_bytes = {unwrap_or(@ \ {0}, config.block_size)},
              !.mode = {unwrap_or(@, default_file_mode)},
              !.write_type = IF @ = {} THEN config.write_type ELSE @,
              !.persistence_wait_time = {unwrap_or(@, config.wait)}]

CreateFilePOptions ==
    [recursive |-> {}, block_size_bytes |-> {}, mode |-> {}, write_type |-> {},
     persistence_wait_time |-> {}, replication_max |-> {}, common_options |-> {}]
create_message(o) ==
    LET filled == apply_create_file_defaults(o)
    IN  [filled EXCEPT !.common_options = fill_write_common_options(@)]

(* resolve_persist_options: how a file written asynchronously gets to the    *)
(* under storage.  NO_AUTO_PERSIST is -1.                                    *)
resolve_persist_options(async, ufs_completed, wait) ==
    [force_persisted |-> IF async /\ ufs_completed THEN {TRUE} ELSE {},
     async_persist |-> IF async /\ ~ufs_completed /\ wait # -1 THEN {wait} ELSE {}]
complete_file_locations(async, last) == IF async THEN last ELSE {}

(* should_skip_listing_cache *)
should_skip_listing_cache(recursive, load, only, sync) ==
    recursive \/ load = Always \/ only \/ sync = 0

----------------------------------------------------------------------------
NoCall == [name |-> "none", options |-> {}]
Init ==
    /\ config \in [block_size : {64}, write_type : Option({WritePType.Through}),
                   sync : {-1, 0}, load : {1, Always}, wait : {-1, 5}]
    /\ call = NoCall
    /\ message = {} /\ lookup = FALSE /\ ids = 0
    /\ raised = "none" /\ items = <<>> /\ pos = 0

Sent(name, options, m, cached, drawn) ==
    /\ call = NoCall
    /\ ids + drawn <= MaxCalls
    /\ call' = [name |-> name, options |-> {options}]
    /\ message' = {m}
    /\ lookup' = cached
    /\ ids' = ids + drawn
    /\ UNCHANGED <<config, raised, items, pos>>

(* BaseFileSystem::create_file; `inherited' is the type found for a file     *)
(* whose options name none (see FileSystem.tla).                             *)
create_file(o, inherited) ==
    LET type == unwrap_or(o.write_type, inherited)
    IN  Sent("create_file", o,
             create_message([CreateFilePOptions EXCEPT
                !.block_size_bytes = o.block_size_bytes, !.recursive = {o.recursive},
                !.write_type = {WritePType[type]}]), FALSE, 1)

(* build_create_file_options: the bindings pass the keywords as a message;   *)
(* the type comes as a value of the Python enumeration.                      *)
py_create_file(type, size, recursive) ==
    Sent("py_create_file",
         [write_type |-> type, block_size_bytes |-> size, recursive |-> recursive],
         create_message([CreateFilePOptions EXCEPT
            !.block_size_bytes = size, !.recursive = {recursive},
            !.write_type = {WritePType[from_py(n)] : n \in type}]), FALSE, 1)

(* create_with_options: the caller's own message. *)
create_with_options(size, common) ==
    Sent("create_with_options", [block_size_bytes |-> size, common_options |-> common],
         create_message([CreateFilePOptions EXCEPT !.block_size_bytes = size,
                                                   !.common_options = common]), FALSE,
         IF common # {} /\ unwrap_or(common, {}).operation_id # {} THEN 0 ELSE 1)

(* delete and delete_with_options, of both languages; cancel of a writer. *)
delete(o) ==
    Sent("delete", o,
         [recursive |-> {o.recursive}, unchecked |-> {o.unchecked},
          goosefs_only |-> {o.goosefs_only}, common_options |-> {write_common_p_options}],
         FALSE, 1)

create_directory(recursive) ==
    Sent("create_directory", [recursive |-> recursive],
         [recursive |-> {recursive}, allow_exists |-> {TRUE}, mode |-> {default_dir_mode},
          common_options |-> {write_common_p_options}], FALSE, 1)

rename_p_options(persist) ==
    Sent("rename", [persist |-> persist],
         [persist |-> {persist}, common_options |-> {write_common_p_options}], FALSE, 1)

(* complete_file_request: the writer draws the id when it is made. *)
complete_file_request(async, ufs_completed, last, type) ==
    Sent("complete_file", [async |-> async, ufs_completed |-> ufs_completed, type |-> type],
         [persist |-> resolve_persist_options(async, ufs_completed, config.wait),
          locations |-> complete_file_locations(async, last),
          crc |-> complete_file_crc(type, 0),
          common_options |-> {common_p_options(config.sync, {ids + 1})}], FALSE, 1)

(* get_status_with_options, get_status_p_options *)
get_status(o) ==
    LET sync == unwrap_or(o.sync_interval_ms, config.sync)
        load == unwrap_or(o.load_metadata_type, config.load)
    IN  Sent("get_status", o,
             [load_metadata_type |-> {load}, common_options |-> {common_p_options(sync, {})}],
             sync # 0, 0)

(* list_status_with_options, list_status_p_options *)
list_status(o) ==
    LET sync == unwrap_or(o.sync_interval_ms, config.sync)
        load == unwrap_or(o.load_metadata_type, config.load)
    IN  Sent("list_status", o,
             [load_metadata_type |-> {load}, common_options |-> {common_p_options(sync, {})}],
             ~should_skip_listing_cache(o.recursive, load, o.load_metadata_only, sync), 0)

----------------------------------------------------------------------------
(* map_err: the exception class of an error. *)
SameClass == {"NotFound", "AlreadyExists", "PermissionDenied", "InvalidArgument",
              "FileIncomplete", "DirectoryNotEmpty", "AuthenticationFailed",
              "NoWorkerAvailable", "MasterUnavailable", "ConfigError"}
Errors == SameClass \cup {"InvalidPath", "OpenDirectory", "ResourceExhausted", "GrpcError",
                          "TransportError", "MissingField", "BlockIoError", "Internal"}
map_err(e) ==
    CASE e \in SameClass -> e
      [] e = "InvalidPath" -> "InvalidArgument"
      [] e = "OpenDirectory" -> "IsADirectory"
      [] e \in {"ResourceExhausted", "BlockIoError"} -> "IoError"
      [] e \in {"GrpcError", "TransportError"} -> "RpcError"
      [] e \in {"MissingField", "Internal"} -> "GoosefsError"

Fails(e) ==
    /\ call # NoCall /\ raised = "none" /\ items = <<>>
    /\ raised' = map_err(e)
    /\ UNCHANGED <<config, call, message, lookup, ids, items, pos>>

(* A listing of n entries, as a URIStatusList. *)
Lists(n) ==
    /\ call.name = "list_status" /\ raised = "none" /\ items = <<>>
    /\ items' = [i \in 1 .. n |-> i]
    /\ pos' = 0
    /\ UNCHANGED <<config, call, message, lookup, ids, raised>>

__getitem__(index) ==
    LET idx == IF index < 0 THEN index + Len(items) ELSE index
    IN  IF idx < 0 \/ idx >= Len(items) THEN {} ELSE {items[idx + 1]}

(* __next__ of its iterator; at the end the iteration stops. *)
__next__ ==
    /\ pos < Len(items)
    /\ pos' = pos + 1
    /\ UNCHANGED <<config, call, message, lookup, ids, raised, items>>

(* The caller is done with the answer, an empty or partly read one too. *)
Return ==
    /\ call # NoCall
    /\ call' = NoCall /\ message' = {} /\ lookup' = FALSE
    /\ raised' = "none" /\ items' = <<>> /\ pos' = 0
    /\ UNCHANGED <<config, ids>>

Calls ==
    \/ \E o \in CreateFileOptions, t \in WriteTypes : create_file(o, t)
    \/ \E n \in Option({PyWriteType[t] : t \in WriteTypes}), s \in Option(Sizes),
          r \in BOOLEAN : py_create_file(n, s, r)
    \/ \E s \in Option(Sizes), c \in Option(Common) : create_with_options(s, c)
    \/ \E o \in DeleteOptions : delete(o)
    \/ \E r \in BOOLEAN : create_directory(r) \/ rename_p_options(r)
    \/ \E a, u \in BOOLEAN, last \in Option({"w"}), t \in DOMAIN as_proto :
          complete_file_request(a, u, last, t)
    \/ \E o \in GetStatusOptions : get_status(o)
    \/ \E o \in ListStatusOptions : list_status(o)
Next ==
    \/ call = NoCall /\ Calls
    \/ \E e \in Errors : Fails(e)
    \/ \E n \in 1 .. MaxItems : Lists(n)
    \/ __next__ \/ Return
Spec == Init /\ [][Next]_vars

----------------------------------------------------------------------------
TypeOK ==
    /\ call.name \in {"none", "create_file", "py_create_file", "create_with_options",
                      "delete", "create_directory", "rename", "complete_file",
                      "get_status", "list_status"}
    /\ Cardinality(message) <= 1 /\ lookup \in BOOLEAN
    /\ ids \in 0 .. MaxCalls
    /\ raised = "none" \/ \E e \in Errors : raised = map_err(e)
    /\ Len(items) <= MaxItems /\ pos \in 0 .. Len(items)

Creates == {"create_file", "py_create_file", "create_with_options"}
Reads == {"get_status", "list_status"}

(* No message leaves to the master's zero what has another default: every    *)
(* one has an interval, a read its load type (unset would be NEVER, and a    *)
(* file only in the under storage would not be found), a new file a block    *)
(* size, and exactly the changes have an operation id, one not used before   *)
(* unless the caller brought it (apply_create_file_defaults, common_p_options).*)
NothingLeftOpen ==
    \A m \in message : \A c \in m.common_options :
      /\ m.common_options # {} /\ c.sync_interval_ms # {}
      /\ IF call.name \in Reads THEN c.operation_id = {} /\ m.load_metadata_type # {}
         ELSE \/ c.operation_id = {ids}
              \/ \E o \in call.options : call.name = "create_with_options"
                    /\ \E own \in o.common_options : c.operation_id = own.operation_id
      /\ call.name \in Creates =>
           /\ \A n \in m.block_size_bytes : n > 0
           /\ {m.block_size_bytes, m.recursive, m.mode, m.persistence_wait_time} \cap {{}} = {}
           /\ m.write_type = {} => config.write_type = {}

(* What the caller sets is what the master reads, through the enumerations   *)
(* of two languages and of the messages: type, size and flags of a new file, *)
(* the flags of a deletion, interval and load type of a read, and the        *)
(* interval and the id of a message of the caller's own.  A size of zero     *)
(* counts as none, and replication_max is not sent at all.  A file written   *)
(* asynchronously is persisted by exactly one of the two ways, or on demand. *)
AskedIsSent ==
    \A m \in message, o \in call.options :
      /\ call.name \in Creates /\ o.block_size_bytes \notin {{}, {0}} =>
           m.block_size_bytes = o.block_size_bytes
      /\ call.name \in {"create_file", "py_create_file", "delete"} => m.recursive = {o.recursive}
      /\ call.name = "create_file" /\ o.write_type # {} =>
           UNION {try_from_proto(n) : n \in m.write_type} = o.write_type
      /\ call.name = "py_create_file" /\ o.write_type # {} =>
           {into_py(t) : t \in UNION {try_from_proto(n) : n \in m.write_type}} = o.write_type
      /\ call.name = "create_with_options" =>
           \A own \in o.common_options, c \in m.common_options :
             own.sync_interval_ms \subseteq c.sync_interval_ms
             /\ own.operation_id \subseteq c.operation_id
      /\ call.name = "delete" => /\ m.unchecked = {o.unchecked}
                                 /\ m.goosefs_only = {o.goosefs_only}
      /\ call.name \in Reads =>
           /\ o.load_metadata_type \subseteq m.load_metadata_type
           /\ \A c \in m.common_options : o.sync_interval_ms \subseteq c.sync_interval_ms
      /\ call.name = "complete_file" =>
           /\ (m.persist.force_persisted = {} /\ m.persist.async_persist = {})
                <=> ~o.async \/ (config.wait = -1 /\ ~o.ufs_completed)
           /\ m.persist.force_persisted = {} \/ m.persist.async_persist = {}
           /\ m.crc.crc_type = {PyWriterChecksumType[o.type]}
    /\ call = NoCall => \A t \in WriteTypes : from_str(as_str[t]) = {t} /\ from_py(into_py(t)) = t

(* A call that asks for the master's state is not answered from the cache.   *)
FreshIsFetched ==
    \A m \in message, o \in call.options : lookup =>
      /\ \A c \in m.common_options : 0 \notin c.sync_interval_ms
      /\ call.name = "list_status" => Always \notin m.load_metadata_type /\ ~o.recursive

(* A class that programs handle by name stands for one error only, and an    *)
(* iteration over a listing yields what indexing does, from either end       *)
(* (map_err, URIStatusList).                                                 *)
ResultsFaithful ==
    /\ raised \in {"NotFound", "AlreadyExists", "FileIncomplete", "DirectoryNotEmpty",
                   "IsADirectory"} => Cardinality({e \in Errors : map_err(e) = raised}) = 1
    /\ \A i \in 1 .. pos : __getitem__(i - 1) = {items[i]}
    /\ \A i \in 1 .. Len(items) : __getitem__(-i) = __getitem__(Len(items) - i)
    /\ __getitem__(Len(items)) = {} /\ __getitem__(-Len(items) - 1) = {}
=============================================================================
