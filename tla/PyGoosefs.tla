----------------------------- MODULE PyGoosefs -----------------------------
(***************************************************************************)
(* The Python clients AsyncGoosefs (bindings/python/src/filesystem.rs) and *)
(* Goosefs (sync_fs.rs): every method checks its arguments, clones the     *)
(* handle that close() takes away, and runs one future of the SDK, or for  *)
(* the batch methods one per path, through stream::iter(..).buffered(LIMIT)*)
(* and two collects.  The two classes have the same methods; Goosefs runs  *)
(* them behind the fork check and guarded_block_on.                        *)
(*                                                                         *)
(* A method is what the control depends on: how many futures, the width of *)
(* the buffer, and what a future leaves behind (a "query" nothing, a       *)
(* "change" an entry of the namespace, an "open" a stream or a writer).    *)
(***************************************************************************)
EXTENDS Integers, FiniteSets

CONSTANTS Clients,          \* tasks or threads that share the client
          Forked,           \* those that live in a forked child process
          BATCH_CONCURRENCY_LIMIT, RESOURCE_BATCH_CONCURRENCY_LIMIT,
          MaxPaths,         \* bound: paths of a batch
          MaxCalls          \* bound: method calls

VARIABLES class,     \* "AsyncGoosefs" or "Goosefs"
          handle,    \* is the handle still there
          context,   \* FileSystemContext: "open" or "closed"
          at,        \* where each client is
          method, paths,
          fate,      \* per path: "queued", "flight", "ok", "err"
          yielded,   \* results the buffer has yielded, in input order
          streams,   \* SDK streams and writers the call owns
          readers,   \* the ones handed to Python
          result, calls

vars == <<class, handle, context, at, method, paths, fate, yielded, streams, readers,
          result, calls>>
BatchAssumption ==
    /\ IsFiniteSet(Clients) /\ MaxPaths \in Nat /\ MaxCalls \in Nat
    /\ BATCH_CONCURRENCY_LIMIT \in Nat /\ RESOURCE_BATCH_CONCURRENCY_LIMIT \in Nat

Single(effect) == [many |-> FALSE, limit |-> 1, effect |-> effect, checked |-> FALSE]
Checked(m) == [m EXCEPT !.checked = TRUE]
Buffered(effect, limit) == [many |-> TRUE, limit |-> limit, effect |-> effect, checked |-> FALSE]

get_status == Single("query")
list_status == Single("query")
list_status_grouped == Single("query")
exists == Single("query")
mkdir == Single("change")
delete == Single("change")
delete_with_options == Single("change")
rename == Single("change")
read_file == Single("query")
read_range == Checked(Single("query"))
write_file == Checked(Single("change"))
open_file == Single("open")
create_file == Single("open")
batch_get_status == Buffered("query", BATCH_CONCURRENCY_LIMIT)
batch_exists == Buffered("query", BATCH_CONCURRENCY_LIMIT)
batch_open_file == Buffered("open", RESOURCE_BATCH_CONCURRENCY_LIMIT)
batch_create_file == Buffered("change", BATCH_CONCURRENCY_LIMIT)
batch_create_dir == Buffered("change", BATCH_CONCURRENCY_LIMIT)
batch_rename == Checked(Buffered("change", BATCH_CONCURRENCY_LIMIT))
batch_delete == Buffered("change", BATCH_CONCURRENCY_LIMIT)
batch_list_status == Buffered("query", BATCH_CONCURRENCY_LIMIT)
batch_list_status_grouped == Buffered("query", BATCH_CONCURRENCY_LIMIT)

(* The methods of Goosefs, each the twin of the AsyncGoosefs method of that name. *)
sync_get_status == get_status
sync_list_status == list_status
sync_list_status_grouped == list_status_grouped
sync_exists == exists
sync_mkdir == mkdir
sync_delete == delete
sync_delete_with_options == delete_with_options
sync_rename == rename
sync_read_file == read_file
sync_read_range == read_range
sync_write_file == write_file
sync_open_file == open_file
sync_create_file == create_file
sync_batch_get_status == batch_get_status
sync_batch_exists == batch_exists
sync_batch_open_file == batch_open_file
sync_batch_create_file == batch_create_file
sync_batch_create_dir == batch_create_dir
sync_batch_rename == batch_rename
sync_batch_delete == batch_delete
sync_batch_list_status == batch_list_status
sync_batch_list_status_grouped == batch_list_status_grouped

PyAsyncGoosefs ==
    {get_status, list_status, list_status_grouped, exists, mkdir, delete,
     delete_with_options, rename, read_file, read_range, write_file, open_file,
     create_file, batch_get_status, batch_exists, batch_open_file, batch_create_file,
     batch_create_dir, batch_rename, batch_delete, batch_list_status,
     batch_list_status_grouped}

PyGoosefsMethods ==
    {sync_get_status, sync_list_status, sync_list_status_grouped, sync_exists,
     sync_mkdir, sync_delete, sync_delete_with_options, sync_rename, sync_read_file,
     sync_read_range, sync_write_file, sync_open_file, sync_create_file,
     sync_batch_get_status, sync_batch_exists, sync_batch_open_file,
     sync_batch_create_file, sync_batch_create_dir, sync_batch_rename,
     sync_batch_delete, sync_batch_list_status, sync_batch_list_status_grouped}

Methods == IF class = "AsyncGoosefs" THEN PyAsyncGoosefs ELSE PyGoosefsMethods

Paths == 1 .. MaxPaths
Result(kind, i) == [kind |-> kind, path |-> i]
Pending == Result("none", 0)

TypeOK ==
    /\ class \in {"AsyncGoosefs", "Goosefs"}
    /\ handle \in BOOLEAN /\ context \in {"open", "closed"}
    /\ at \in [Clients -> {"idle", "entry", "running", "closing"}]
    /\ method \in [Clients -> Methods] /\ paths \in [Clients -> 0 .. MaxPaths]
    /\ fate \in [Clients -> [Paths -> {"queued", "flight", "ok", "err"}]]
    /\ yielded \in [Clients -> 0 .. MaxPaths]
    /\ streams \in [Clients -> 0 .. MaxPaths] /\ readers \in 0 .. MaxCalls * MaxPaths
    /\ result \in [Clients -> {Result(k, i) : k \in {"none", "ok", "err", "refused", "dropped"},
                                              i \in 0 .. MaxPaths}]
    /\ calls \in 0 .. MaxCalls

connect ==
    /\ class \in {"AsyncGoosefs", "Goosefs"}
    /\ handle = TRUE /\ context = "open"
    /\ at = [c \in Clients |-> "idle"] /\ method = [c \in Clients |-> get_status]
    /\ paths = [c \in Clients |-> 0] /\ fate = [c \in Clients |-> [i \in Paths |-> "queued"]]
    /\ yielded = [c \in Clients |-> 0] /\ streams = [c \in Clients |-> 0] /\ readers = 0
    /\ result = [c \in Clients |-> Pending] /\ calls = 0

-----------------------------------------------------------------------------
Finish(c, r) ==
    /\ at' = [at EXCEPT ![c] = "idle"]
    /\ result' = [result EXCEPT ![c] = r]

Call(c) ==
    /\ at[c] = "idle" /\ calls < MaxCalls /\ calls' = calls + 1
    /\ at' = [at EXCEPT ![c] = "entry"]
    /\ \E m \in Methods, n \in 0 .. MaxPaths :
          /\ ~m.many => n = 1
          /\ method' = [method EXCEPT ![c] = m] /\ paths' = [paths EXCEPT ![c] = n]
    /\ fate' = [fate EXCEPT ![c] = [i \in Paths |-> "queued"]]
    /\ yielded' = [yielded EXCEPT ![c] = 0]
    /\ result' = [result EXCEPT ![c] = Pending]
    /\ UNCHANGED <<class, handle, context, streams, readers>>

(* Refused with nothing sent: an argument the method checks, the fork check, the
   handle that close() has taken, and for Goosefs a running event loop. *)
Refuse(c) ==
    /\ at[c] = "entry"
    /\ method[c].checked \/ ~handle \/ class = "Goosefs"
    /\ Finish(c, Result("refused", 0))
    /\ UNCHANGED <<class, handle, context, method, paths, fate, yielded, streams, readers,
                   calls>>

get_handle(c) ==
    /\ at[c] = "entry" /\ handle /\ ~(class = "Goosefs" /\ c \in Forked)
    /\ at' = [at EXCEPT ![c] = "running"]
    /\ UNCHANGED <<class, handle, context, method, paths, fate, yielded, streams, readers,
                   result, calls>>

InFlight(c) == {i \in Paths : fate[c][i] = "flight"}
Sent(c) == {i \in Paths : fate[c][i] # "queued"}

(* The buffer starts the next future while it holds fewer than `limit`, those that
   are ready and wait for an earlier one included. *)
Dispatch(c) ==
    /\ at[c] = "running" /\ Cardinality(Sent(c)) < paths[c]
    /\ Cardinality(Sent(c)) - yielded[c] < method[c].limit
    /\ fate' = [fate EXCEPT ![c][Cardinality(Sent(c)) + 1] = "flight"]
    /\ UNCHANGED <<class, handle, context, at, method, paths, yielded, streams, readers,
                   result, calls>>

Answer(c, i) ==
    /\ at[c] = "running" /\ fate[c][i] = "flight"
    /\ \E f \in {"ok", "err"} :
          /\ fate' = [fate EXCEPT ![c][i] = f]
          /\ streams' = [streams EXCEPT ![c] =
                            IF f = "ok" /\ method[c].effect = "open" THEN @ + 1 ELSE @]
    /\ UNCHANGED <<class, handle, context, at, method, paths, yielded, readers, result, calls>>

Yield(c) ==
    /\ at[c] = "running" /\ yielded[c] < Cardinality(Sent(c))
    /\ fate[c][yielded[c] + 1] \in {"ok", "err"}
    /\ yielded' = [yielded EXCEPT ![c] = @ + 1]
    /\ UNCHANGED <<class, handle, context, at, method, paths, fate, streams, readers, result,
                   calls>>

(* The first collect waits for every result, the second stops at the first error
   and drops the streams that were opened. *)
Failed(c) == {i \in 1 .. paths[c] : fate[c][i] = "err"}
FirstFailed(c) == CHOOSE i \in Failed(c) : \A j \in Failed(c) : i <= j
CollectKeeps(c) ==
    /\ at[c] = "running" /\ yielded[c] = paths[c]
    /\ IF Failed(c) = {}
       THEN /\ Finish(c, Result("ok", 0))
            /\ readers' = readers + streams[c] /\ streams' = [streams EXCEPT ![c] = 0]
       ELSE Finish(c, Result("err", FirstFailed(c))) /\ UNCHANGED <<readers, streams>>
    /\ UNCHANGED <<class, handle, context, method, paths, fate, yielded, calls>>
Collect(c) ==
    /\ at[c] = "running" /\ yielded[c] = paths[c]
    /\ streams' = [streams EXCEPT ![c] = 0]
    /\ IF Failed(c) = {}
       THEN Finish(c, Result("ok", 0)) /\ readers' = readers + streams[c]
       ELSE Finish(c, Result("err", FirstFailed(c))) /\ UNCHANGED readers
    /\ UNCHANGED <<class, handle, context, method, paths, fate, yielded, calls>>

(* The awaiter of an async method is cancelled: the futures are dropped. *)
Dropped(c) ==
    /\ class = "AsyncGoosefs" /\ at[c] \in {"running", "closing"}
    /\ Finish(c, Result("dropped", 0)) /\ streams' = [streams EXCEPT ![c] = 0]
    /\ UNCHANGED <<class, handle, context, method, paths, fate, yielded, readers, calls>>

(* close() takes the handle, then closes the context; a second close is a no-op. *)
close(c) ==
    /\ at[c] = "idle" /\ calls < MaxCalls /\ calls' = calls + 1
    /\ IF class = "Goosefs" /\ c \in Forked
       THEN Finish(c, Result("refused", 0)) /\ UNCHANGED handle
       ELSE /\ handle' = FALSE
            /\ IF handle
               THEN at' = [at EXCEPT ![c] = "closing"] /\ UNCHANGED result
               ELSE Finish(c, Result("ok", 0))
    /\ paths' = [paths EXCEPT ![c] = 0]
    /\ UNCHANGED <<class, context, method, fate, yielded, streams, readers>>

ContextClosed(c) ==
    /\ at[c] = "closing" /\ context' = "closed"
    /\ Finish(c, Result("ok", 0))
    /\ UNCHANGED <<class, handle, method, paths, fate, yielded, streams, readers, calls>>

Idle ==
    /\ calls = MaxCalls /\ \A c \in Clients : at[c] = "idle"
    /\ UNCHANGED vars

Step(c) ==
    \/ Call(c) \/ Refuse(c) \/ get_handle(c) \/ Dispatch(c) \/ (\E i \in Paths : Answer(c, i))
    \/ Yield(c) \/ Collect(c) \/ Dropped(c) \/ close(c) \/ ContextClosed(c)
Init == connect
Next == (\E c \in Clients : Step(c)) \/ Idle
Spec == Init /\ [][Next]_vars

-----------------------------------------------------------------------------
(* A method answers once every path has been tried: success means every one
   succeeded, and the error raised is that of the first failing path in input
   order, whatever order the answers arrived in. *)
FirstErrorRaised ==
    \A c \in Clients :
        /\ result[c].kind = "ok" => \A i \in 1 .. paths[c] : fate[c][i] = "ok"
        /\ result[c].kind = "err" =>
              /\ fate[c][result[c].path] = "err"
              /\ \A i \in 1 .. result[c].path - 1 : fate[c][i] = "ok"
              /\ \A i \in 1 .. paths[c] : fate[c][i] \in {"ok", "err"}

(* A batch never has more than its limit of futures in flight, also while an early
   path is slow and the later ones are done. *)
WindowKept ==
    \A c \in Clients : Cardinality(InFlight(c)) <= method[c].limit

(* A batch that fails or is dropped part-way leaves no stream open: those a call
   still owns are the ones of its successful paths, and once it is over they are
   all handed to Python or closed. *)
NoStreamLeaks ==
    \A c \in Clients :
        streams[c] = IF at[c] = "running" /\ method[c].effect = "open"
                     THEN Cardinality({i \in Paths : fate[c][i] = "ok"}) ELSE 0

(* A batch raises the first failing path in input order, never has more calls in
   flight than its window, and drops the streams of a failed batch. *)
BatchSound == TypeOK /\ FirstErrorRaised /\ WindowKept /\ NoStreamLeaks
=============================================================================
