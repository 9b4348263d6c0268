----------------------------- MODULE UringStore -----------------------------
(***************************************************************************)
(* UringPageStore and its driver threads.  A store call builds requests,   *)
(* sends each into the bounded channel of a driver thread and waits, with  *)
(* a timeout; the thread pushes it into its ring, the kernel executes it   *)
(* and posts a result, the thread reaps it, arms short transfers again and *)
(* wakes the caller.  PAGE_FD_CACHE, one per process, keeps the descriptor *)
(* of a page that was read; a store keeps one descriptor per directory.    *)
(*                                                                         *)
(* The kernel is modelled as far as the code relies on it: descriptors are *)
(* numbers, the lowest free one is given out; a request names its file by  *)
(* number until it is submitted, by reference afterwards.  A page file is  *)
(* named by the put that wrote it; its bytes say which put they are of.    *)
(*                                                                         *)
(* The callers are those of LocalCacheManager: gets of a page share its    *)
(* lock, puts and deletes hold it alone, within one store.                 *)
(***************************************************************************)
EXTENDS Integers, Sequences, SequencesExt, FiniteSetsExt

CONSTANTS Stores,       \* numbers: one UringPageStore each
          Pages,
          Tasks,        \* concurrent calls,
          Writers,      \* and those that may put and delete
          MaxFd,        \* bound on descriptors (ulimit -n)
          Threads,      \* thread_count
          QueueDepth,   \* configured queue_depth, 0 when unset
          PageLen,      \* bytes of a page
          PreadModes,   \* values of pread_enabled
          ShortWrites,  \* the kernel may write less than asked
          MaxPuts, MaxCalls, MaxEvents,    \* bounds on puts, calls, and
                        \* errors, timeouts and evictions
          TimeoutSteps  \* the waits that may time out

VARIABLES
    pread,      \* pread_enabled
    fdt,        \* the process's descriptor table
    names,      \* store, page -> the put whose file has the page's name (0: none)
    data,       \* put -> the bytes of its file, by the put that wrote them
    puts,       \* puts begun
    made,       \* stores whose page directory exists
    last,       \* store, page -> the last put that succeeded (0: deleted)
    cache,      \* PAGE_FD_CACHE
    dirs,       \* dir_fd_cache of each store (0: none)
    task,       \* the calls
    chan,       \* the channel of each driver thread
    ring,       \* requests in a ring
    sel,        \* THREAD_SELECTOR
    lost,       \* background closes a full submission queue refused, opens nobody waits for
    panic, calls, events
kernel == <<fdt, names, data, made>>
driver == <<chan, ring, sel, lost>>
ghosts == <<pread, panic, calls, events>>
vars == <<pread, fdt, names, data, puts, made, last, cache, dirs, task, chan, ring, sel, lost,
          panic, calls, events>>

ENOENT == 2
EIO == 5
Free == [kind |-> "free", n |-> 0, w |-> FALSE]
StdStream == [kind |-> "std", n |-> 0, w |-> TRUE]
NoRet == [set |-> FALSE, err |-> 0, code |-> 0, buf |-> <<>>]
NoCall == [op |-> "none", s |-> 0, p |-> 0, step |-> "none", v |-> 0, fd |-> 0, dir |-> 0,
           ret |-> NoRet]
Nobody == "nobody"

(* resolve_or_default, with default_queue_depth cut down to 2. *)
resolve_or_default(configured, default) == IF configured = 0 THEN default ELSE configured
Depth == resolve_or_default(QueueDepth, 2)

Request(op, owner, call, fd, len) ==
    [op |-> op, owner |-> owner, s |-> call.s, p |-> call.p, v |-> call.v, fd |-> fd,
     len |-> len, done |-> 0, buf |-> <<>>, st |-> "new", thread |-> 0, file |-> Free, err |-> 0, res |-> 0]

Init ==
    /\ pread \in PreadModes
    /\ fdt = [f \in 0 .. MaxFd |-> IF f <= 2 THEN StdStream ELSE Free]
    /\ names = [s \in Stores |-> [p \in Pages |-> 0]]
    /\ data = [v \in 1 .. MaxPuts |-> [k \in 1 .. PageLen |-> 0]]
    /\ puts = 0
    /\ made = {}
    /\ last = [s \in Stores |-> [p \in Pages |-> 0]]
    /\ cache = [p \in Pages |-> 0]
    /\ dirs = [s \in Stores |-> 0]
    /\ task = [t \in Tasks |-> NoCall]
    /\ chan = [i \in 0 .. Threads - 1 |-> <<>>]
    /\ ring = {}
    /\ sel = 0
    /\ lost = 0
    /\ panic = FALSE /\ calls = 0 /\ events = 0

----------------------------------------------------------------------------
(* Descriptors *)

(* The descriptors that the caches and the calls own; a handle that is      *)
(* dropped closes its descriptor when nobody else has it (Arc<File>).       *)
Holders(c, d, tk) ==
    {c[p] : p \in Pages} \cup {d[s] : s \in Stores}
      \cup {tk[t].fd : t \in Tasks} \cup {tk[t].dir : t \in Tasks}
Dropping(table, fds, c, d, tk) ==
    [f \in DOMAIN table |->
       IF f > 2 /\ f \in fds /\ f \notin Holders(c, d, tk) THEN Free ELSE table[f]]

(* try_submit_request / submit_request: the threads take turns; a full      *)
(* channel refuses the request.                                              *)
Refused == Len(chan[sel]) >= Depth
Sent(r) == [chan EXCEPT ![sel] = Append(@, [r EXCEPT !.st = "chan", !.thread = sel])]

(* The call waits for the request it sends; one that is refused has failed  *)
(* at once.  In pread mode the syscalls of a read are made by the caller.    *)
submit_request(t, call, op, fd, len) ==
    LET r == Request(op, t, call, fd, len)
        failed == [NoRet EXCEPT !.set = TRUE, !.err = EIO]
    IN  IF pread /\ op \in {"opendir", "openpage", "read"}
        THEN /\ task' = [task EXCEPT ![t] = [call EXCEPT !.ret = NoRet]]
             /\ ring' = ring \cup {[r EXCEPT !.st = "sync",
                                             !.file = IF op = "read" THEN fdt[fd] ELSE Free]}
             /\ UNCHANGED <<chan, sel, lost>>
        ELSE /\ task' = [task EXCEPT ![t] = [call EXCEPT !.ret = IF Refused THEN failed ELSE NoRet]]
             /\ chan' = IF Refused THEN chan ELSE Sent(r)
             /\ sel' = (sel + 1) % Threads
             /\ UNCHANGED <<ring, lost>>

(* close_fd_background: the descriptor goes with a request nobody waits     *)
(* for, or is closed at once when the channel is full.                       *)
close_fd_background(fd) ==
    /\ chan' = IF Refused THEN chan ELSE Sent(Request("close", Nobody, NoCall, fd, 0))
    /\ fdt' = IF Refused THEN [fdt EXCEPT ![fd] = Free] ELSE fdt
    /\ sel' = (sel + 1) % Threads
    /\ UNCHANGED <<ring, lost>>

----------------------------------------------------------------------------
(* The driver thread *)

(* The request is over: the call that waits for it is woken. *)
Woken(tk, r, err, code) ==
    IF r.owner = Nobody THEN tk
    ELSE [tk EXCEPT ![r.owner].ret = [set |-> TRUE, err |-> err, code |-> code, buf |-> r.buf]]

(* What a result makes of a request: more is to be transferred, or it is    *)
(* over; a read that gets nothing has reached the end of the file.          *)
Transferred(r) == r.done + r.res
Short(r) ==
    /\ r.err = 0
    /\ \/ r.op = "read" /\ r.res > 0 /\ Transferred(r) < r.len
       \/ r.op = "write" /\ Transferred(r) < r.len
Code(r) == CASE r.op = "read" -> Transferred(r)
             [] r.op \in {"opendir", "openpage", "opentmp"} -> r.res
             [] OTHER -> 0

(* Mutant of Rearmed: a short transfer is not armed again. *)
RearmedNever(rs) == {}
(* buffer_usable_for_transfer holds: the buffer stays with the request.     *)
Rearmed(rs) == {[r EXCEPT !.done = Transferred(r), !.res = 0] : r \in rs}

(* run_uring_thread, one turn of its loop.  process_completions reaps the   *)
(* results; the short transfers are armed again, the requests of the        *)
(* channel follow them into the submission queue, and what finds it full    *)
(* fails (push_to_sq); ring.submit: the kernel looks the files up by their   *)
(* descriptors.                                                              *)
run_uring_thread(i) ==
    LET cqes == {r \in ring : r.thread = i /\ r.st = "cqe"}
        over == {r \in cqes : ~Short(r)}
        again == SetToSeq(Rearmed({r \in cqes : Short(r)}))
        pushed == again \o chan[i]
        sq == {pushed[k] : k \in 1 .. Min({Depth, Len(pushed)})}
        full == SelectSeq(pushed, LAMBDA r : r \notin sq)
        File(r) == IF r.op \in {"read", "write"} THEN fdt[r.fd] ELSE Free
        woken == FoldSet(LAMBDA r, tk : Woken(tk, r, r.err, Code(r)), task, over)
    IN  /\ cqes # {} \/ chan[i] # <<>>
        /\ ring' = (ring \ cqes) \cup {[r EXCEPT !.st = "kernel", !.file = File(r)] : r \in sq}
        /\ chan' = [chan EXCEPT ![i] = <<>>]
        /\ task' = FoldLeft(LAMBDA tk, r : Woken(tk, r, EIO, 0), woken, full)
        /\ lost' = lost + Len(SelectSeq(full, LAMBDA r : r.op = "close"))
        /\ UNCHANGED <<kernel, puts, last, cache, dirs, sel, ghosts>>

----------------------------------------------------------------------------
(* The kernel *)

FreeFds == {f \in 3 .. MaxFd : fdt[f] = Free}
(* A request is executed: its result waits to be reaped; a syscall of the   *)
(* caller's own returns to it, and pread goes on until it has it all.        *)
Executed(r, err, res, more) ==
    LET q == [r EXCEPT !.err = err, !.res = res, !.buf = r.buf \o more]
    IN  IF r.st = "kernel"
        THEN /\ ring' = (ring \ {r}) \cup {[q EXCEPT !.st = "cqe"]}
             /\ UNCHANGED task
        ELSE IF Short(q)
        THEN /\ ring' = (ring \ {r}) \cup {[q EXCEPT !.done = Transferred(q), !.res = 0]}
             /\ UNCHANGED task
        ELSE /\ ring' = ring \ {r}
             /\ task' = Woken(task, q, err, Code(q))
Running(r) == r \in ring /\ r.st \in {"kernel", "sync"}

(* A file is opened: the lowest free descriptor, or none is left. *)
Opened(r, file) ==
    IF FreeFds = {} THEN Executed(r, EIO, 0, <<>>) /\ UNCHANGED fdt
    ELSE /\ fdt' = [fdt EXCEPT ![Min(FreeFds)] = file]
         /\ Executed(r, 0, Min(FreeFds), <<>>)
KernelOpen(r) ==
    /\ Running(r)
    /\ \/ /\ r.op = "opendir"
          /\ IF r.s \notin made THEN Executed(r, ENOENT, 0, <<>>) /\ UNCHANGED fdt
             ELSE Opened(r, [kind |-> "dir", n |-> r.s, w |-> FALSE])
       \/ /\ r.op = "openpage"
          /\ LET dir == fdt[r.fd]
                 v == IF dir.kind = "dir" THEN names[dir.n][r.p] ELSE 0
             IN  IF v = 0 THEN Executed(r, ENOENT, 0, <<>>) /\ UNCHANGED fdt
                 ELSE Opened(r, [kind |-> "page", n |-> v, w |-> FALSE])
       \/ /\ r.op = "opentmp"
          /\ Opened(r, [kind |-> "page", n |-> r.v, w |-> TRUE])
    /\ UNCHANGED <<names, data, made, puts, last, cache, dirs, chan, sel, lost, ghosts>>

Written(v) == SelectSeq(data[v], LAMBDA b : b # 0)
KernelRead(r, n) ==
    /\ Running(r)
    /\ r.op = "read"
    /\ IF r.file.kind # "page" THEN n = 0 /\ Executed(r, EIO, 0, <<>>)
       ELSE LET left == Len(Written(r.file.n)) - r.done
            IN  /\ n \in IF left <= 0 THEN {0} ELSE 1 .. Min({left, r.len - r.done})
                /\ Executed(r, 0, n, SubSeq(data[r.file.n], r.done + 1, r.done + n))
    /\ UNCHANGED <<kernel, puts, last, cache, dirs, chan, sel, lost, ghosts>>

KernelWrite(r, n) ==
    /\ Running(r)
    /\ r.op = "write"
    /\ IF r.file.kind # "page" \/ ~r.file.w
       THEN /\ n = 1
            /\ Executed(r, EIO, 0, <<>>)
            /\ UNCHANGED data
       ELSE /\ n \in IF ShortWrites THEN 1 .. r.len - r.done ELSE {r.len - r.done}
            /\ data' = [data EXCEPT ![r.file.n] =
                          [k \in 1 .. PageLen |-> IF k \in r.done + 1 .. r.done + n THEN r.v ELSE @[k]]]
            /\ Executed(r, 0, n, <<>>)
    /\ UNCHANGED <<fdt, names, made, puts, last, cache, dirs, chan, sel, lost, ghosts>>

KernelClose(r) ==
    /\ Running(r)
    /\ r.op = "close"
    /\ fdt' = [fdt EXCEPT ![r.fd] = Free]
    /\ ring' = (ring \ {r}) \cup {[r EXCEPT !.st = "cqe"]}
    /\ UNCHANGED <<names, data, made, puts, last, cache, dirs, task, chan, sel, lost, ghosts>>

KernelUnlink(r) ==
    /\ Running(r)
    /\ r.op = "unlink"
    /\ names' = [names EXCEPT ![r.s][r.p] = 0]
    /\ Executed(r, IF names[r.s][r.p] = 0 THEN ENOENT ELSE 0, 0, <<>>)
    /\ UNCHANGED <<fdt, data, made, puts, last, cache, dirs, chan, sel, lost, ghosts>>

KernelFails(r) ==
    /\ Running(r)
    /\ r.op # "close"
    /\ events < MaxEvents
    /\ events' = events + 1
    /\ Executed(r, EIO, 0, <<>>)
    /\ UNCHANGED <<kernel, puts, last, cache, dirs, chan, sel, lost, pread, panic, calls>>

----------------------------------------------------------------------------
(* The calls *)

(* UringOpFuture::poll: a failure is negative, whatever its errno. *)
poll(ret) == IF ret.err # 0 THEN -ret.err ELSE ret.code

Idle(t) == task[t].op = "none" /\ calls < MaxCalls
Unlocked(s, p, shared) ==
    \A u \in Tasks : task[u].op # "none" /\ task[u].s = s /\ task[u].p = p
                    => shared /\ task[u].op = "get"
Call(op, s, p, step) == [NoCall EXCEPT !.op = op, !.s = s, !.p = p, !.step = step]
Ready(t, step) == task[t].step = step /\ task[t].ret.set
Returned(t) == [task EXCEPT ![t] = NoCall]
With(t, call) == [task EXCEPT ![t] = call]

(* The call is over; the handles it still has are dropped. *)
Return(t) == task' = Returned(t) /\ UNCHANGED driver
Leave(t) ==
    /\ Return(t)
    /\ fdt' = Dropping(fdt, {task[t].fd, task[t].dir}, cache, dirs, Returned(t))
    /\ UNCHANGED <<cache, dirs>>
(* The assertion that an opened descriptor is none of the standard streams. *)
Panics(t) ==
    /\ panic' = TRUE
    /\ Leave(t)
    /\ UNCHANGED <<pread, calls, events>>

(* get_bytes: the cached descriptor, if it is not expired; else, by the     *)
(* directory's descriptor, the page is opened.                              *)
get_bytes(t, s, p, expired) ==
    /\ Idle(t)
    /\ Unlocked(s, p, TRUE)
    /\ expired => cache[p] # 0 /\ events < MaxEvents
    /\ events' = IF expired THEN events + 1 ELSE events
    /\ LET fd == cache[p]
           call == IF fd # 0 /\ ~expired THEN [Call("get", s, p, "hot") EXCEPT !.fd = fd]
                   ELSE IF dirs[s] # 0 THEN [Call("get", s, p, "open") EXCEPT !.dir = dirs[s]]
                   ELSE Call("get", s, p, "dir")
       IN  /\ cache' = IF expired THEN [cache EXCEPT ![p] = 0] ELSE cache
           /\ fdt' = Dropping(fdt, {fd}, cache', dirs, task)
           /\ CASE call.step = "hot" -> submit_request(t, call, "read", fd, PageLen)
                [] call.step = "open" -> submit_request(t, call, "openpage", call.dir, 0)
                [] OTHER -> submit_request(t, call, "opendir", 0, 0)
    /\ UNCHANGED <<names, data, made, puts, last, dirs, pread, panic>>
    /\ calls' = calls + 1

(* get_dir_fd: if another call was faster, its descriptor is used. *)
DirOpened(t) ==
    /\ Ready(t, "dir")
    /\ LET res == poll(task[t].ret)
           s == task[t].s
           dir == IF dirs[s] # 0 THEN dirs[s] ELSE res
           call == [task[t] EXCEPT !.step = "open", !.dir = dir]
       IN  \/ res < 0 /\ Leave(t) /\ UNCHANGED ghosts
           \/ res \in 0 .. 2 /\ Panics(t)
           \/ /\ res > 2
              /\ dirs' = [dirs EXCEPT ![s] = dir]
              /\ fdt' = Dropping(fdt, {res}, cache, dirs', With(t, call))
              /\ submit_request(t, call, "openpage", dir, 0)
              /\ UNCHANGED <<cache, ghosts>>
    /\ UNCHANGED <<names, data, made, puts, last>>

PageOpened(t) ==
    /\ Ready(t, "open")
    /\ LET res == poll(task[t].ret)
           call == [task[t] EXCEPT !.step = "read", !.fd = res, !.dir = 0]
       IN  \/ res < 0 /\ Leave(t) /\ UNCHANGED ghosts
           \/ res \in 0 .. 2 /\ Panics(t)
           \/ /\ res > 2
              /\ fdt' = Dropping(fdt, {task[t].dir}, cache, dirs, With(t, call))
              /\ submit_request(t, call, "read", res, PageLen)
              /\ UNCHANGED <<cache, dirs, ghosts>>
    /\ UNCHANGED <<names, data, made, puts, last>>

(* The cold read: the descriptor is kept in the cache. *)
PageRead(t) ==
    /\ Ready(t, "read")
    /\ IF poll(task[t].ret) < 0
       THEN /\ close_fd_background(task[t].fd)
            /\ task' = Returned(t)
            /\ UNCHANGED cache
       ELSE /\ Return(t)
            /\ cache' = [cache EXCEPT ![task[t].p] = task[t].fd]
            /\ fdt' = Dropping(fdt, {cache[task[t].p]}, cache', dirs, Returned(t))
    /\ UNCHANGED <<names, data, made, puts, last, dirs, ghosts>>

(* The hot read: an error takes the descriptor out of the cache. *)
HotRead(t) ==
    /\ Ready(t, "hot")
    /\ LET failed == poll(task[t].ret) < 0
           p == task[t].p
       IN  /\ Return(t)
           /\ cache' = IF failed THEN [cache EXCEPT ![p] = 0] ELSE cache
           /\ fdt' = Dropping(fdt, {task[t].fd, cache[p]}, cache', dirs, Returned(t))
    /\ UNCHANGED <<names, data, made, puts, last, dirs, ghosts>>

(* put: the page is written to a file of its own, *)
put(t, s, p) ==
    /\ t \in Writers /\ Idle(t)
    /\ Unlocked(s, p, FALSE)
    /\ puts < MaxPuts
    /\ puts' = puts + 1
    /\ made' = made \cup {s}
    /\ submit_request(t, [Call("put", s, p, "tmp") EXCEPT !.v = puts + 1], "opentmp", 0, 0)
    /\ UNCHANGED <<fdt, names, data, last, cache, dirs, pread, panic, events>>
    /\ calls' = calls + 1
TmpOpened(t) ==
    /\ Ready(t, "tmp")
    /\ LET res == poll(task[t].ret)
       IN  \/ res < 0 /\ Leave(t) /\ UNCHANGED ghosts
           \/ res \in 0 .. 2 /\ Panics(t)
           \/ /\ res > 2
              /\ submit_request(t, [task[t] EXCEPT !.step = "write", !.fd = res], "write", res, PageLen)
              /\ UNCHANGED <<fdt, cache, dirs, ghosts>>
    /\ UNCHANGED <<names, data, made, puts, last>>
(* which is closed, in the background, *)
PageWritten(t) ==
    /\ Ready(t, "write")
    /\ close_fd_background(task[t].fd)
    /\ task' = IF poll(task[t].ret) < 0 THEN Returned(t)
               ELSE With(t, [task[t] EXCEPT !.step = "rename", !.fd = 0, !.ret = NoRet])
    /\ UNCHANGED <<names, data, made, puts, last, cache, dirs, ghosts>>
(* and renamed; then the descriptor of the old file is forgotten. *)
Rename(t) ==
    /\ task[t].step = "rename"
    /\ LET call == task[t]
       IN  /\ names' = [names EXCEPT ![call.s][call.p] = call.v]
           /\ last' = [last EXCEPT ![call.s][call.p] = call.v]
           /\ cache' = [cache EXCEPT ![call.p] = 0]
           /\ fdt' = Dropping(fdt, {cache[call.p]}, cache', dirs, task)
           /\ Return(t)
    /\ UNCHANGED <<data, made, puts, dirs, ghosts>>
RenameFails(t) ==
    /\ task[t].step = "rename"
    /\ events < MaxEvents
    /\ events' = events + 1
    /\ Leave(t)
    /\ UNCHANGED <<names, data, made, puts, last, pread, panic, calls>>

(* delete: the descriptor is forgotten, then the name is removed. *)
delete(t, s, p) ==
    /\ t \in Writers /\ Idle(t)
    /\ Unlocked(s, p, FALSE)
    /\ names[s][p] # 0
    /\ cache' = [cache EXCEPT ![p] = 0]
    /\ fdt' = Dropping(fdt, {cache[p]}, cache', dirs, task)
    /\ submit_request(t, Call("delete", s, p, "unlink"), "unlink", 0, 0)
    /\ UNCHANGED <<names, data, made, puts, last, dirs, pread, panic, events>>
    /\ calls' = calls + 1
Unlinked(t) ==
    /\ Ready(t, "unlink")
    /\ last' = IF poll(task[t].ret) \in {0, -ENOENT} THEN [last EXCEPT ![task[t].s][task[t].p] = 0]
               ELSE last
    /\ Leave(t)
    /\ UNCHANGED <<names, data, made, puts, ghosts>>

(* A wait times out.  The request stays with the driver, without its call.  *)
Abandoned(rs, t) == {IF r.owner = t THEN [r EXCEPT !.owner = Nobody] ELSE r : r \in rs}
AbandonedIn(q, t) == [i \in DOMAIN q |-> IF q[i].owner = t THEN [q[i] EXCEPT !.owner = Nobody] ELSE q[i]]
Timeout(t) ==
    /\ task[t].step \in TimeoutSteps
    /\ ~task[t].ret.set
    /\ \A r \in ring : r.owner = t => r.st # "sync"
    /\ events < MaxEvents
    /\ events' = events + 1
    /\ ring' = Abandoned(ring, t)
    /\ lost' = IF task[t].step \in {"dir", "open", "tmp"} THEN lost + 1 ELSE lost
    /\ task' = Returned(t)
    /\ LET closes == task[t].step \in {"read", "write"}
           sent == IF closes /\ ~Refused THEN Sent(Request("close", Nobody, NoCall, task[t].fd, 0))
                                         ELSE chan
           p == task[t].p
       IN  /\ chan' = [i \in DOMAIN sent |-> AbandonedIn(sent[i], t)]
           /\ sel' = IF closes THEN (sel + 1) % Threads ELSE sel
           /\ cache' = IF task[t].step = "hot" THEN [cache EXCEPT ![p] = 0] ELSE cache
           /\ fdt' = IF closes /\ ~Refused THEN fdt
                     ELSE Dropping(fdt, {task[t].fd, task[t].dir, cache[p]}, cache', dirs, Returned(t))
    /\ UNCHANGED <<names, data, made, puts, last, dirs, pread, panic, calls>>

----------------------------------------------------------------------------
(* The caches: an entry is evicted by capacity; a directory not used for    *)
(* long is dropped.                                                          *)
Evict(p) ==
    /\ cache[p] # 0
    /\ events < MaxEvents /\ events' = events + 1
    /\ cache' = [cache EXCEPT ![p] = 0]
    /\ fdt' = Dropping(fdt, {cache[p]}, cache', dirs, task)
    /\ UNCHANGED <<names, data, made, puts, last, dirs, task, driver, pread, panic, calls>>
maybe_cleanup_dir_fd_cache(s) ==
    /\ dirs[s] # 0
    /\ events < MaxEvents /\ events' = events + 1
    /\ dirs' = [dirs EXCEPT ![s] = 0]
    /\ fdt' = Dropping(fdt, {dirs[s]}, cache, dirs', task)
    /\ UNCHANGED <<names, data, made, puts, last, cache, task, driver, pread, panic, calls>>

KernelStep ==
    \E r \in ring : KernelOpen(r) \/ (\E n \in 0 .. PageLen : KernelRead(r, n) \/ KernelWrite(r, n))
                   \/ KernelClose(r) \/ KernelUnlink(r)
DriverStep == \E i \in 0 .. Threads - 1 : run_uring_thread(i)
CallStep(t) ==
    \/ DirOpened(t) \/ PageOpened(t) \/ PageRead(t) \/ HotRead(t)
    \/ TmpOpened(t) \/ PageWritten(t) \/ Rename(t) \/ Unlinked(t)
Begin(t) == \E s \in Stores, p \in Pages : (\E expired \in BOOLEAN : get_bytes(t, s, p, expired))
                                         \/ put(t, s, p) \/ delete(t, s, p)
Next ==
    \/ KernelStep \/ DriverStep
    \/ \E r \in ring : KernelFails(r)
    \/ \E t \in Tasks : Begin(t) \/ CallStep(t) \/ RenameFails(t) \/ Timeout(t)
    \/ \E p \in Pages : Evict(p)
    \/ \E s \in Stores : maybe_cleanup_dir_fd_cache(s)

Spec == Init /\ [][Next]_vars

----------------------------------------------------------------------------
Opens == {"opendir", "openpage", "opentmp"}
TypeOK ==
    /\ \A s \in Stores, p \in Pages : {names[s][p], last[s][p]} \subseteq 0 .. puts
    /\ \A i \in DOMAIN chan : Len(chan[i]) <= Depth
    /\ \A r \in ring : r.done + r.res <= r.len \/ r.op \in Opens
    /\ \A t \in Tasks : task[t].op = "none" => task[t] = NoCall
    /\ sel \in 0 .. Threads - 1 /\ puts \in 0 .. MaxPuts

(* A get returns the page whole as the last put that succeeded wrote it, or *)
(* nothing, whatever descriptor of the page the process has cached and      *)
(* however short the kernel's reads are (get_bytes, put, delete).            *)
ReadsLatest ==
    \A t \in Tasks :
      LET got == task[t].ret.buf
      IN  (Ready(t, "read") \/ Ready(t, "hot")) /\ poll(task[t].ret) > 0
            => got = [k \in 1 .. PageLen |-> last[task[t].s][task[t].p]]

(* The descriptors the caches and the calls hold are open and are those of  *)
(* the file they were opened for: none is closed under its owner, by a      *)
(* redundant directory handle, an eviction or a background close, and its   *)
(* number given to another file (DirFdEntry, PageFdEntry).                   *)
HeldOpen ==
    /\ \A p \in Pages : cache[p] # 0 => fdt[cache[p]].kind = "page" /\ ~fdt[cache[p]].w
    /\ \A s \in Stores : dirs[s] # 0 => fdt[dirs[s]].kind = "dir" /\ fdt[dirs[s]].n = s
    /\ \A t \in Tasks :
         /\ task[t].dir # 0 => fdt[task[t].dir].kind = "dir" /\ fdt[task[t].dir].n = task[t].s
         /\ task[t].fd # 0 => fdt[task[t].fd].kind = "page"
         /\ task[t].step = "write" => fdt[task[t].fd].n = task[t].v

(* No call takes a standard stream for the file it opened: an errno never   *)
(* passes for a descriptor (UringOpFuture::poll, the assertion after        *)
(* OP_OPENAT).                                                               *)
StdStreamsKept == ~panic /\ \A f \in 0 .. 2 : fdt[f] = StdStream

(* Every open descriptor has an owner or a close under way; only an open    *)
(* that its call no longer waited for, and a background close that meets a  *)
(* full submission queue, leave one behind (close_fd_background).            *)
FdsAccounted ==
    LET queued == ring \cup UNION {Range(chan[i]) : i \in DOMAIN chan}
        closing == {r.fd : r \in {q \in queued : q.op = "close"}}
        opened == {r.res : r \in {q \in ring : q.op \in Opens /\ q.st = "cqe"}}
                    \cup {task[t].ret.code : t \in {u \in Tasks : task[u].step \in {"dir", "open", "tmp"}}}
        open == {f \in 3 .. MaxFd : fdt[f] # Free}
    IN  Cardinality(open \ (Holders(cache, dirs, task) \cup closing \cup opened)) <= lost

(* No call waits for nothing: as long as it has no result, exactly one      *)
(* request of its own is in a channel, with the kernel or about to be       *)
(* reaped; a short transfer is armed again, a full queue answers at once     *)
(* and a timeout takes the request away from the call (run_uring_thread).    *)
WaitersServed ==
    \A t \in Tasks :
      LET mine == {r \in ring : r.owner = t}
          queued == {<<i, k>> \in (DOMAIN chan) \X (1 .. Depth) :
                       k <= Len(chan[i]) /\ chan[i][k].owner = t}
          waits == task[t].op # "none" /\ task[t].step # "rename" /\ ~task[t].ret.set
      IN  Cardinality(mine) + Cardinality(queued) = IF waits THEN 1 ELSE 0
====
