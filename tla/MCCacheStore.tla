---------------------------- MODULE MCCacheStore ----------------------------
(***************************************************************************)
(* The client's page cache for TLC: PageCache (the manager and its tasks)  *)
(* and UringStore (the io_uring page store below it). Each behaviour runs  *)
(* one of them, named by on; the other stays in one of its initial states. *)
(***************************************************************************)
EXTENDS PageCache

CONSTANTS
    Stores, Pages, RingCallers, Writers, MaxFd, Threads, QueueDepth,
    PageLen, PreadModes, ShortWrites, MaxPuts, MaxCalls, MaxEvents,
    TimeoutSteps

VARIABLES on,
          pread, fdt, names, bytes, puts, made, last, cache, dirs, task,
          chan, ring, sel, lost, panic, calls, events

uring == INSTANCE UringStore
    WITH Tasks <- RingCallers, data <- bytes

uringVars == <<pread, fdt, names, bytes, puts, made, last, cache, dirs,
    task, chan, ring, sel, lost, panic, calls, events>>
all == <<on, vars, uringVars>>

\* The values of its variables while UringStore does not run.
uringOff ==
    /\ pread = 0 /\ fdt = 0 /\ names = 0 /\ bytes = 0 /\ puts = 0
    /\ made = 0 /\ last = 0 /\ cache = 0 /\ dirs = 0 /\ task = 0 /\ chan = 0
    /\ ring = 0 /\ sel = 0 /\ lost = 0 /\ panic = 0 /\ calls = 0
    /\ events = 0

\* One lock stripe per page index.
PageStripeIndex == [p \in Files \X PageIdx |-> p[2]]

SuiteInit ==
    /\ on \in {"cache", "uring"}
    /\ Init
    /\ IF on = "uring" THEN uring!Init ELSE uringOff

\* The calls the bound allows are over.
Rest == on = "uring" /\ calls = MaxCalls /\ UNCHANGED all

SuiteNext ==
    \/ on = "cache" /\ Next /\ UNCHANGED <<on, uringVars>>
    \/ on = "uring" /\ uring!Next /\ UNCHANGED <<on, vars>>
    \/ Rest

SuiteSpec == SuiteInit /\ [][SuiteNext]_all

----------------------------------------------------------------------------
\* A get of the store returns the page whole as the last put wrote it, or
\* nothing; every descriptor the store holds is open, is that of its file and
\* is no errno; every open descriptor has an owner or a close under way; and
\* a call that waits has exactly one request under way (UringStore).
StoreSound ==
    on = "uring" => /\ uring!TypeOK /\ uring!ReadsLatest /\ uring!HeldOpen
                    /\ uring!StdStreamsKept /\ uring!FdsAccounted /\ uring!WaitersServed
============================================================================
