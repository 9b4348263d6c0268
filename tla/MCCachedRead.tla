---------------------------- MODULE MCCachedRead ----------------------------
(***************************************************************************)
(* Reading a file through the page cache, for TLC: PageCache (the manager, *)
(* its readers and its reaper) and AsyncReader over FileInStream (the      *)
(* stream that reads what the cache does not serve). Each behaviour runs   *)
(* one of them, named by on; the other stays in its initial state or is    *)
(* off.                                                                    *)
(***************************************************************************)
EXTENDS PageCache

CONSTANTS
    Length, BlockSize, ChunkSize, MaxBuf, Threshold, BufferMessages, Window,
    AckBytes, AckChunks, AckCap, MaxFaults

VARIABLES on,
          pos, carry_over, in_stream, cached, in_pc, arg, cur, out, faults,
          dropped, state, want, shrunk, given

adapter == INSTANCE AsyncReader
    WITH stream <- in_stream, pc <- in_pc

adapterVars == <<pos, carry_over, in_stream, cached, in_pc, arg, cur, out,
    faults, dropped, state, want, shrunk, given>>
all == <<on, vars, adapterVars>>

\* The values of its variables while AsyncReader does not run.
adapterOff ==
    /\ pos = 0 /\ carry_over = 0 /\ in_stream = 0 /\ cached = 0 /\ in_pc = 0
    /\ arg = 0 /\ cur = 0 /\ out = 0 /\ faults = 0 /\ dropped = 0
    /\ state = 0 /\ want = 0 /\ shrunk = 0 /\ given = 0

ASSUME adapter!StreamAssumption

\* Both pages on one lock stripe, the coarsest striping.
OneStripeIndex == [p \in Files \X PageIdx |-> 0]

SuiteInit ==
    /\ on \in {"cache", "adapter"}
    /\ Init
    /\ IF on = "adapter" THEN adapter!AsyncInit ELSE adapterOff

SuiteNext ==
    \/ on = "cache" /\ Next /\ UNCHANGED <<on, adapterVars>>
    \/ on = "adapter" /\ adapter!AsyncNext /\ UNCHANGED <<on, vars>>

\* The fairness of each component, in the behaviours it is part of.
SuiteSpec ==
    /\ SuiteInit /\ [][SuiteNext]_all
    /\ Fairness
    /\ WF_adapterVars(on = "adapter" /\ adapter!FairWorker)
    /\ WF_adapterVars(on = "adapter" /\ adapter!FairStep)
    /\ WF_adapterVars(on = "adapter" /\ adapter!HandOver)

\* The behaviours of the page cache alone.
CacheSpec == SuiteInit /\ on = "cache" /\ [][SuiteNext]_all

----------------------------------------------------------------------------
\* A read returns the bytes at the position of the caller and leaves it
\* behind them, an open block stream delivers from where the reader is,
\* poll_read hands over all the stream gave, and read_at returns its whole
\* range or an error (FileInStream, AsyncReader).
StreamExact ==
    /\ [](on = "adapter" => /\ adapter!TypeOK /\ adapter!ReadsInOrder
                            /\ adapter!StreamAligned /\ adapter!NothingLost)
    /\ [][on = "adapter" => adapter!WholeRange]_adapterVars

\* Every read of the cache ends, and every call of the adapter gives the
\* stream back (PageCache, AsyncReader).
CallsReturn ==
    /\ ReadersReturn
    /\ (on = "adapter" /\ ~adapter!Returned) ~> (on = "adapter" => adapter!Returned)
=============================================================================
