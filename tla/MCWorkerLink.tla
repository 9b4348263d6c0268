---------------------------- MODULE MCWorkerLink ----------------------------
(***************************************************************************)
(* The client's connections to the workers, for TLC: WorkerPool (the pool  *)
(* of connections), Session (authentication of one connection),            *)
(* BlockStream (a write stream on one) and Retry (the policies of the      *)
(* retry loops). Each behaviour runs one of them, named by on; the others  *)
(* stay in their initial state or are off.                                 *)
(***************************************************************************)
EXTENDS WorkerPool

CONSTANTS
    Users, MaxIds, MaxTroubles,
    RequestCap, ResponseCap, MaxWrites, MaxGivenUp,
    Sleeps, MaxDuration, MaxRetries, MaxAttemptTime

VARIABLES on,
          auth_type, scheme, shake, last_id, current, clone, use, outcome,
          registered, revoked, troubles,
          caller, sending, requests, sender, task, forward, responses,
          worker, written, failed, flushed, used,
          policy, max_sleep, initial_sleep, attempts, current_sleep,
          elapsed, loop

session == INSTANCE Session
stream == INSTANCE BlockStream
retry == INSTANCE Retry

ASSUME LinkAssumption ==
    session!SessionAssumption /\ stream!StreamAssumption /\ retry!RetryAssumption

sessionVars == <<auth_type, scheme, shake, last_id, current, clone, use,
    outcome, registered, revoked, troubles>>
streamVars == <<caller, sending, requests, sender, task, forward, responses,
    worker, written, failed, flushed, used>>
retryVars == <<policy, max_sleep, initial_sleep, attempts, current_sleep,
    elapsed, loop>>
all == <<on, vars, sessionVars, streamVars, retryVars>>

\* The values of its variables while Session does not run.
sessionOff ==
    /\ auth_type = 0 /\ scheme = 0 /\ shake = 0 /\ last_id = 0
    /\ current = 0 /\ clone = 0 /\ use = 0 /\ outcome = 0 /\ registered = 0
    /\ revoked = 0 /\ troubles = 0

\* The values of its variables while BlockStream does not run.
streamOff ==
    /\ caller = 0 /\ sending = 0 /\ requests = 0 /\ sender = 0 /\ task = 0
    /\ forward = 0 /\ responses = 0 /\ worker = 0 /\ written = 0
    /\ failed = 0 /\ flushed = 0 /\ used = 0

\* The values of its variables while Retry does not run.
retryOff ==
    /\ policy = 0 /\ max_sleep = 0 /\ initial_sleep = 0 /\ attempts = 0
    /\ current_sleep = 0 /\ elapsed = 0 /\ loop = 0

SuiteInit ==
    /\ on \in {"pool", "session", "stream", "retry"}
    /\ Init
    /\ IF on = "session" THEN session!Init ELSE sessionOff
    /\ IF on = "stream" THEN stream!Init ELSE streamOff
    /\ IF on = "retry" THEN retry!Init ELSE retryOff

SuiteNext ==
    \/ on = "pool" /\ Next /\ UNCHANGED <<on, sessionVars, streamVars, retryVars>>
    \/ on = "session" /\ session!Next /\ UNCHANGED <<on, vars, streamVars, retryVars>>
    \/ on = "stream" /\ stream!Next /\ UNCHANGED <<on, vars, sessionVars, retryVars>>
    \/ on = "retry" /\ retry!Next /\ UNCHANGED <<on, vars, sessionVars, streamVars>>

\* The fairness of each component, in the behaviours it is part of.
SuiteSpec ==
    /\ SuiteInit /\ [][SuiteNext]_all
    /\ Fairness
    /\ WF_sessionVars(on = "session" /\ session!ClientStep)
    /\ WF_sessionVars(on = "session" /\ session!AnswerOrTimeout)
    /\ WF_streamVars(on = "stream" /\ stream!CallerStep)
    /\ WF_streamVars(on = "stream" /\ stream!TaskStep)
    /\ WF_streamVars(on = "stream" /\ stream!WorkerStep)

----------------------------------------------------------------------------
\* One handshake per worker at a time, and none that another has made
\* unnecessary (WorkerPool).
OneHandshake == TypeOK /\ SingleHandshake /\ NoDuplicateHandshake

\* A connection in use stays authenticated, and a refused RPC asks for another
\* handshake and does not mark the worker failed (Session).
SessionHeld ==
    /\ [](on = "session" => session!TypeOK /\ session!SessionHeld)
    /\ [][on = "session" => session!RefusedRetries]_sessionVars

\* An acknowledged flush means the worker has the chunks before it, and a
\* close that succeeds has committed the block whole (BlockStream).
AcksMeanStored ==
    on = "stream" => /\ stream!TypeOK /\ stream!FlushReachesWorker
                     /\ stream!CloseMeansCommitted

\* A retry loop keeps its budget and no sleep after a retry is longer than the
\* ceiling (Retry).
RetryBounded == on = "retry" => retry!BudgetKept /\ retry!SleepCapped

\* Every acquire and reconnect returns (WorkerPool), every wait for a
\* connection ends (Session), and every call on a write stream returns unless
\* the worker is silent after its headers, and a handle that is gone leaves no
\* task (BlockStream).
LinkReturns ==
    /\ CallsReturn
    /\ (on = "session" /\ session!Waiting # {}) ~> (on = "session" => session!Waiting = {})
    /\ (on = "stream" /\ ~stream!Settled) ~> (on = "stream" => stream!Settled)
=============================================================================
