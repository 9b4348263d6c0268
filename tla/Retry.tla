-------------------------------- MODULE Retry --------------------------------
(***************************************************************************)
(* The retry policies of src/retry.rs, and the loop that drives them       *)
(* (poll_for_primary of src/client/master_inquire.rs): ask should_retry,   *)
(* attempt, sleep for next_sleep.  Durations are counted in ticks; an      *)
(* attempt takes at least one, and jitter at most one per sleep.           *)
(***************************************************************************)
EXTENDS Integers

CONSTANTS Sleeps,          \* values of initial_sleep and max_sleep
          MaxDuration,     \* max_duration of the time-bounded policy
          MaxRetries,      \* max_retries of the count-bounded policy
          MaxAttemptTime   \* bound on the time one attempt takes

RetryAssumption ==
    /\ Sleeps \subseteq Nat
    /\ MaxDuration \in Nat
    /\ MaxRetries \in Nat
    /\ MaxAttemptTime \in Nat \ {0}

VARIABLES
    policy,         \* which of the two policies
    max_sleep,
    initial_sleep,
    attempts,
    current_sleep,
    elapsed,        \* since start
    loop            \* where the loop is

vars == <<policy, max_sleep, initial_sleep, attempts, current_sleep, elapsed, loop>>

Smaller(a, b) == IF a < b THEN a ELSE b
Larger(a, b) == IF a < b THEN b ELSE a

(* ExponentialTimeBoundedRetry::new, ExponentialBackoffRetry::new *)
Init ==
    /\ policy \in {"time", "count"}
    /\ max_sleep \in Sleeps /\ initial_sleep \in Sleeps
    /\ attempts = 0 /\ current_sleep = initial_sleep
    /\ elapsed = 0 /\ loop = "ask"

(* Mutant of Spent: one retry too many. *)
SpentLate ==
    IF policy = "time" THEN elapsed >= MaxDuration ELSE attempts > MaxRetries + 1

Spent ==
    IF policy = "time" THEN elapsed >= MaxDuration ELSE attempts > MaxRetries

Doubled == Smaller(2 * current_sleep, max_sleep)

(* should_retry: the first attempt is always allowed, and leaves the sleep as *)
(* it is; the others while there is time or a retry left.                     *)
should_retry ==
    /\ loop = "ask"
    /\ IF attempts > 0 /\ Spent
       THEN loop' = "over" /\ UNCHANGED <<attempts, current_sleep>>
       ELSE /\ attempts' = attempts + 1
            /\ current_sleep' = IF attempts' >= 2 THEN Doubled ELSE current_sleep
            /\ loop' = "attempt"
    /\ UNCHANGED <<policy, max_sleep, initial_sleep, elapsed>>

(* One attempt, which fails; a success leaves the loop. *)
Attempt ==
    /\ loop = "attempt"
    /\ \E t \in 1 .. MaxAttemptTime : elapsed' = elapsed + t
    /\ loop' \in {"sleep", "over"}
    /\ UNCHANGED <<policy, max_sleep, initial_sleep, attempts, current_sleep>>

(* next_sleep and the sleep: add_jitter makes it up to a tenth longer. *)
next_sleep ==
    /\ loop = "sleep"
    /\ \E jitter \in {0, 1} : elapsed' = elapsed + current_sleep + Smaller(jitter, current_sleep)
    /\ loop' = "ask"
    /\ UNCHANGED <<policy, max_sleep, initial_sleep, attempts, current_sleep>>

Over == loop = "over" /\ UNCHANGED vars

Next == should_retry \/ Attempt \/ next_sleep \/ Over
Spec == Init /\ [][Next]_vars

----------------------------------------------------------------------------
LongestSleep == Larger(initial_sleep, max_sleep)

(* The count-bounded policy allows max_retries + 1 attempts; the time-bounded *)
(* one starts every attempt but the first before the deadline, so that the    *)
(* loop is late by one attempt and one sleep at most ("total time budget for   *)
(* all retries").                                                             *)
BudgetKept ==
    /\ policy = "count" => attempts <= MaxRetries + 1
    /\ policy = "time" => elapsed < Larger(MaxDuration, 1) + MaxAttemptTime + LongestSleep + 1

(* The sleep is the initial one before any retry and never longer than the    *)
(* ceiling after one, also when the initial sleep is above the ceiling.       *)
SleepCapped ==
    IF attempts < 2 THEN current_sleep = initial_sleep ELSE current_sleep <= max_sleep
=============================================================================
