-------------------------- MODULE ConfigRefresher --------------------------
(***************************************************************************)
(* ConfigRefresher (src/config.rs): the two transparent-acceleration       *)
(* switches, reloaded from the properties file by whoever asks after       *)
(* expire_duration.  The callers are the context's refresh task, which     *)
(* asks on start and then every CONFIG_REFRESH_INTERVAL, and operations of *)
(* the application.  Each atomic is stored on its own, and a caller's       *)
(* clock reading may be older than the lock it then takes.                 *)
(***************************************************************************)
EXTENDS Integers

CONSTANTS Callers,     \* the refresh task and the operations that ask
          Task,        \* the refresh task among them
          MaxEdits     \* bound: edits of the file

VARIABLES file,        \* what from_properties_auto would return; "bad" if it fails
          switch,      \* transparent_acceleration_enabled, cosranger_enabled
          expired,     \* last_load_time + expire_duration is in the past
          owner,       \* who holds last_load_time during a reload, or Nobody
          pc,          \* where each caller is
          seen,        \* whether a caller's clock reading is past the expiry of the
                       \* last load
          read,        \* the configuration a reload has read
          edits

vars == <<file, switch, expired, owner, pc, seen, read, edits>>

Flags == [enabled : BOOLEAN, cosranger : BOOLEAN]
Bad == [enabled |-> FALSE, cosranger |-> FALSE, bad |-> TRUE]
Nobody == "nobody"

RefresherAssumption == Nobody \notin Callers /\ MaxEdits \in Nat

\* from_config: the switches of the caller's configuration, and a load time
\* of now.
Init ==
    /\ file \in Flags /\ switch \in Flags
    /\ expired = FALSE
    /\ owner = Nobody
    /\ pc = [c \in Callers |-> IF c = Task THEN "eager" ELSE "idle"]
    /\ seen = [c \in Callers |-> FALSE]
    /\ read = [c \in Callers |-> file]
    /\ edits = 0

\* load_if_expire, first look: the clock is read before the lock is taken.
load_if_expire(c) ==
    /\ pc[c] \in {"eager", "idle"}
    /\ seen' = [seen EXCEPT ![c] = expired]
    /\ pc' = [pc EXCEPT ![c] = IF expired THEN "lock" ELSE "idle"]
    /\ UNCHANGED <<file, switch, expired, owner, read, edits>>

\* The second look, under the lock, with the clock reading of the first: a
\* reload that ended in between makes the load time newer than the reading.
double_check(c) ==
    /\ pc[c] = "lock" /\ owner = Nobody
    /\ IF seen[c]
       THEN /\ owner' = c
            /\ read' = [read EXCEPT ![c] = file]
            /\ pc' = [pc EXCEPT ![c] = "store"]
       ELSE /\ pc' = [pc EXCEPT ![c] = "idle"]
            /\ UNCHANGED <<owner, read>>
    /\ seen' = [seen EXCEPT ![c] = FALSE]
    /\ UNCHANGED <<file, switch, expired, edits>>

\* reload_properties: a failed load keeps both switches; otherwise the first
\* atomic is stored here and the second in the next step.
reload_properties(c) ==
    /\ pc[c] = "store"
    /\ IF read[c] = Bad
       THEN UNCHANGED switch
       ELSE switch' = [switch EXCEPT !.enabled = read[c].enabled]
    /\ pc' = [pc EXCEPT ![c] = "second"]
    /\ UNCHANGED <<file, expired, owner, seen, read, edits>>

loaded(c) ==
    /\ pc[c] = "second"
    /\ IF read[c] = Bad
       THEN UNCHANGED switch
       ELSE switch' = [switch EXCEPT !.cosranger = read[c].cosranger]
    /\ expired' = FALSE
    /\ owner' = Nobody
    /\ seen' = [d \in Callers |-> FALSE]
    /\ pc' = [pc EXCEPT ![c] = "idle"]
    /\ UNCHANGED <<file, read, edits>>

\* Time passes: never under a reload's feet, since last_load_time is set last.
Expire ==
    /\ ~expired
    /\ expired' = TRUE
    /\ UNCHANGED <<file, switch, owner, pc, seen, read, edits>>

Edit ==
    /\ edits < MaxEdits
    /\ file' \in (Flags \cup {Bad}) \ {file}
    /\ edits' = edits + 1
    /\ UNCHANGED <<switch, expired, owner, pc, seen, read>>

Reload(c) == double_check(c) \/ reload_properties(c) \/ loaded(c)
Step(c) == load_if_expire(c) \/ Reload(c)

Next == (\E c \in Callers : Step(c)) \/ Expire \/ Edit
Spec == Init /\ [][Next]_vars

\* The task's timer fires every interval and the interval is longer than the
\* expiry; a caller that has started goes on.
Fairness ==
    /\ WF_vars(Expire)
    /\ WF_vars(Step(Task))
    /\ \A c \in Callers \ {Task} : WF_vars(Reload(c))

----------------------------------------------------------------------------
TypeOK ==
    /\ file \in Flags \cup {Bad} /\ switch \in Flags
    /\ expired \in BOOLEAN /\ owner \in Callers \cup {Nobody}
    /\ pc \in [Callers -> {"eager", "idle", "lock", "store", "second"}]
    /\ seen \in [Callers -> BOOLEAN] /\ edits \in 0..MaxEdits

\* Two callers never store the switches at once, and one that finds a
\* reload done while it waited for the lock does not start another.
OneReload ==
    \A c \in Callers : pc[c] \in {"store", "second"} => owner = c /\ expired

\* The last edit of the file reaches both switches, whoever reloads and however
\* the two stores fall between the edits.
Follows == switch = file \/ file = Bad
============================================================================
