------------------------------- MODULE Session -------------------------------
(***************************************************************************)
(* The authenticated channel to a worker: src/auth/authenticator.rs,       *)
(* src/auth/sasl_client.rs, WorkerClient::connect of src/client/worker.rs, *)
(* and what src/error.rs makes of the failures.                            *)
(*                                                                         *)
(* Every handshake has a channel id of its own.  The server holds the id   *)
(* as long as the client holds the SASL stream open, in a guard shared by  *)
(* all the clones of the connection; it refuses the RPCs of other ids.     *)
(* A connection is replaced when an RPC on it failed with a retriable      *)
(* error, while others may still be using it.                              *)
(***************************************************************************)
EXTENDS Integers, FiniteSets

CONSTANTS Users,        \* tasks that use the connection
          MaxIds,       \* bound on handshakes
          MaxTroubles   \* bound on what goes wrong: at dialling, in the
                        \* handshake, in an RPC, restarts of the server

SessionAssumption == MaxIds \in Nat /\ MaxTroubles \in Nat

VARIABLES
    auth_type,    \* of the client
    scheme,       \* external: what the server requires
    shake,        \* the handshake under way
    last_id,      \* ids are drawn in order (a UUID)
    current,      \* the id of the cached connection, 0 if there is none
    clone,        \* the id of the connection each user has a clone of
    use,          \* what each user is doing
    outcome,      \* the error each user saw last
    registered,   \* external: the ids the server takes for authenticated
    revoked,      \* ghost: the ids a restart of the server made it forget
    troubles

vars == <<auth_type, scheme, shake, last_id, current, clone, use, outcome,
          registered, revoked, troubles>>
serverVars == <<scheme, registered, revoked>>

Ids == 1 .. MaxIds
NoShake == [id |-> 0, at |-> "idle", message |-> "none"]

----------------------------------------------------------------------------
(* src/error.rs: an error is its variant with the status code it wraps *)

Codes == {"Unavailable", "DeadlineExceeded", "Aborted", "Unauthenticated", "NotFound",
          "AlreadyExists", "PermissionDenied", "InvalidArgument",
          "FailedPrecondition", "Internal"}
Answers == (Codes \ {"Unauthenticated"}) \cup {"Ok"}
NoCode == "none"
NoError == [kind |-> "none", code |-> NoCode]
ErrorOf(kind, code) == [kind |-> kind, code |-> code]
GrpcError(code) == ErrorOf("GrpcError", code)
InternalError == ErrorOf("Internal", NoCode)
TransportError == ErrorOf("TransportError", NoCode)

(* Mutant of from_status: no variant of its own for UNAUTHENTICATED. *)
from_statusGeneric(code) ==
    IF code \in {"NotFound", "AlreadyExists", "PermissionDenied", "InvalidArgument"}
    THEN ErrorOf(code, NoCode)
    ELSE GrpcError(code)

(* From<tonic::Status>; FAILED_PRECONDITION has further variants by message,  *)
(* none of them retriable.                                                    *)
from_status(code) ==
    CASE code \in {"NotFound", "AlreadyExists", "PermissionDenied", "InvalidArgument"} ->
            ErrorOf(code, NoCode)
      [] code = "Unauthenticated" -> ErrorOf("AuthenticationFailed", NoCode)
      [] OTHER -> GrpcError(code)

is_retriable(error) ==
    \/ error.kind = "GrpcError" /\ error.code \in {"Unavailable", "DeadlineExceeded", "Aborted"}
    \/ error.kind \in {"TransportError", "AuthenticationFailed"}

is_authentication_failed(error) == error.kind = "AuthenticationFailed"

is_unavailable(error) ==
    \/ error.kind = "GrpcError" /\ error.code = "Unavailable"
    \/ error.kind = "TransportError"

----------------------------------------------------------------------------
(* The guard of the SASL stream *)

(* The stream of an id is open on the client's side: during its handshake,    *)
(* and then as long as a clone of the WorkerClient holds the Arc of the guard.*)
guarded(id) == id \in {current, shake.id} \cup {clone[u] : u \in Users}

Trouble == troubles < MaxTroubles /\ troubles' = troubles + 1
NoTrouble == UNCHANGED troubles

----------------------------------------------------------------------------
(* Connecting *)

Init ==
    /\ auth_type \in {"NOSASL", "SIMPLE"} /\ scheme \in {auth_type, "SIMPLE"}
    /\ shake = NoShake /\ last_id = 0 /\ current = 0
    /\ clone = [u \in Users |-> 0] /\ use = [u \in Users |-> "idle"]
    /\ outcome = [u \in Users |-> NoError]
    /\ registered = {} /\ revoked = {} /\ troubles = 0

(* The users that wait for a connection are served, or get its error. *)
Waiting == {u \in Users : use[u] = "connect"}
Serve(id) ==
    /\ clone' = [u \in Users |-> IF u \in Waiting THEN id ELSE clone[u]]
    /\ use' = [u \in Users |-> IF u \in Waiting THEN "call" ELSE use[u]]
    /\ current' = id
    /\ shake' = NoShake
    /\ UNCHANGED <<auth_type, outcome>>
Refuse(error) ==
    /\ outcome' = [u \in Users |-> IF u \in Waiting THEN error ELSE outcome[u]]
    /\ use' = [u \in Users |-> IF u \in Waiting THEN "idle" ELSE use[u]]
    /\ shake' = NoShake
    /\ UNCHANGED <<auth_type, current, clone>>

(* No handshake: the channel is wrapped as it is. *)
authenticate_nosasl == auth_type = "NOSASL" /\ Serve(last_id + 1)

(* The SASL stream is opened with its initial message. *)
authenticate_simple ==
    /\ auth_type = "SIMPLE"
    /\ shake' = [id |-> last_id + 1, at |-> "call", message |-> "none"]
    /\ UNCHANGED <<auth_type, current, clone, use, outcome>>

(* WorkerClient::connect: dial, then authenticate. *)
connect ==
    /\ Waiting # {} /\ shake = NoShake /\ last_id < MaxIds
    /\ last_id' = last_id + 1
    /\ \/ Trouble /\ Refuse(TransportError)
       \/ NoTrouble /\ (authenticate_nosasl \/ authenticate_simple)
    /\ UNCHANGED serverVars

(* The server answers the client's message: SUCCESS, after which it takes the *)
(* id; a challenge; the end of the stream; or an error of the RPC.            *)
ServerAnswers ==
    /\ shake.at \in {"call", "response"} /\ shake.message = "none"
    /\ \/ /\ NoTrouble
          /\ shake' = [shake EXCEPT !.message = "SUCCESS"]
          /\ registered' = registered \cup {shake.id}
       \/ /\ Trouble
          /\ \E m \in {"CHALLENGE", "end", "error", "silence"} :
                shake' = [shake EXCEPT !.message = m]
          /\ UNCHANGED registered
    /\ UNCHANGED <<auth_type, scheme, last_id, current, clone, use, outcome, revoked>>

(* handle_message: SUCCESS completes the handshake, a challenge is answered   *)
(* with the same response again.                                              *)
handle_message ==
    /\ \/ shake.message = "SUCCESS" /\ Serve(shake.id)
       \/ /\ shake.message = "CHALLENGE"
          /\ shake' = [shake EXCEPT !.at = "response", !.message = "none"]
          /\ UNCHANGED <<auth_type, current, clone, use, outcome>>
    /\ NoTrouble /\ UNCHANGED <<last_id, serverVars>>

(* The RPC or its stream fails, with any code; or it ends without SUCCESS. *)
handshake_fails ==
    /\ \/ shake.message = "error" /\ \E code \in {"Unauthenticated", "Unavailable"} :
                                         Refuse(GrpcError(code))
       \/ shake.message = "end" /\ Refuse(InternalError)
    /\ NoTrouble /\ UNCHANGED <<last_id, serverVars>>

(* Mutant of auth_timeout: only the wait for the first answer is timed. *)
auth_timeoutFirst ==
    /\ shake.at = "call" /\ shake.message = "silence"
    /\ Refuse(InternalError)
    /\ NoTrouble /\ UNCHANGED <<last_id, serverVars>>

(* Both waits are under auth_timeout: a silent server, and an answer that     *)
(* comes too late.                                                            *)
auth_timeout ==
    /\ shake.at \in {"call", "response"}
    /\ \/ shake.message = "silence" /\ NoTrouble
       \/ shake.message # "silence" /\ Trouble
    /\ Refuse(InternalError)
    /\ UNCHANGED <<last_id, serverVars>>

----------------------------------------------------------------------------
(* The users of the connection *)

CanConnect == shake # NoShake \/ last_id < MaxIds

(* Take a clone of the cached connection, or wait for one to be made. *)
Acquire(u) ==
    /\ use[u] = "idle"
    /\ IF current = 0 THEN /\ CanConnect
                           /\ use' = [use EXCEPT ![u] = "connect"] /\ UNCHANGED clone
       ELSE /\ use' = [use EXCEPT ![u] = "call"]
            /\ clone' = [clone EXCEPT ![u] = current]
    /\ outcome' = [outcome EXCEPT ![u] = NoError]
    /\ NoTrouble
    /\ UNCHANGED <<auth_type, shake, last_id, current, serverVars>>

(* An RPC: the ChannelIdInterceptor sends the id along.  After a retriable    *)
(* error the user goes on with a newer connection if there is one, or has its *)
(* own replaced; otherwise it is done with its clone.                         *)
Rpc(u) ==
    /\ use[u] = "call"
    /\ \E code \in IF scheme = "SIMPLE" /\ clone[u] \notin registered
                   THEN {"Unauthenticated"} ELSE Answers :
        LET error == IF code = "Ok" THEN NoError ELSE from_status(code)
            again == is_retriable(error)
            newer == IF again /\ current # clone[u] THEN current ELSE 0 IN
        /\ IF code \in {"Ok", "Unauthenticated"} THEN NoTrouble ELSE Trouble
        /\ outcome' = [outcome EXCEPT ![u] = error]
        /\ clone' = [clone EXCEPT ![u] = newer]
        /\ use' = [use EXCEPT ![u] = IF newer # 0 THEN "call"
                                     ELSE IF again /\ CanConnect THEN "connect" ELSE "idle"]
        /\ current' = IF again /\ current = clone[u] THEN 0 ELSE current
    /\ UNCHANGED <<auth_type, shake, last_id, serverVars>>

----------------------------------------------------------------------------
(* The server *)

(* The end of the SASL stream unregisters its id. *)
Unregister ==
    /\ \E id \in registered : ~guarded(id) /\ registered' = registered \ {id}
    /\ NoTrouble
    /\ UNCHANGED <<auth_type, scheme, shake, last_id, current, clone, use, outcome, revoked>>

Restart ==
    /\ registered # {} /\ Trouble
    /\ registered' = {} /\ revoked' = revoked \cup registered
    /\ UNCHANGED <<auth_type, scheme, shake, last_id, current, clone, use, outcome>>

(* The bound on handshakes is used up. *)
Exhausted ==
    /\ ~CanConnect /\ current = 0 /\ registered = {} /\ \A u \in Users : use[u] = "idle"
    /\ UNCHANGED vars

ClientStep == connect \/ handle_message \/ handshake_fails
AnswerOrTimeout == ServerAnswers \/ auth_timeout

Next ==
    \/ ClientStep \/ AnswerOrTimeout
    \/ \E u \in Users : Acquire(u) \/ Rpc(u)
    \/ Unregister \/ Restart \/ Exhausted

Spec == Init /\ [][Next]_vars

(* The runtime polls the connecting task and its timers. *)
Fairness == WF_vars(ClientStep) /\ WF_vars(AnswerOrTimeout)

----------------------------------------------------------------------------
Shakes ==
    [id : 0 .. MaxIds, at : {"idle", "call", "response"},
     message : {"none", "SUCCESS", "CHALLENGE", "end", "error", "silence"}]

TypeOK ==
    /\ auth_type \in {"NOSASL", "SIMPLE"} /\ shake \in Shakes
    /\ last_id \in 0 .. MaxIds /\ current \in 0 .. MaxIds
    /\ clone \in [Users -> 0 .. MaxIds]
    /\ use \in [Users -> {"idle", "connect", "call"}]
    /\ DOMAIN outcome = Users
    /\ registered \subseteq Ids /\ revoked \subseteq Ids
    /\ troubles \in 0 .. MaxTroubles

(* A connection in use stays authenticated: every clone, and the cached       *)
(* connection, has an id the server takes, whatever became of the other       *)
(* clones and of the connection that replaced it; only a restart of the       *)
(* server takes it away (SaslStreamGuard, take_sasl_guard).                   *)
SessionHeld ==
    auth_type = "SIMPLE" =>
        \A id \in Ids : id \in {current} \cup {clone[u] : u \in Users}
                            => id \in registered \cup revoked

(* "The router must not mark the worker as failed when this error is          *)
(* returned": an RPC refused on a connection that was authenticated once      *)
(* fails with an error that asks for another handshake, not with one that     *)
(* says the worker cannot be reached.                                         *)
RefusedRetries ==
    \A u \in Users :
        use[u] = "call" /\ clone[u] \in revoked /\ use'[u] # "call" /\ scheme = "SIMPLE"
            => /\ is_authentication_failed(outcome'[u])
               /\ is_retriable(outcome'[u]) /\ ~is_unavailable(outcome'[u])

=============================================================================
