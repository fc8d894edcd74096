-------------------------- MODULE SignalingAbstract --------------------------
(***************************************************************************)
(* What the signaling session promises its callers (spec 3 and 4.3): a    *)
(* thread that calls send_request_and_recv_response with a fresh id blocks *)
(* until it is handed the response to that id, is handed it once, and      *)
(* returns only with it. Nothing is said about queues, sockets or threads. *)
(***************************************************************************)
EXTENDS Integers

CONSTANTS
    Callers,        \* caller threads
    ClientIds,      \* request ids
    NoRequest,      \* the id a caller holds before its first request
    NoMsg           \* no reply yet

VARIABLES
    pc,             \* "idle" or "waiting"
    reqId,          \* the id of the caller's current request
    reply,          \* what the caller has been handed for it
    issued          \* ids used so far

vars == <<pc, reqId, reply, issued>>

(* The response to request id, as far as correlation tells it apart.       *)
ResponseTo(id) == [id |-> id, kind |-> "response"]

Init ==
    /\ pc = [c \in Callers |-> "idle"]
    /\ reqId = [c \in Callers |-> NoRequest]
    /\ reply = [c \in Callers |-> NoMsg]
    /\ issued = {}

Call(c, id) ==
    /\ pc[c] = "idle"
    /\ id \in ClientIds \ issued
    /\ pc' = [pc EXCEPT ![c] = "waiting"]
    /\ reqId' = [reqId EXCEPT ![c] = id]
    /\ reply' = [reply EXCEPT ![c] = NoMsg]
    /\ issued' = issued \cup {id}

Answer(c) ==
    /\ pc[c] = "waiting"
    /\ reply[c] = NoMsg
    /\ reply' = [reply EXCEPT ![c] = ResponseTo(reqId[c])]
    /\ UNCHANGED <<pc, reqId, issued>>

Return(c) ==
    /\ pc[c] = "waiting"
    /\ reply[c] # NoMsg
    /\ pc' = [pc EXCEPT ![c] = "idle"]
    /\ UNCHANGED <<reqId, reply, issued>>

Next ==
    \E c \in Callers :
        \/ \E id \in ClientIds : Call(c, id)
        \/ Answer(c)
        \/ Return(c)

Spec == Init /\ [][Next]_vars
=============================================================================
