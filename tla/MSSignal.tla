------------------------------ MODULE MSSignal ------------------------------
(***************************************************************************)
(* The signaling session of the SDK (src/mssdk/mssignal/mssignal.cpp) and  *)
(* the request/notify dispatch it drives (msapi.cpp, media_control.cpp),   *)
(* talking to an SFU over one websocket.                                   *)
(*                                                                         *)
(* Three threads of the program take part:                                 *)
(*   - callers: threads blocked in send_request_and_recv_response;         *)
(*   - the dispatch loop (MSSignal::ThreadProc) that moves a message from  *)
(*     send_list_ to the socket and then into ack_list_;                   *)
(*   - the websocket I/O thread that runs on_text_message for every frame. *)
(* ThreadProc holds mutex_ across send_text and the ack_list_ insertion,   *)
(* but on_text_message takes no lock, so the I/O thread can run between    *)
(* the two: LoopTransmit and LoopRecordAck are separate steps.             *)
(*                                                                         *)
(* The SFU is the environment: it reads the socket in order, answers the   *)
(* requests it has read in any order, and may push requests (newConsumer)  *)
(* and notifications of its own.                                           *)
(***************************************************************************)
EXTENDS Integers, Sequences, FiniteSets, Functions, TLC

CONSTANTS
    Callers,        \* threads that issue blocking requests
    ClientIds,      \* ids the client's request builders may put on a request
    ServerIds,      \* ids the SFU may put on the requests it pushes
    NoWaiter,       \* model value: a message sent without a promise
    NoMsg           \* model value: no message

ASSUME ClientIds \subseteq Int \ {0, -1}
ASSUME ServerIds \subseteq Int \ {0, -1}

(* Methods. Client requests carry ClientMethod; the SFU pushes requests of *)
(* a registered method (newConsumer, newDataConsumer) or of another one,   *)
(* and notifications.                                                      *)
ClientMethod     == "clientRequest"
Registered       == {"newConsumer", "newDataConsumer"}
ServerMethods    == Registered \cup {"otherRequest"}
NotifyMethods    == {"mediasoupVersion", "otherNotify"}
Methods          == {ClientMethod, ""} \cup ServerMethods \cup NotifyMethods

(* message_from_json: an envelope without an id gets id -1.                *)
NoId == -1
Ids  == ClientIds \cup ServerIds \cup {NoId}

Msg == [id : Ids, kind : {"request", "response", "notify"},
        method : Methods, waiter : Callers \cup {NoWaiter}]

VARIABLES
    sendList,       \* send_list_: unordered_map id -> message
    ackList,        \* ack_list_:  unordered_map id -> message
    loopPc,         \* the dispatch thread: "start" (created, ThreadProc not yet
                    \* entered), "poll", or "sent" (between send_text and the ack insert)
    loopMsg,        \* the message ThreadProc took from send_list_
    wire,           \* frames on the socket towards the SFU (TCP: in order)
    inbox,          \* frames on the socket towards the client (TCP: in order)
    channel,        \* "open" or "closed": the websocket
    srvPending,     \* ids of client requests the SFU has read and not answered
    srvPushed,      \* ids of the requests the SFU has pushed
    srvNotified,    \* notifications the SFU has pushed
    srvAnswered,    \* ids of pushed requests whose response reached the SFU
    consumerReqs,   \* consumer_list_/data_consumer_list_: pushed requests handled
    versionSeen,    \* MediaSoupAPI::promise_ set by the mediasoupVersion notify
    callerPc,       \* "idle" or "waiting" in send_request_and_recv_response
    callerId,       \* id of the caller's last request
    callerResult,   \* the value its promise was set to, or NoMsg
    usedIds,        \* client ids already used
    closed          \* MSSignal::close() was called

vars == <<sendList, ackList, loopPc, loopMsg, wire, inbox, channel,
          srvPending, srvPushed, srvNotified, srvAnswered, consumerReqs,
          versionSeen, callerPc, callerId, callerResult, usedIds, closed>>

srvVars == <<srvPending, srvPushed, srvNotified, srvAnswered>>

-----------------------------------------------------------------------------
(* unordered_map helpers: operator[] assignment overwrites, erase removes. *)
Put(f, k, v) == (k :> v) @@ f
Erase(f, k)  == Restrict(f, DOMAIN f \ {k})

Init ==
    /\ sendList = << >>
    /\ ackList = << >>
    /\ loopPc = "start"
    /\ loopMsg = NoMsg
    /\ wire = << >>
    /\ inbox = << >>
    /\ channel = "open"
    /\ srvPending = {}
    /\ srvPushed = {}
    /\ srvNotified = {}
    /\ srvAnswered = {}
    /\ consumerReqs = {}
    /\ versionSeen = FALSE
    /\ callerPc = [c \in Callers |-> "idle"]
    /\ callerId = [c \in Callers |-> NoId]
    /\ callerResult = [c \in Callers |-> NoMsg]
    /\ usedIds = {}
    /\ closed = FALSE

-----------------------------------------------------------------------------
(* MSSignal::send(request, promise, callback): message_from_json, then     *)
(* send_list_[id] = msg under mutex_.                                      *)
Send(m) == sendList' = Put(sendList, m.id, m)

(* Mutant: the promise of the previous request is reused.                 *)
SendRequestReusePromise(c, id) ==
    /\ callerPc[c] = "idle"
    /\ id \in ClientIds \ usedIds
    /\ Send([id |-> id, kind |-> "request", method |-> ClientMethod, waiter |-> c])
    /\ callerPc' = [callerPc EXCEPT ![c] = "waiting"]
    /\ callerId' = [callerId EXCEPT ![c] = id]
    /\ usedIds' = usedIds \cup {id}
    /\ UNCHANGED <<ackList, loopPc, loopMsg, wire, inbox, channel, srvVars,
                   consumerReqs, versionSeen, closed, callerResult>>

(* send_request_and_recv_response: a fresh promise, send, then block on    *)
(* future.get(). The request builder chooses the id.                       *)
SendRequestAndRecvResponse(c, id) ==
    /\ callerPc[c] = "idle"
    /\ id \in ClientIds \ usedIds
    /\ Send([id |-> id, kind |-> "request", method |-> ClientMethod, waiter |-> c])
    /\ callerPc' = [callerPc EXCEPT ![c] = "waiting"]
    /\ callerId' = [callerId EXCEPT ![c] = id]
    /\ callerResult' = [callerResult EXCEPT ![c] = NoMsg]
    /\ usedIds' = usedIds \cup {id}
    /\ UNCHANGED <<ackList, loopPc, loopMsg, wire, inbox, channel, srvVars,
                   consumerReqs, versionSeen, closed>>

(* Mutant: get() returns before the promise is set.                       *)
ReturnResponseEarly(c) ==
    /\ callerPc[c] = "waiting"
    /\ callerPc' = [callerPc EXCEPT ![c] = "idle"]
    /\ UNCHANGED <<sendList, ackList, loopPc, loopMsg, wire, inbox, channel,
                   srvVars, consumerReqs, versionSeen, callerId, callerResult,
                   usedIds, closed>>

(* future.get() returns once the I/O thread has set the promise.           *)
ReturnResponse(c) ==
    /\ callerPc[c] = "waiting"
    /\ callerResult[c] # NoMsg
    /\ callerPc' = [callerPc EXCEPT ![c] = "idle"]
    /\ UNCHANGED <<sendList, ackList, loopPc, loopMsg, wire, inbox, channel,
                   srvVars, consumerReqs, versionSeen, callerId, callerResult,
                   usedIds, closed>>

(* LazyThread::InitThreadProc on the thread connect's Run() detached:     *)
(* m_bRun = 1, OnThreadStart (the base version, 0), then ThreadProc, whose *)
(* loop runs while IsAlive().  Until then requests pile up in send_list_.  *)
ThreadStart ==
    /\ loopPc = "start"
    /\ loopPc' = "poll"
    /\ UNCHANGED <<sendList, ackList, loopMsg, wire, inbox, channel, srvVars,
                   consumerReqs, versionSeen, callerPc, callerId, callerResult,
                   usedIds, closed>>

(* WSPPClient::send_text -> WSSClient::send_text: websocketpp queues the   *)
(* frame on an open connection; on a closed one it sets ec and -1 is      *)
(* returned.                                                               *)
SendText(m) == wire' = IF channel = "open" THEN Append(wire, m) ELSE wire

(* ThreadProc, first half: msg_size() > 0, get_msg takes begin() of the    *)
(* unordered_map (any entry) and erases it, send_text writes it to the     *)
(* socket; its result is ignored, so after the socket closed the frame is *)
(* lost.                                                                   *)
LoopTransmit ==
    /\ loopPc = "poll"
    /\ \E id \in DOMAIN sendList :
          LET m == sendList[id] IN
          /\ sendList' = Erase(sendList, id)
          /\ loopMsg' = m
          /\ SendText(m)
    /\ loopPc' = "sent"
    /\ UNCHANGED <<ackList, inbox, channel, srvVars, consumerReqs, versionSeen,
                   callerPc, callerId, callerResult, usedIds, closed>>

(* ThreadProc, second half: if (pmsg->id != 0) ack_list_[id] = pmsg.       *)
LoopRecordAck ==
    /\ loopPc = "sent"
    /\ ackList' = IF loopMsg.id # 0 THEN Put(ackList, loopMsg.id, loopMsg)
                                    ELSE ackList
    /\ loopPc' = "poll"
    /\ loopMsg' = NoMsg
    /\ UNCHANGED <<sendList, wire, inbox, channel, srvVars, consumerReqs,
                   versionSeen, callerPc, callerId, callerResult, usedIds, closed>>

(* Mutant: the base response goes out without its response flag.         *)
BaseResponseAsRequest(id) ==
    [id |-> id, kind |-> "request", method |-> "", waiter |-> NoWaiter]

(* MediaSoupAPI::send_base_response(id): a response {id, ok} sent without  *)
(* a promise; message_from_json gives it method "".                        *)
BaseResponse(id) == [id |-> id, kind |-> "response", method |-> "", waiter |-> NoWaiter]

(* Mutant: the consumer handlers record the request but never answer.    *)
HandleConsumerRequestNoReply(msg) ==
    /\ consumerReqs' = consumerReqs \cup {msg.id}
    /\ UNCHANGED sendList

(* The handlers MediaControl registers for the two pushed requests        *)
(* (on_new_consumer, on_new_data_consumer): each records the request in   *)
(* its list and answers it with send_base_response(id); the data-consumer *)
(* handler returns right after the answer.                                *)
HandleConsumerRequest(msg) ==
    /\ consumerReqs' = consumerReqs \cup {msg.id}
    /\ Send(BaseResponse(msg.id))

(* MediaSoupAPI::on_recv_request: the handler registered for msg->method  *)
(* in method_handle_list_; an unknown method is logged and dropped (-1).  *)
OnRecvRequest(msg) ==
    IF msg.method \in Registered THEN HandleConsumerRequest(msg)
    ELSE UNCHANGED <<consumerReqs, sendList>>

(* MediaSoupAPI::on_recv_response returns 0 before its method dispatch.   *)
OnRecvResponse(msg) == UNCHANGED <<consumerReqs, sendList>>

(* MediaSoupAPI::on_recv_notify: the mediasoupVersion notify sets the     *)
(* init promise; any other notify is ignored.                             *)
OnRecvVersionNotify(msg) ==
    /\ versionSeen' = (versionSeen \/ msg.method = "mediasoupVersion")
    /\ UNCHANGED <<consumerReqs, sendList>>

(* on_recv_msg(msg) as the I/O thread runs it: dispatch on msg_type (the  *)
(* three kinds message_from_json produces; the default asserts).          *)
OnRecvMsg(msg) ==
    CASE msg.kind = "request"  -> OnRecvRequest(msg) /\ UNCHANGED versionSeen
      [] msg.kind = "response" -> OnRecvResponse(msg) /\ UNCHANGED versionSeen
      [] msg.kind = "notify"   -> OnRecvVersionNotify(msg)

(* Mutant: the entry a response matched is left in ack_list_.             *)
OnTextMessageKeepsEntry ==
    /\ inbox # << >>
    /\ LET m   == Head(inbox)
           hit == m.id \in DOMAIN ackList
           req == ackList[m.id]
       IN /\ inbox' = Tail(inbox)
          /\ UNCHANGED ackList
          /\ callerResult' =
                IF hit /\ req.waiter # NoWaiter
                THEN [callerResult EXCEPT ![req.waiter] = m]
                ELSE callerResult
          /\ OnRecvMsg(IF hit THEN [m EXCEPT !.method = req.method] ELSE m)
    /\ UNCHANGED <<loopPc, loopMsg, wire, channel, srvVars, callerPc, callerId,
                   usedIds, closed>>

(* on_text_message on the I/O thread: ack_list_.find(id); on a hit copy    *)
(* the request's method and promise onto the inbound message, set the      *)
(* promise to the inbound text, erase the entry; then on_recv_msg.         *)
OnTextMessage ==
    /\ inbox # << >>
    /\ LET m   == Head(inbox)
           hit == m.id \in DOMAIN ackList
           req == ackList[m.id]
       IN /\ inbox' = Tail(inbox)
          /\ ackList' = IF hit THEN Erase(ackList, m.id) ELSE ackList
          /\ callerResult' =
                IF hit /\ req.waiter # NoWaiter
                THEN [callerResult EXCEPT ![req.waiter] = m]
                ELSE callerResult
          /\ OnRecvMsg(IF hit THEN [m EXCEPT !.method = req.method] ELSE m)
    /\ UNCHANGED <<loopPc, loopMsg, wire, channel, srvVars, callerPc, callerId,
                   usedIds, closed>>

(* MSSignal::close(): clears send_list_ and ack_list_; pending promises    *)
(* are left unset and the dispatch loop keeps running.                     *)
Close ==
    /\ sendList' = << >>
    /\ ackList' = << >>
    /\ closed' = TRUE
    /\ UNCHANGED <<loopPc, loopMsg, wire, inbox, channel, srvVars, consumerReqs,
                   versionSeen, callerPc, callerId, callerResult, usedIds>>

(* The websocket closes. WSPPClient::on_close forwards it as on_fail,      *)
(* which MSSignal ignores; frames in flight are lost.                      *)
ChannelClose ==
    /\ channel = "open"
    /\ channel' = "closed"
    /\ wire' = << >>
    /\ inbox' = << >>
    /\ srvPending' = {}
    /\ UNCHANGED <<sendList, ackList, loopPc, loopMsg, srvPushed, srvNotified,
                   srvAnswered, consumerReqs, versionSeen, callerPc, callerId,
                   callerResult, usedIds, closed>>

-----------------------------------------------------------------------------
(* The SFU. It reads frames in order: a request is queued for an answer,   *)
(* a response settles one of its own pushed requests.                      *)
ServerRecv ==
    /\ channel = "open"
    /\ wire # << >>
    /\ LET m == Head(wire) IN
       /\ srvPending' = IF m.kind = "request" THEN srvPending \cup {m.id} ELSE srvPending
       /\ srvAnswered' = IF m.kind = "response" /\ m.id \in srvPushed
                         THEN srvAnswered \cup {m.id} ELSE srvAnswered
    /\ wire' = Tail(wire)
    /\ UNCHANGED <<sendList, ackList, loopPc, loopMsg, inbox, channel, srvPushed,
                   srvNotified, consumerReqs, versionSeen, callerPc, callerId,
                   callerResult, usedIds, closed>>

ServerRespond ==
    /\ channel = "open"
    /\ \E id \in srvPending :
          /\ inbox' = Append(inbox, [id |-> id, kind |-> "response",
                                     method |-> "", waiter |-> NoWaiter])
          /\ srvPending' = srvPending \ {id}
    /\ UNCHANGED <<sendList, ackList, loopPc, loopMsg, wire, channel, srvPushed,
                   srvNotified, srvAnswered, consumerReqs, versionSeen, callerPc,
                   callerId, callerResult, usedIds, closed>>

ServerPushRequest ==
    /\ channel = "open"
    /\ \E id \in ServerIds \ srvPushed, meth \in ServerMethods :
          /\ inbox' = Append(inbox, [id |-> id, kind |-> "request",
                                     method |-> meth, waiter |-> NoWaiter])
          /\ srvPushed' = srvPushed \cup {id}
    /\ UNCHANGED <<sendList, ackList, loopPc, loopMsg, wire, channel, srvPending,
                   srvNotified, srvAnswered, consumerReqs, versionSeen, callerPc,
                   callerId, callerResult, usedIds, closed>>

ServerNotify ==
    /\ channel = "open"
    /\ \E meth \in NotifyMethods \ srvNotified :
          /\ inbox' = Append(inbox, [id |-> NoId, kind |-> "notify",
                                     method |-> meth, waiter |-> NoWaiter])
          /\ srvNotified' = srvNotified \cup {meth}
    /\ UNCHANGED <<sendList, ackList, loopPc, loopMsg, wire, channel, srvPending,
                   srvPushed, srvAnswered, consumerReqs, versionSeen, callerPc,
                   callerId, callerResult, usedIds, closed>>

-----------------------------------------------------------------------------
Next ==
    \/ \E c \in Callers, id \in ClientIds : SendRequestAndRecvResponse(c, id)
    \/ \E c \in Callers : ReturnResponse(c)
    \/ ThreadStart
    \/ LoopTransmit
    \/ LoopRecordAck
    \/ OnTextMessage
    \/ Close
    \/ ChannelClose
    \/ ServerRecv
    \/ ServerRespond
    \/ ServerPushRequest
    \/ ServerNotify

(* The detached thread starts and ThreadProc polls forever; the I/O       *)
(* thread delivers every frame it reads; the SFU reads and answers what   *)
(* it receives.                                                           *)
(* Callers, close() and the socket closing are not forced to happen.       *)
Fairness ==
    /\ WF_vars(ThreadStart)
    /\ WF_vars(LoopTransmit)
    /\ WF_vars(LoopRecordAck)
    /\ WF_vars(OnTextMessage)
    /\ WF_vars(ServerRecv)
    /\ WF_vars(ServerRespond)
    /\ \A c \in Callers : WF_vars(ReturnResponse(c))

Spec == Init /\ [][Next]_vars /\ Fairness

-----------------------------------------------------------------------------
TypeOK ==
    /\ \A id \in DOMAIN sendList : id \in Ids /\ sendList[id] \in Msg
    /\ \A id \in DOMAIN ackList : id \in Ids /\ ackList[id] \in Msg
    /\ loopPc \in {"start", "poll", "sent"}
    /\ loopMsg \in Msg \cup {NoMsg}
    /\ wire \in Seq(Msg)
    /\ inbox \in Seq(Msg)
    /\ channel \in {"open", "closed"}
    /\ srvPending \subseteq ClientIds
    /\ srvPushed \subseteq ServerIds
    /\ srvNotified \subseteq NotifyMethods
    /\ srvAnswered \subseteq srvPushed
    /\ consumerReqs \subseteq Ids
    /\ versionSeen \in BOOLEAN
    /\ callerPc \in [Callers -> {"idle", "waiting"}]
    /\ callerId \in [Callers -> Ids]
    /\ callerResult \in [Callers -> Msg \cup {NoMsg}]
    /\ usedIds \subseteq ClientIds
    /\ closed \in BOOLEAN

(* Correlation (spec 3, 8): a caller's promise is only ever set to the     *)
(* SFU's response to the request that caller sent. Violated when the      *)
(* ack_list_ lookup in on_text_message, which runs for every inbound kind, *)
(* matches a pushed request whose id equals a pending client id.           *)
CorrelatedResolution ==
    \A c \in Callers :
        callerResult[c] # NoMsg =>
            /\ callerResult[c].kind = "response"
            /\ callerResult[c].id = callerId[c]

(* What stays in ack_list_ (mssignal.cpp 29, 132-140): an entry with a    *)
(* promise belongs to a caller still blocked on that very id, so the      *)
(* erase on a hit leaves nothing behind for a caller that has returned;   *)
(* every other entry is a base response to a request the SFU pushed,      *)
(* which no inbound frame ever matches, and these are what accumulate.    *)
AckListOnlyPendingOrBase ==
    \A id \in DOMAIN ackList :
        LET m == ackList[id] IN
        IF m.waiter # NoWaiter
        THEN callerPc[m.waiter] = "waiting" /\ callerId[m.waiter] = id
        ELSE m = BaseResponse(id) /\ id \in srvPushed

(* Every pushed newConsumer/newDataConsumer request the handlers accepted  *)
(* is answered: the base response travels send_list_ -> ThreadProc ->      *)
(* socket and reaches the SFU, unless close() or the socket dropped it.    *)
PushedRequestsAnswered ==
    \A id \in ServerIds :
        id \in consumerReqs ~> (id \in srvAnswered \/ closed \/ channel = "closed")

(* A caller blocked in send_request_and_recv_response is woken up by the   *)
(* response to its request, unless close() or the socket ended the         *)
(* session (those leave the future unset by design, spec 4.3).             *)
WaiterResolved ==
    \A c \in Callers :
        callerPc[c] = "waiting" ~> (callerResult[c] # NoMsg \/ closed \/ channel = "closed")

-----------------------------------------------------------------------------
(* Refinement: the caller-visible state of the session, with a promise's  *)
(* value reduced to the fields correlation tells apart.                    *)
Reply(c) ==
    IF callerResult[c] = NoMsg THEN NoMsg
    ELSE [id |-> callerResult[c].id, kind |-> callerResult[c].kind]

Abstract == INSTANCE SignalingAbstract
              WITH pc <- callerPc, reqId <- callerId,
                   reply <- [c \in Callers |-> Reply(c)], issued <- usedIds,
                   NoRequest <- NoId

(* The session implements the abstract request/response service: every   *)
(* step of send_request_and_recv_response, ThreadProc and on_text_message  *)
(* is a step of a caller calling, being handed its own response once, or   *)
(* returning with it.                                                      *)
ImplementsSignaling == Abstract!Spec
=============================================================================
