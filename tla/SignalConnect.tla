---------------------------- MODULE SignalConnect ----------------------------
(***************************************************************************)
(* Start-up of a signaling session: MediaControl::join calls              *)
(* MediaSoupAPI::init, which creates an MSSignal, arms promise_ for the    *)
(* mediasoupVersion notify and calls MSSignal::connect ->                  *)
(* WSPPClient::connect_sync. connect_sync holds WSPPClient::mutex_,        *)
(* starts an asynchronous websocketpp connect (WSSClient::connect starts a *)
(* new I/O thread), only then allocates its raw promise_ and blocks on it  *)
(* until on_open or on_fail sets it. init then waits up to 3 s for the     *)
(* version notify.                                                         *)
(*                                                                         *)
(* A join that fails may be retried (the demo UI calls join again): each   *)
(* attempt k creates connection k with its own WSPPClient and I/O thread.  *)
(* MSSignal and WSPPClient hold shared_ptrs to each other, so an old       *)
(* connection is never destroyed and its I/O thread keeps delivering.      *)
(***************************************************************************)
EXTENDS Integers, Sequences

CONSTANTS
    MaxJoins,       \* join attempts the user makes
    UninitPromise   \* what the build leaves in the never-initialised
                    \* WSPPClient::promise_: a subset of {"null", "garbage"}

ASSUME MaxJoins \in Nat \ {0}
ASSUME UninitPromise \subseteq {"null", "garbage"} /\ UninitPromise # {}

Conns         == 1..MaxJoins
NotifyMethods == {"mediasoupVersion", "otherNotify"}

VARIABLES
    attempt,        \* number of join calls so far; connection attempt is current
    appPc,          \* the thread in MediaControl::join
    apiSet,         \* MediaSoupAPI::promise_ (the current one) is satisfied
    wsPromise,      \* per connection: WSPPClient::promise_ "absent" (no client),
                    \* "null", "garbage", "live" or "dangling" (deleted)
    wsVal,          \* per connection: value of the live promise: "unset", "ok", "err"
    held,           \* per connection: connect_sync holds WSPPClient::mutex_
    net,            \* per connection: "none", "connecting", "open", "failed", "closed"
    loopRun,        \* per connection: MSSignal::Run started ThreadProc
    sfuSent,        \* per connection: notifications the SFU has sent
    ioQueue,        \* per connection: frames waiting for the I/O thread
    fault           \* "none", or how the process died

vars == <<attempt, appPc, apiSet, wsPromise, wsVal, held, net,
          loopRun, sfuSent, ioQueue, fault>>

Init ==
    /\ attempt = 0
    /\ appPc = "idle"
    /\ apiSet = FALSE
    /\ wsPromise = [k \in Conns |-> "absent"]
    /\ wsVal = [k \in Conns |-> "unset"]
    /\ held = [k \in Conns |-> FALSE]
    /\ net = [k \in Conns |-> "none"]
    /\ loopRun = [k \in Conns |-> FALSE]
    /\ sfuSent = [k \in Conns |-> {}]
    /\ ioQueue = [k \in Conns |-> << >>]
    /\ fault = "none"

Alive == fault = "none"

-----------------------------------------------------------------------------
(* The application thread.                                                 *)

(* WSPPClient::WSPPClient: sets ws_status_ only; promise_ keeps whatever   *)
(* the allocation left there.                                              *)
NewWSPPClient(k) == \E v \in UninitPromise : wsPromise' = [wsPromise EXCEPT ![k] = v]

(* WSSClient::connect (with init() starting the asio thread): get_connection *)
(* may fail at once (bad uri, subprotocol), returning -1; otherwise the    *)
(* connect is queued on the new I/O thread and 0 is returned.              *)
WSSClientConnect(k, ret) ==
    net' = [net EXCEPT ![k] = IF ret = 0 THEN "connecting" ELSE "none"]

(* MediaControl::join up to init: lbcheck_result returns on a non-zero    *)
(* init; the rest of join continues on success.                            *)
JoinContinues(ret) == ret = 0

(* WSPPClient::connect_sync up to the allocation of promise_: lock        *)
(* mutex_, WSPPClient::connect (close(), new WSSClient, WSSClient::connect). *)
(* If that fails connect_sync unlocks and returns it at once, and init     *)
(* goes on to wait for the notify anyway.                                  *)
ConnectSyncBegin(k) ==
    \E ret \in {0, -1} :
        /\ WSSClientConnect(k, ret)
        /\ held' = [held EXCEPT ![k] = (ret = 0)]
        /\ appPc' = IF ret = 0 THEN "newPromise" ELSE "waitVersion"

(* MSSignal::connect: ws_client_.reset(new WSPPClient()), connect_sync.    *)
MSSignalConnect(k) ==
    /\ NewWSPPClient(k)
    /\ ConnectSyncBegin(k)

(* Mutant: init keeps the satisfied flag of the previous promise.         *)
ApiInitKeepsVersion(k) ==
    /\ UNCHANGED apiSet
    /\ MSSignalConnect(k)

(* MediaSoupAPI::init up to the wait: new MSSignal, promise_.reset(new     *)
(* promise) for the version notify, MSSignal::connect.                     *)
ApiInit(k) ==
    /\ apiSet' = FALSE
    /\ MSSignalConnect(k)

(* MediaControl::join: creates MediaSoupAPI and registers the handlers the *)
(* first time, then init. Each call makes connection attempt + 1.          *)
JoinStart ==
    /\ Alive
    /\ appPc = "idle"
    /\ attempt < MaxJoins
    /\ attempt' = attempt + 1
    /\ ApiInit(attempt + 1)
    /\ UNCHANGED <<wsVal, loopRun, sfuSent, ioQueue, fault>>

(* connect_sync: promise_ = new std::promise<int>().                       *)
ConnectSyncNewPromise ==
    /\ Alive
    /\ appPc = "newPromise"
    /\ wsPromise' = [wsPromise EXCEPT ![attempt] = "live"]
    /\ appPc' = "get"
    /\ UNCHANGED <<attempt, apiSet, wsVal, held, net, loopRun,
                   sfuSent, ioQueue, fault>>

(* MSSignal::connect returns connect_sync's error, or calls LazyThread::   *)
(* Run, which starts ThreadProc.                                           *)
(* Mutant: the loop is started whatever connect_sync returned.             *)
MSSignalRunAlways(k, ret) == loopRun' = [loopRun EXCEPT ![k] = TRUE]

MSSignalRun(k, ret) == loopRun' = [loopRun EXCEPT ![k] = (ret = "ok")]

(* connect_sync: get() returns once on_open/on_fail set the promise;       *)
(* delete promise_ (the pointer is kept), unlock; then MSSignal::connect   *)
(* goes on.                                                                *)
ConnectSyncReturn ==
    /\ Alive
    /\ appPc = "get"
    /\ wsVal[attempt] # "unset"
    /\ wsPromise' = [wsPromise EXCEPT ![attempt] = "dangling"]
    /\ held' = [held EXCEPT ![attempt] = FALSE]
    /\ MSSignalRun(attempt, wsVal[attempt])
    /\ appPc' = "waitVersion"
    /\ UNCHANGED <<attempt, apiSet, wsVal, net, sfuSent, ioQueue, fault>>

(* init: future.wait_for(3000 ms). Ready: init returns 0 and join goes on. *)
(* Not ready when the wait ends: init returns -1 and join returns it.      *)
InitWaitReady ==
    /\ Alive
    /\ appPc = "waitVersion"
    /\ apiSet
    /\ appPc' = IF JoinContinues(0) THEN "joined" ELSE "idle"
    /\ UNCHANGED <<attempt, apiSet, wsPromise, wsVal, held, net,
                   loopRun, sfuSent, ioQueue, fault>>

InitWaitTimeout ==
    /\ Alive
    /\ appPc = "waitVersion"
    /\ ~apiSet
    /\ appPc' = IF JoinContinues(-1) THEN "joined" ELSE "idle"
    /\ UNCHANGED <<attempt, apiSet, wsPromise, wsVal, held, net,
                   loopRun, sfuSent, ioQueue, fault>>

-----------------------------------------------------------------------------
(* The I/O thread of connection k: websocketpp calls WSSClient's handlers,*)
(* which call WSPPClient's, which call MSSignal's.                         *)

(* if (promise_) promise_->set_value(v), on the pointer as it is: null is  *)
(* skipped, an uninitialised or deleted pointer is undefined behaviour (a  *)
(* crash), and a second set_value throws future_error on the I/O thread,   *)
(* which nothing catches.                                                  *)
SetWsPromise(k, v) ==
    CASE wsPromise[k] = "null" ->
            UNCHANGED <<wsVal, fault>>
      [] wsPromise[k] = "live" /\ wsVal[k] = "unset" ->
            /\ wsVal' = [wsVal EXCEPT ![k] = v]
            /\ UNCHANGED fault
      [] OTHER ->
            /\ fault' = "ws_promise"
            /\ UNCHANGED wsVal

(* WSPPClient::on_open / on_fail: ws_status_, observer (MSSignal::on_open  *)
(* and on_fail do nothing), then the promise.                              *)
(* Mutant: on_open does not report to connect_sync's promise.            *)
OnOpenSilent(k) == UNCHANGED <<wsVal, fault>>

OnOpen(k) == SetWsPromise(k, "ok")
OnFail(k) == SetWsPromise(k, "err")

(* Mutant: on_close also reports to connect_sync's promise.                *)
OnCloseSignals(k) == SetWsPromise(k, "err")

(* WSPPClient::on_close: ws_status_, observer->on_fail, which MSSignal     *)
(* ignores.                                                                *)
OnClose(k) == UNCHANGED <<wsVal, fault>>

(* websocketpp resolves the connect: WSSClient::on_open.                   *)
IoOpen(k) ==
    /\ Alive
    /\ net[k] = "connecting"
    /\ net' = [net EXCEPT ![k] = "open"]
    /\ OnOpen(k)
    /\ UNCHANGED <<attempt, appPc, apiSet, wsPromise, held, loopRun,
                   sfuSent, ioQueue>>

(* ... or fails it (refused, handshake timeout): WSSClient::on_fail.       *)
IoFail(k) ==
    /\ Alive
    /\ net[k] = "connecting"
    /\ net' = [net EXCEPT ![k] = "failed"]
    /\ OnFail(k)
    /\ UNCHANGED <<attempt, appPc, apiSet, wsPromise, held, loopRun,
                   sfuSent, ioQueue>>

(* MediaSoupAPI::on_recv_notify on the notify m from connection k: if      *)
(* (promise_ && method == mediasoupVersion) promise_->set_value(json).     *)
(* promise_ is the member, i.e. the promise of the latest init, whichever  *)
(* connection the notify came from; setting it twice throws.               *)
OnRecvNotify(k, m) ==
    IF m # "mediasoupVersion" THEN UNCHANGED <<apiSet, fault>>
    ELSE IF apiSet THEN /\ fault' = "version_twice"
                        /\ UNCHANGED apiSet
         ELSE /\ apiSet' = TRUE
              /\ UNCHANGED fault

(* WSPPClient::on_text_message: locks mutex_ (it blocks while connect_sync *)
(* holds it), queues the text in recv_text_que_, which nothing reads, and  *)
(* calls MSSignal::on_text_message (a notify has id -1: no ack entry),     *)
(* which ends in on_recv_notify.                                           *)
OnTextMessage(k, m) ==
    /\ ~held[k]
    /\ OnRecvNotify(k, m)

(* WSSClient::on_message: the I/O thread hands a text frame to the         *)
(* observer's on_text_message (the SFU sends no binary frames).            *)
IoTextMessage(k) ==
    /\ Alive
    /\ ioQueue[k] # << >>
    /\ ioQueue' = [ioQueue EXCEPT ![k] = Tail(@)]
    /\ OnTextMessage(k, Head(ioQueue[k]))
    /\ UNCHANGED <<attempt, appPc, wsPromise, wsVal, held, net, loopRun, sfuSent>>

(* The SFU closes an open connection: WSSClient::on_close, delivered after *)
(* the frames before it.                                                   *)
IoClose(k) ==
    /\ Alive
    /\ net[k] = "open"
    /\ ioQueue[k] = << >>
    /\ net' = [net EXCEPT ![k] = "closed"]
    /\ OnClose(k)
    /\ UNCHANGED <<attempt, appPc, apiSet, wsPromise, held, loopRun,
                   sfuSent, ioQueue>>

(* The SFU (protoo server) sends its notifications on an open connection, *)
(* mediasoupVersion among them, each once.                                 *)
SfuNotify(k) ==
    /\ Alive
    /\ net[k] = "open"
    /\ \E m \in NotifyMethods \ sfuSent[k] :
          /\ sfuSent' = [sfuSent EXCEPT ![k] = @ \cup {m}]
          /\ ioQueue' = [ioQueue EXCEPT ![k] = Append(@, m)]
    /\ UNCHANGED <<attempt, appPc, apiSet, wsPromise, wsVal, held,
                   net, loopRun, fault>>

-----------------------------------------------------------------------------
Next ==
    \/ JoinStart
    \/ ConnectSyncNewPromise
    \/ ConnectSyncReturn
    \/ InitWaitReady
    \/ InitWaitTimeout
    \/ \E k \in Conns :
          \/ IoOpen(k) \/ IoFail(k) \/ IoTextMessage(k) \/ IoClose(k)
          \/ SfuNotify(k)

(* The application thread runs join to its end; websocketpp resolves every *)
(* connect (a handshake timeout makes it fail); each I/O thread delivers   *)
(* the frames it has; the SFU sends its notifications once a connection is *)
(* open. The user's joins and the SFU closing a connection are not forced. *)
Fairness ==
    /\ WF_vars(ConnectSyncNewPromise)
    /\ WF_vars(ConnectSyncReturn)
    /\ WF_vars(InitWaitReady \/ InitWaitTimeout)
    /\ \A k \in Conns : WF_vars(IoOpen(k) \/ IoFail(k))
    /\ \A k \in Conns : WF_vars(IoTextMessage(k))
    /\ \A k \in Conns : WF_vars(SfuNotify(k))

Spec == Init /\ [][Next]_vars /\ Fairness

-----------------------------------------------------------------------------
(* WSPPClient's callbacks only ever set connect_sync's promise while it is *)
(* allocated and unset: on_open/on_fail never touch the uninitialised      *)
(* pointer the constructor leaves, nor the one connect_sync deleted.       *)
WsPromiseUsedWhileValid == fault # "ws_promise"

(* MediaSoupAPI::promise_ is set at most once (a second set_value throws   *)
(* on the I/O thread): one mediasoupVersion notify per init.               *)
VersionPromiseSetOnce == fault # "version_twice"

(* connect_sync returns if its promise is allocated before the connect    *)
(* ends: websocketpp ends every connect in on_open or on_fail, and both   *)
(* set the promise.  A process that died meanwhile (an earlier            *)
(* connection's second mediasoupVersion throwing on its I/O thread, which *)
(* VersionPromiseSetOnce is about) owes no return.                         *)
ConnectSyncReturnsOnceArmed ==
    \A k \in Conns :
        (appPc = "get" /\ attempt = k /\ wsPromise[k] = "live" /\ net[k] = "connecting")
            ~> (appPc # "get" \/ attempt # k \/ ~Alive)

-----------------------------------------------------------------------------
Join == INSTANCE JoinAbstract
        WITH joinPc <- CASE appPc = "idle"   -> "idle"
                         [] appPc = "joined" -> "joined"
                         [] OTHER            -> "busy",
             joins <- attempt,
             versionSeen <- apiSet,
             opened <- {k \in Conns : wsVal[k] = "ok"},
             running <- {k \in Conns : loopRun[k]}

(* join keeps the promise of JoinAbstract: MSSignal::connect starts the   *)
(* ThreadProc loop only after connect_sync saw the current connection's   *)
(* on_open, and init lets join go on only when on_recv_notify satisfied   *)
(* the promise init itself armed, never one armed by an earlier join.     *)
JoinImplements == Join!Spec
=============================================================================
