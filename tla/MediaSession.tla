----------------------------- MODULE MediaSession -----------------------------
(***************************************************************************)
(* The negotiation MediaControl (media_control.cpp) drives through the     *)
(* request builders of MediaSoupAPI (msapi.cpp): join, publish,           *)
(* unpublish and subscribe on the application thread, and the            *)
(* newConsumer requests the SFU pushes, which on_new_consumer stores on    *)
(* the websocket I/O thread.                                               *)
(*                                                                         *)
(* Requests go through the signaling session as SignalingAbstract          *)
(* describes it: the caller blocks and is handed the response to its own  *)
(* request, so a request is one step here that also applies the SFU's     *)
(* handling of it. The SFU follows the mediasoup demo server: a WebRTC    *)
(* transport accepts one connect (a second one is answered with an        *)
(* error), produce needs a joined peer, and once this peer has joined the *)
(* SFU sends one newConsumer per producer of every other peer in the room.*)
(*                                                                         *)
(* The application runs a fixed script of calls after join, as main.cpp   *)
(* does (join, then publish) and the demo's MainWnd::JoinRoom does (join,  *)
(* publish, subscribe). Peer connections (pcs) are numbered in             *)
(* creation order; peer ids are positive integers so that std::map's      *)
(* begin() is the least one; kinds are ranked in std::string order.       *)
(***************************************************************************)
EXTENDS Integers, Sequences, FiniteSets

CONSTANTS
    Peers,          \* ids of the other peers that may be in the room
    RoomsAtStart,   \* the sets of peers that may already be in the room when this one joins
    InitResults,    \* what MediaSoupAPI::init may return: a subset of {0, -1}
    TransportResults, \* how the SFU may answer createWebRtcTransport: a subset of {0, -1}
    Drivers,        \* the programs that drive MediaControl: "main" (main.cpp), "demo" (sdkdemo)
    Scripts         \* the sequences of calls the application may make after join

NoPeer == 0                 \* the empty uid string of subscribe("")
NoPc   == 0

Kinds    == {"audio", "video"}
KindRank == [k \in Kinds |-> IF k = "audio" THEN 1 ELSE 2]   \* std::map<string> order
Dirs     == {"send", "recv"}

Calls == [op : {"publish"}, type : Nat, audio : BOOLEAN]
         \cup [op : {"unpublish"}, type : Nat]
         \cup [op : {"subscribe"}, uid : Peers \cup {NoPeer}]
         \cup [op : {"unsubscribe"}, uid : Peers]

ASSUME Peers \subseteq Nat \ {0} /\ RoomsAtStart \subseteq SUBSET Peers /\ RoomsAtStart # {}
ASSUME InitResults \subseteq {0, -1} /\ InitResults # {}
ASSUME Scripts \subseteq Seq(Calls) /\ Scripts # {}
ASSUME TransportResults \subseteq {0, -1} /\ TransportResults # {}
ASSUME Drivers \subseteq {"main", "demo"} /\ Drivers # {}

StreamCalls(sc) == {sc[i] : i \in {j \in DOMAIN sc : sc[j].op \in {"publish", "unpublish"}}}
StreamTypes == {c.type : c \in UNION {StreamCalls(sc) : sc \in Scripts}}

VARIABLES
    script,         \* the calls this run of the application makes
    driver,         \* the program making them
    appPc,          \* where the application thread is
    step,           \* index in script of the call in progress
    cur,            \* locals of that call: its pc, uid, iteration position, bconnect
    loaded,         \* MediaSoupAPI::loaded_
    transports,     \* MediaSoupAPI::transport_list_, by direction
    peerList,       \* MediaSoupAPI::peer_list_
    consumerList,   \* MediaControl::consumer_list_: peer -> kinds
    pubPcs,         \* MediaControl::publish_pcs_: stream type -> pc
    subPcs,         \* MediaControl::sub_pcs_: peer -> pc
    consumed,       \* the consumers a pc has set up: [pc, peer, kind]
    nextPc,         \* pcs created so far
    remoteSections, \* MediaControl::remote_sdp_: the media sections Send has added
    roomPeers,      \* SFU: the other peers in the room
    sfuJoined,      \* SFU: this peer has joined
    sfuTransports,  \* SFU: the transports created for this peer
    sfuConnected,   \* SFU: transport -> the pc whose DTLS parameters connected it
    producers,      \* SFU: producers of this peer: [pc, kind]
    sfuPushed       \* SFU: the newConsumer requests sent to this peer: [peer, kind]

appVars == <<appPc, step, cur, loaded, transports, peerList, pubPcs, subPcs,
             consumed, nextPc, remoteSections>>
sfuVars == <<roomPeers, sfuJoined, sfuTransports, sfuConnected, producers, sfuPushed>>
vars    == <<script, driver, appVars, sfuVars, consumerList>>

NoCall == [pc |-> NoPc, uid |-> NoPeer, last |-> 0, bconnect |-> FALSE, sections |-> 0]

Init ==
    /\ script \in Scripts
    /\ driver \in Drivers
    /\ appPc = "init"
    /\ step = 0
    /\ cur = NoCall
    /\ loaded = FALSE
    /\ transports = {}
    /\ peerList = {}
    /\ consumerList = [p \in Peers |-> {}]
    /\ pubPcs = [t \in StreamTypes |-> NoPc]
    /\ subPcs = [p \in Peers |-> NoPc]
    /\ consumed = {}
    /\ nextPc = 0
    /\ remoteSections = 0
    /\ roomPeers \in RoomsAtStart
    /\ sfuJoined = FALSE
    /\ sfuTransports = {}
    /\ sfuConnected = [d \in Dirs |-> NoPc]
    /\ producers = {}
    /\ sfuPushed = {}

-----------------------------------------------------------------------------
(* Request builders of MediaSoupAPI, each with the SFU's handling.         *)

(* connect_webrtc_transport(id, dtls): sent for a transport of            *)
(* transport_list_; the response is not looked at and 0 is returned. The  *)
(* SFU connects a transport once and answers later connects with an error. *)
ConnectWebrtcTransport(d, pc) ==
    sfuConnected' = IF sfuConnected[d] = NoPc
                    THEN [sfuConnected EXCEPT ![d] = pc]
                    ELSE sfuConnected

(* produce(id, kind, rtp): the SFU creates a producer for a joined peer    *)
(* and answers an error otherwise; enable_audio and enable_video drop      *)
(* what on_produce_response returns.                                       *)
Produce(pc, kind) ==
    producers' = IF sfuJoined THEN producers \cup {[pc |-> pc, kind |-> kind]}
                 ELSE producers

(* create_webrtc_transport: on a response with ok the SFU has created the  *)
(* transport and on_create_send/recv_transport_response puts it in         *)
(* transport_list_, returning 0; on an error response it returns -1 and    *)
(* nothing is stored.                                                      *)
CreateWebrtcTransport(d, ret) ==
    /\ transports' = IF ret = 0 THEN transports \cup {d} ELSE transports
    /\ sfuTransports' = IF ret = 0 THEN sfuTransports \cup {d} ELSE sfuTransports
-----------------------------------------------------------------------------
(* MediaControl::join: init, get_router_rtp_capabilities,                  *)
(* create_send_transport, create_recv_transport, join; lbcheck_result      *)
(* returns the first nonzero result.                                       *)

Running == appPc \notin {"exit", "threw"}

(* What the driver does with a nonzero result of join: main.cpp returns   *)
(* (lbcheck_result); MainWnd::JoinRoom, which OnDefaultAction runs on the  *)
(* UI thread, ignores it and goes on to publish and subscribe.             *)
StopsOnJoinError(drv) == drv = "main"

(* Where join goes after a step returned ret: on to `next`, or out of join *)
(* with ret, where the driver stops or runs its script.                    *)
JoinStep(ret, next) ==
    \/ ret = 0 /\ appPc' = next /\ UNCHANGED step
    \/ ret # 0 /\ StopsOnJoinError(driver) /\ appPc' = "exit" /\ UNCHANGED step
    \/ ret # 0 /\ ~StopsOnJoinError(driver) /\ appPc' = "next" /\ step' = 1

JoinInit ==
    /\ appPc = "init"
    /\ \E ret \in InitResults : JoinStep(ret, "caps")
    /\ UNCHANGED <<cur, loaded, transports, peerList, pubPcs, subPcs,
                   consumed, nextPc, remoteSections, sfuVars, consumerList>>

(* load_capabilities: the capability sets are computed from the router's  *)
(* (data the model abstracts away) and loaded_ is set; no check it makes   *)
(* returns early, and the router's capabilities are taken to validate.     *)
LoadCapabilities == loaded' = TRUE

(* get_router_rtp_capabilities and on_router_rtp_capabilities_response:    *)
(* the response is parsed and handed to load_capabilities.                 *)
JoinCaps ==
    /\ appPc = "caps"
    /\ LoadCapabilities
    /\ appPc' = "sendTransport"
    /\ UNCHANGED <<step, cur, transports, peerList, pubPcs, subPcs, consumed,
                   nextPc, remoteSections, sfuVars, consumerList>>

JoinSendTransport ==
    /\ appPc = "sendTransport"
    /\ \E ret \in TransportResults :
          CreateWebrtcTransport("send", ret) /\ JoinStep(ret, "recvTransport")
    /\ UNCHANGED <<cur, loaded, peerList, pubPcs, subPcs, consumed, nextPc, remoteSections,
                   roomPeers, sfuJoined, sfuConnected, producers, sfuPushed,
                   consumerList>>

JoinRecvTransport ==
    /\ appPc = "recvTransport"
    /\ \E ret \in TransportResults :
          CreateWebrtcTransport("recv", ret) /\ JoinStep(ret, "join")
    /\ UNCHANGED <<cur, loaded, peerList, pubPcs, subPcs, consumed, nextPc, remoteSections,
                   roomPeers, sfuJoined, sfuConnected, producers, sfuPushed,
                   consumerList>>

(* MediaSoupAPI::join and on_join_response: peer_list_ gets the peers the   *)
(* SFU lists, the peers in the room at that moment; 0 is returned.         *)
JoinRequest ==
    /\ appPc = "join"
    /\ sfuJoined' = TRUE
    /\ peerList' = roomPeers
    /\ appPc' = "next"
    /\ step' = 1
    /\ UNCHANGED <<cur, loaded, transports, pubPcs, subPcs, consumed, nextPc, remoteSections,
                   roomPeers, sfuTransports, sfuConnected, producers, sfuPushed,
                   consumerList>>

(* The script has no call left: main.cpp loops in Sleep from here on.      *)
ScriptDone ==
    /\ appPc = "next"
    /\ step > Len(script)
    /\ appPc' = "done"
    /\ UNCHANGED <<step, cur, loaded, transports, peerList, pubPcs, subPcs,
                   consumed, nextPc, remoteSections, sfuVars, consumerList>>

Call == script[step]

CallReturned ==
    /\ appPc' = "next"
    /\ step' = step + 1
    /\ cur' = NoCall
-----------------------------------------------------------------------------
(* MediaControl::publish(stream_type, benable_audio): a new pc,            *)
(* enable_audio, enable_video, then publish_pcs_[stream_type] = pc under   *)
(* mutex_. Their results are not looked at.                                *)

PublishStart ==
    /\ appPc = "next"
    /\ step <= Len(script)
    /\ Call.op = "publish"
    /\ nextPc' = nextPc + 1
    /\ cur' = [NoCall EXCEPT !.pc = nextPc + 1]
    /\ appPc' = "enableAudio"
    /\ UNCHANGED <<step, loaded, transports, peerList, pubPcs, subPcs, consumed,
                   remoteSections, sfuVars, consumerList>>

(***************************************************************************)
(* remote_sdp_ is made by the first enable_audio or enable_video of the    *)
(* MediaControl and kept for every later publish; nothing closes its       *)
(* sections, so GetNextMediaSectionIdx gives the number Send has added.    *)
(* The pc's offer has the sections of the transceivers added to it, so     *)
(* localSdpObject["media"][msidx.idx] is the new track's section only      *)
(* when remote_sdp_ holds exactly this pc's earlier sections; otherwise    *)
(* it is a null element appended by operator[].  The answer GetSdp gives   *)
(* then has as many sections as the offer, and SetRemoteDescription        *)
(* succeeds.                                                               *)
(***************************************************************************)
OfferHasSection == remoteSections = cur.sections

(* Send adds the track's answer section, and the track's transceiver is    *)
(* one more section of the pc.                                             *)
SendSection ==
    /\ remoteSections' = remoteSections + 1
    /\ cur' = [cur EXCEPT !.sections = @ + 1]

(* MediaSoupAPI::get_send_transport_param / get_recv_transport_param: the  *)
(* first transport of transport_list_ in that direction, or null, on which *)
(* the caller's lbcheck_ptr returns -1.                                    *)
HasTransportParam(d) == d \in transports

(* Mutant: the audio track produced without connecting the transport.     *)
EnableAudioNoConnect ==
    /\ appPc = "enableAudio"
    /\ \/ /\ Call.audio
          /\ ~HasTransportParam("send")
          /\ appPc' = "enableVideo"
          /\ UNCHANGED <<sfuConnected, producers, remoteSections, cur>>
       \/ /\ Call.audio
          /\ HasTransportParam("send")
          /\ UNCHANGED sfuConnected
          /\ \/ /\ OfferHasSection
                /\ Produce(cur.pc, "audio")
                /\ SendSection
                /\ appPc' = "enableVideo"
             \/ /\ ~OfferHasSection
                /\ appPc' = "threw"
                /\ UNCHANGED <<producers, remoteSections, cur>>
       \/ /\ ~Call.audio
          /\ appPc' = "enableVideo"
          /\ UNCHANGED <<sfuConnected, producers, remoteSections, cur>>
    /\ UNCHANGED <<step, loaded, transports, peerList, pubPcs, subPcs,
                   consumed, nextPc, roomPeers, sfuJoined, sfuTransports,
                   sfuPushed, consumerList>>

(* enable_audio(pc, enable): without enable it returns -1 at once.  With   *)
(* it, an audio track and transceiver, then -1 if join made no send       *)
(* transport; else the send transport is connected with this pc's DTLS    *)
(* parameters;                                                             *)
(* then, after SetLocalDescription, getCname and getRtpEncodings read the  *)
(* offer's section: a null one has no a=ssrc lines and getRtpEncodings    *)
(* throws, which nothing catches.  Otherwise Send, produce, and the        *)
(* answer is set.                                                          *)
EnableAudio ==
    /\ appPc = "enableAudio"
    /\ \/ /\ Call.audio
          /\ ~HasTransportParam("send")
          /\ appPc' = "enableVideo"
          /\ UNCHANGED <<sfuConnected, producers, remoteSections, cur>>
       \/ /\ Call.audio
          /\ HasTransportParam("send")
          /\ ConnectWebrtcTransport("send", cur.pc)
          /\ \/ /\ OfferHasSection
                /\ Produce(cur.pc, "audio")
                /\ SendSection
                /\ appPc' = "enableVideo"
             \/ /\ ~OfferHasSection
                /\ appPc' = "threw"
                /\ UNCHANGED <<producers, remoteSections, cur>>
       \/ /\ ~Call.audio
          /\ appPc' = "enableVideo"
          /\ UNCHANGED <<sfuConnected, producers, remoteSections, cur>>
    /\ UNCHANGED <<step, loaded, transports, peerList, pubPcs, subPcs,
                   consumed, nextPc, roomPeers, sfuJoined, sfuTransports,
                   sfuPushed, consumerList>>

(* enable_video(pc, stream_type, true): a video transceiver with the three *)
(* encodings of configVideoEncodings (the capture source starts here), -1  *)
(* if join made no send transport, else offer, SetLocalDescription; with  *)
(* a null section getCname gives "" and Send (libmediasoupclient) throws   *)
(* on the section's missing type.  Otherwise Send, produce, the answer; it *)
(* never calls connect_webrtc_transport.                                   *)
EnableVideo ==
    /\ appPc = "enableVideo"
    /\ \/ /\ ~HasTransportParam("send")
          /\ appPc' = "publishStore"
          /\ UNCHANGED <<producers, remoteSections, cur>>
       \/ /\ HasTransportParam("send")
          /\ OfferHasSection
          /\ Produce(cur.pc, "video")
          /\ SendSection
          /\ appPc' = "publishStore"
       \/ /\ HasTransportParam("send")
          /\ ~OfferHasSection
          /\ appPc' = "threw"
          /\ UNCHANGED <<producers, remoteSections, cur>>
    /\ UNCHANGED <<step, loaded, transports, peerList, pubPcs, subPcs,
                   consumed, nextPc, roomPeers, sfuJoined, sfuTransports,
                   sfuConnected, sfuPushed, consumerList>>

(* publish_pcs_[stream_type] = std::move(pc): a pc stored there before is  *)
(* destroyed; nothing is sent to the SFU about its producers.              *)
PublishStore ==
    /\ appPc = "publishStore"
    /\ pubPcs' = [pubPcs EXCEPT ![Call.type] = cur.pc]
    /\ CallReturned
    /\ UNCHANGED <<loaded, transports, peerList, subPcs, consumed, nextPc, remoteSections,
                   sfuVars, consumerList>>

(* MediaControl::unpublish(stream_type): -1 if publish_pcs_ has no entry;  *)
(* otherwise the pc is closed and erased. No request goes to the SFU.      *)
Unpublish ==
    /\ appPc = "next"
    /\ step <= Len(script)
    /\ Call.op = "unpublish"
    /\ \/ /\ pubPcs[Call.type] = NoPc
          /\ UNCHANGED pubPcs
       \/ /\ pubPcs[Call.type] # NoPc
          /\ pubPcs' = [pubPcs EXCEPT ![Call.type] = NoPc]
    /\ CallReturned
    /\ UNCHANGED <<loaded, transports, peerList, subPcs, consumed, nextPc, remoteSections,
                   sfuVars, consumerList>>
-----------------------------------------------------------------------------
(* MediaControl::subscribe(uid).                                           *)

(* uid, or with the empty uid the first peer of peer_list_ (a std::map).   *)
SubscribeUid ==
    IF Call.uid # NoPeer THEN Call.uid
    ELSE CHOOSE p \in peerList : \A q \in peerList : p <= q

(* The early returns, in the code's order: -1 with the empty uid and an   *)
(* empty peer_list_, -1 when consumer_list_ has no entry for the uid.     *)
(* Otherwise a new pc is made for the uid and the entries are walked:      *)
(* get_recv_transport_param finds the recv transport, as consumer_list_    *)
(* has entries only once join got as far as the join request.             *)
SubscribeStart ==
    /\ appPc = "next"
    /\ step <= Len(script)
    /\ Call.op = "subscribe"
    /\ \/ /\ Call.uid = NoPeer
          /\ peerList = {}
          /\ CallReturned
          /\ UNCHANGED nextPc
       \/ /\ Call.uid # NoPeer \/ peerList # {}
          /\ consumerList[SubscribeUid] = {}
          /\ CallReturned
          /\ UNCHANGED nextPc
       \/ /\ Call.uid # NoPeer \/ peerList # {}
          /\ consumerList[SubscribeUid] # {}
          /\ nextPc' = nextPc + 1
          /\ cur' = [NoCall EXCEPT !.pc = nextPc + 1, !.uid = SubscribeUid]
          /\ appPc' = "subscribeLoop"
          /\ UNCHANGED step
    /\ UNCHANGED <<loaded, transports, peerList, pubPcs, subPcs, consumed, remoteSections,
                   sfuVars, consumerList>>

(* The entry the range-for over ncr_map, a reference to                    *)
(* consumer_list_[uid] read without mutex_, visits after the one at        *)
(* cur.last: the next kind in key order present in the map now.           *)
NextEntry ==
    {k \in consumerList[cur.uid] : KindRank[k] > cur.last}

(* Mutant: the walk does not move past the entry it visited.               *)
SubscribeLoopNoAdvance ==
    /\ appPc = "subscribeLoop"
    /\ NextEntry # {}
    /\ LET k == CHOOSE x \in NextEntry : \A y \in NextEntry : KindRank[x] <= KindRank[y]
       IN /\ consumed' = consumed \cup {[pc |-> cur.pc, peer |-> cur.uid, kind |-> k]}
          /\ cur' = [cur EXCEPT !.bconnect = TRUE]
    /\ IF ~cur.bconnect THEN ConnectWebrtcTransport("recv", cur.pc)
                        ELSE UNCHANGED sfuConnected
    /\ UNCHANGED <<appPc, step, loaded, transports, peerList, pubPcs, subPcs,
                   nextPc, remoteSections, roomPeers, sfuJoined, sfuTransports, producers,
                   sfuPushed, consumerList>>

(* One iteration: the pc takes the consumer's remote description and       *)
(* answers; on the first iteration only (!bconnect) the recv transport is  *)
(* connected with this pc's DTLS parameters.                               *)
SubscribeLoop ==
    /\ appPc = "subscribeLoop"
    /\ NextEntry # {}
    /\ LET k == CHOOSE x \in NextEntry : \A y \in NextEntry : KindRank[x] <= KindRank[y]
       IN /\ consumed' = consumed \cup {[pc |-> cur.pc, peer |-> cur.uid, kind |-> k]}
          /\ cur' = [cur EXCEPT !.last = KindRank[k], !.bconnect = TRUE]
    /\ IF ~cur.bconnect THEN ConnectWebrtcTransport("recv", cur.pc)
                        ELSE UNCHANGED sfuConnected
    /\ UNCHANGED <<appPc, step, loaded, transports, peerList, pubPcs, subPcs,
                   nextPc, remoteSections, roomPeers, sfuJoined, sfuTransports, producers,
                   sfuPushed, consumerList>>

(* After the loop: LAZY_THROW_EXCEPTION when the pc has no video           *)
(* transceiver, else sub_pcs_[uid] = pc under mutex_ (a pc stored there    *)
(* before is destroyed) and 0 is returned.                                 *)
SubscribeEnd ==
    /\ appPc = "subscribeLoop"
    /\ NextEntry = {}
    /\ \/ /\ [pc |-> cur.pc, peer |-> cur.uid, kind |-> "video"] \in consumed
          /\ subPcs' = [subPcs EXCEPT ![cur.uid] = cur.pc]
          /\ CallReturned
       \/ /\ [pc |-> cur.pc, peer |-> cur.uid, kind |-> "video"] \notin consumed
          /\ appPc' = "threw"
          /\ UNCHANGED <<step, cur, subPcs>>
    /\ UNCHANGED <<loaded, transports, peerList, pubPcs, consumed, nextPc, remoteSections,
                   sfuVars, consumerList>>

(* MediaControl::unsubscribe(uid): under mutex_, the pc in sub_pcs_ is    *)
(* closed and erased; consumer_list_ keeps the uid's entries and nothing   *)
(* is sent to the SFU.                                                     *)
Unsubscribe ==
    /\ appPc = "next"
    /\ step <= Len(script)
    /\ Call.op = "unsubscribe"
    /\ subPcs' = [subPcs EXCEPT ![Call.uid] = NoPc]
    /\ CallReturned
    /\ UNCHANGED <<loaded, transports, peerList, pubPcs, consumed, nextPc, remoteSections,
                   sfuVars, consumerList>>

-----------------------------------------------------------------------------
(* The websocket I/O thread and the SFU.                                   *)

(* The SFU sends newConsumer for a producer of a peer in the room; the     *)
(* I/O thread runs MediaControl::on_new_consumer, which under mutex_ sets  *)
(* consumer_list_[peerId][kind] and answers with send_base_response.       *)
OnNewConsumer(p, k) ==
    /\ Running
    /\ sfuJoined
    /\ p \in roomPeers
    /\ [peer |-> p, kind |-> k] \notin sfuPushed
    /\ sfuPushed' = sfuPushed \cup {[peer |-> p, kind |-> k]}
    /\ consumerList' = [consumerList EXCEPT ![p] = @ \cup {k}]
    /\ UNCHANGED <<appVars, roomPeers, sfuJoined, sfuTransports, sfuConnected,
                   producers>>

(* Another peer joins the room. The SFU's newPeer notification reaches     *)
(* MediaSoupAPI::on_recv_notify, which only looks at mediasoupVersion:     *)
(* peer_list_ is not updated.                                              *)
PeerJoins(p) ==
    /\ p \notin roomPeers
    /\ roomPeers' = roomPeers \cup {p}
    /\ UNCHANGED <<appVars, sfuJoined, sfuTransports, sfuConnected, producers,
                   sfuPushed, consumerList>>

Next ==
  /\ UNCHANGED <<script, driver>>
  /\ \/ JoinInit \/ JoinCaps \/ JoinSendTransport \/ JoinRecvTransport
     \/ JoinRequest \/ ScriptDone
     \/ PublishStart \/ EnableAudio \/ EnableVideo \/ PublishStore \/ Unpublish
     \/ SubscribeStart \/ SubscribeLoop \/ SubscribeEnd \/ Unsubscribe
     \/ \E p \in Peers, k \in Kinds : OnNewConsumer(p, k)
     \/ \E p \in Peers : PeerJoins(p)

(* The application thread's steps. Each blocks only in a request, which   *)
(* SignalingAbstract answers; the I/O thread and the other peers are the  *)
(* environment and are not forced to act.                                  *)
AppStep ==
    /\ UNCHANGED <<script, driver>>
    /\ \/ JoinInit \/ JoinCaps \/ JoinSendTransport \/ JoinRecvTransport
       \/ JoinRequest \/ ScriptDone
       \/ PublishStart \/ EnableAudio \/ EnableVideo \/ PublishStore \/ Unpublish
       \/ SubscribeStart \/ SubscribeLoop \/ SubscribeEnd \/ Unsubscribe

Spec == Init /\ [][Next]_vars /\ WF_vars(AppStep)
-----------------------------------------------------------------------------
(* Properties.                                                             *)

(* Media of a producer flows only if the send transport's DTLS was         *)
(* connected with the parameters of the pc that produced it:               *)
(* enable_audio connects the send transport before producing audio, and    *)
(* enable_video produces video on the same pc.                             *)
ProducersOnConnectedTransport ==
    \A pr \in producers : sfuConnected["send"] = pr.pc

(* Every call of the script returns, or the program stops: join's steps,   *)
(* publish and subscribe each end, and subscribe's range-for over          *)
(* consumer_list_[uid], which on_new_consumer may grow while it walks,     *)
(* reaches the end of the map.                                             *)
ScriptRunsToEnd == <>(appPc \in {"done", "exit", "threw"})

(* subscribe never ends in LAZY_THROW_EXCEPTION("video transceiver not     *)
(* found"), which nothing in the call chain catches.                       *)
SubscribeNeverThrows == appPc = "threw" => Call.op # "subscribe"

(* publish never throws out of enable_audio or enable_video, whose          *)
(* exceptions nothing in the call chain catches: the offer of every pc it  *)
(* creates has the section remote_sdp_ answers next.                       *)
PublishNeverThrows == appPc = "threw" => Call.op # "publish"

(* When subscribe stores its pc for a uid, the pc has set up every         *)
(* consumer consumer_list_ holds for that uid at that moment: the walk     *)
(* over ncr_map, concurrent with on_new_consumer's inserts, missed none.   *)
ConsumedKinds(pc, p) == {c.kind : c \in {x \in consumed : x.pc = pc /\ x.peer = p}}

SubscribeTakesAllConsumers ==
    [][\A p \in Peers :
         subPcs'[p] # subPcs[p] => ConsumedKinds(subPcs'[p], p) = consumerList[p]]_vars
=============================================================================
