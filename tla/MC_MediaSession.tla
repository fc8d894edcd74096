--------------------------- MODULE MC_MediaSession ---------------------------
(* Instances of MediaSession for TLC: three other peers, and the scripts  *)
(* of calls the application makes after join.                            *)
EXTENDS MediaSession

MC_Peers == {1, 2, 3}

Pub(t, a) == [op |-> "publish", type |-> t, audio |-> a]
Unpub(t)  == [op |-> "unpublish", type |-> t]
Sub(u)    == [op |-> "subscribe", uid |-> u]
Unsub(u)  == [op |-> "unsubscribe", uid |-> u]

(* unpublish before anything is published, publish with audio as main.cpp  *)
(* does, subscribe to the first peer of peer_list_, unpublish, unsubscribe,*)
(* and, in the second script, publish again as a rejoin from the demo UI *)
(* does.                                                                   *)
MC_ScriptsCore == {<<Unpub(1), Pub(1, TRUE), Sub(NoPeer), Unpub(1), Unsub(1)>>,
                   <<Unpub(1), Pub(1, TRUE), Sub(NoPeer), Unpub(1), Unsub(1), Pub(1, TRUE)>>}

(* publish with audio, then subscribe(""), as the demo's JoinRoom does:    *)
(* with peers joining around this peer's join, peer_list_ may be empty or *)
(* not; in the second script a second publish follows.                    *)
MC_ScriptsLatePeer == {<<Pub(1, TRUE), Sub(NoPeer)>>, <<Pub(1, TRUE), Sub(NoPeer), Pub(1, TRUE)>>}

MC_ScriptsSession == MC_ScriptsCore \cup MC_ScriptsLatePeer

(* A second publish on another stream type.                                *)
MC_ScriptsTwoPublish == {<<Pub(1, TRUE), Pub(2, TRUE)>>}

(* A video-only publish: publish(type, false).                             *)
MC_ScriptsVideoOnly == {<<Pub(1, FALSE)>>}

(* Subscribing to a peer, unsubscribing, and subscribing to it again.      *)
MC_ScriptsResubscribe == {<<Sub(1), Unsub(1), Sub(1)>>}

(* One subscribe.                                                          *)
MC_ScriptsOneSubscribe == {<<Sub(1)>>}

(* The room holds peer 1, or is empty, when this peer joins.                *)
MC_RoomOne   == {{1}}
MC_RoomAny   == {{1}, {}}
MC_InitAny   == {0, -1}
MC_InitOk    == {0}

(* main.cpp, which stops on a failed join, or both it and the demo window, *)
(* which goes on to publish and subscribe after one.                       *)
(* The SFU creates every transport, or may also answer with an error.     *)
MC_TransportOk  == {0}
MC_TransportAny == {0, -1}

MC_DriverMain == {"main"}
MC_DriverAny  == {"main", "demo"}
=============================================================================
