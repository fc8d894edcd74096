---------------------------- MODULE JoinAbstract ----------------------------
(***************************************************************************)
(* What joining a room promises the application (spec 4.3): each join    *)
(* opens a new connection; the signaling loop is started only for the     *)
(* connection of the join in progress, once that connection has opened;  *)
(* and join goes on to the room only when the server's version notice has *)
(* arrived since that join began.  Otherwise join gives up and may be     *)
(* called again.  Sockets, promises and threads are not mentioned.       *)
(***************************************************************************)
EXTENDS Naturals

CONSTANT MaxJoins

VARIABLES
    joinPc,         \* "idle", "busy" (inside join) or "joined"
    joins,          \* joins begun; connection joins is the current one
    versionSeen,    \* a version notice arrived since the current join began
    opened,         \* connections that have reported their websocket open
    running         \* connections whose signaling loop was started

vars == <<joinPc, joins, versionSeen, opened, running>>

Init ==
    /\ joinPc = "idle"
    /\ joins = 0
    /\ versionSeen = FALSE
    /\ opened = {}
    /\ running = {}

Join ==
    /\ joinPc = "idle"
    /\ joins < MaxJoins
    /\ joinPc' = "busy"
    /\ joins' = joins + 1
    /\ versionSeen' = FALSE
    /\ UNCHANGED <<opened, running>>

(* Any connection made so far may open, each once.                        *)
Open(k) ==
    /\ k \in 1..joins \ opened
    /\ opened' = opened \cup {k}
    /\ UNCHANGED <<joinPc, joins, versionSeen, running>>

StartLoop ==
    /\ joinPc = "busy"
    /\ joins \in opened \ running
    /\ running' = running \cup {joins}
    /\ UNCHANGED <<joinPc, joins, versionSeen, opened>>

(* A version notice, from whichever connection, once per join.           *)
Version ==
    /\ joins > 0
    /\ ~versionSeen
    /\ versionSeen' = TRUE
    /\ UNCHANGED <<joinPc, joins, opened, running>>

Succeed ==
    /\ joinPc = "busy"
    /\ versionSeen
    /\ joinPc' = "joined"
    /\ UNCHANGED <<joins, versionSeen, opened, running>>

GiveUp ==
    /\ joinPc = "busy"
    /\ joinPc' = "idle"
    /\ UNCHANGED <<joins, versionSeen, opened, running>>

Next ==
    \/ Join
    \/ \E k \in 1..MaxJoins : Open(k)
    \/ StartLoop
    \/ Version
    \/ Succeed
    \/ GiveUp

Spec == Init /\ [][Next]_vars
=============================================================================
