----------------------------- MODULE FalconLink -----------------------------
(***************************************************************************)
(* SupervisedLink of internal/falcon/link.go: one supervisor goroutine     *)
(* dials a node of the directory, pumps its frames until the socket ends   *)
(* or goes silent, and fails over, while other goroutines send on whatever *)
(* socket is current and one may close the link.                           *)
(*                                                                         *)
(* Connections are numbered in dialling order; 0 stands for nil.  The      *)
(* hooks onConnect, onFrame and onDisconnect run in the supervisor's steps *)
(* Publish, Pump and Disconnect: a module that extends this one conjoins   *)
(* them there.                                                             *)
(***************************************************************************)
EXTENDS Integers, FiniteSets, Sequences

CONSTANTS
    Endpoints,      \* the failover directory
    Down,           \* endpoints that refuse every dial
    MaxConnects     \* bound: successful dials

ASSUME LinkAssumption ==
    /\ Endpoints # {} /\ IsFiniteSet(Endpoints) /\ Down \subseteq Endpoints
    /\ MaxConnects \in Nat

VARIABLES
    sup,            \* where the supervisor is
    ready,          \* what startLink has been told
    conn,           \* the socket the supervisor runs, and how many it dialled
    current,        \* its endpoint
    lastFailed,     \* the endpoint to avoid
    writer,         \* the socket send writes on; 0 while disconnected
    alive,          \* sockets whose context is not cancelled
    closer          \* progress of close()

linkVars == <<sup, ready, conn, current, lastFailed, writer, alive, closer>>

Nowhere == "nowhere"    \* lastFailed == "" and current == ""
Sockets == 1..MaxConnects

(* pickEndpoint: a uniform draw reaches any endpoint but the avoided one.  *)
PickEndpoint(avoid) ==
    IF Cardinality(Endpoints) = 1 THEN Endpoints ELSE Endpoints \ {avoid}

Stopped == closer # "open"      \* supCtx is cancelled

LinkInit ==
    /\ sup = "dialing" /\ ready = "unknown"
    /\ conn = 0 /\ current = Nowhere /\ lastFailed = Nowhere
    /\ writer = 0 /\ alive = {}
    /\ closer = "open"

(* Fault: a failed dial does not change the endpoint to avoid.             *)
DialFailsForgotten(e) ==
    /\ sup = "dialing" /\ ~Stopped
    /\ e \in PickEndpoint(lastFailed)
    /\ IF ready = "unknown" THEN ready' = "failed" /\ sup' = "stopped"
                            ELSE UNCHANGED <<sup, ready>>
    /\ UNCHANGED <<conn, current, lastFailed, writer, alive, closer>>

(* A dial fails.  The first one fails startLink; a later one makes the     *)
(* supervisor avoid the endpoint, and pause 250 ms.                        *)
DialFails(e) ==
    /\ sup = "dialing" /\ ~Stopped
    /\ e \in PickEndpoint(lastFailed)
    /\ IF ready = "unknown"
       THEN ready' = "failed" /\ sup' = "stopped" /\ UNCHANGED lastFailed
       ELSE lastFailed' = e /\ UNCHANGED <<sup, ready>>
    /\ UNCHANGED <<conn, current, writer, alive, closer>>

(* A dial succeeds.  close() may intervene before the socket is published. *)
DialSucceeds(e) ==
    /\ sup = "dialing" /\ ~Stopped
    /\ conn < MaxConnects
    /\ e \in PickEndpoint(lastFailed) \ Down
    /\ conn' = conn + 1
    /\ alive' = alive \cup {conn'}
    /\ current' = e
    /\ sup' = "dialed"
    /\ UNCHANGED <<ready, lastFailed, writer, closer>>

(* The loop condition finds supCtx cancelled.                              *)
SuperviseEnds ==
    /\ sup = "dialing" /\ Stopped
    /\ sup' = "stopped"
    /\ UNCHANGED <<ready, conn, current, lastFailed, writer, alive, closer>>

(* The socket becomes the writer and startLink returns; onConnect.         *)
Publish ==
    /\ sup = "dialed"
    /\ writer' = conn
    /\ ready' = "connected"
    /\ sup' = "pumping"
    /\ UNCHANGED <<conn, current, lastFailed, alive, closer>>

(* The node or the network ends the socket.                                *)
SocketDies ==
    /\ conn \in alive
    /\ alive' = alive \ {conn}
    /\ UNCHANGED <<sup, ready, conn, current, lastFailed, writer, closer>>

(* Fault: the supervisor leaves the old socket open.                       *)
PumpEndsOpen ==
    /\ sup = "pumping"
    /\ sup' = "closed"
    /\ UNCHANGED <<ready, conn, current, lastFailed, writer, alive, closer>>

(* pump returns, for a closed socket, a cancelled supervisor or a silent   *)
(* node, and the supervisor closes the socket.                             *)
PumpEnds ==
    /\ sup = "pumping"
    /\ sup' = "closed"
    /\ alive' = alive \ {conn}
    /\ UNCHANGED <<ready, conn, current, lastFailed, writer, closer>>

(* Fault: the dead socket stays the writer.                                *)
DetachNothing ==
    /\ sup = "closed"
    /\ sup' = "detached"
    /\ UNCHANGED <<ready, conn, current, lastFailed, writer, alive, closer>>

(* The socket is taken back from the senders, before onDisconnect.         *)
Detach ==
    /\ sup = "closed"
    /\ writer' = 0
    /\ sup' = "detached"
    /\ UNCHANGED <<ready, conn, current, lastFailed, alive, closer>>

(* onDisconnect, and on to the next endpoint.                              *)
Disconnect ==
    /\ sup = "detached"
    /\ lastFailed' = current
    /\ sup' = "dialing"
    /\ UNCHANGED <<ready, conn, current, writer, alive, closer>>

(* close(): cancel the supervisor, then take and close the socket.  A      *)
(* failed startLink cancels as well.                                       *)
CloseCancels ==
    /\ closer = "open" /\ ready # "unknown"
    /\ closer' = "cancelled"
    /\ UNCHANGED <<sup, ready, conn, current, lastFailed, writer, alive>>

CloseDetaches ==
    /\ closer = "cancelled"
    /\ closer' = "closed"
    /\ writer' = 0
    /\ alive' = alive \ {writer}
    /\ UNCHANGED <<sup, ready, conn, current, lastFailed>>

LinkNext ==
    \/ \E e \in Endpoints : DialFails(e) \/ DialSucceeds(e)
    \/ SuperviseEnds \/ Publish \/ SocketDies \/ PumpEnds \/ Detach \/ Disconnect
    \/ CloseCancels \/ CloseDetaches

LinkSpec == LinkInit /\ [][LinkNext]_linkVars

-----------------------------------------------------------------------------
(* Types, and startLink has been told of the first dial, which it blocks   *)
(* on, by the time the supervisor is past it or the link can be closed.    *)
LinkTypeOK ==
    /\ sup \in {"dialing", "dialed", "pumping", "closed", "detached", "stopped"}
    /\ ready \in {"unknown", "connected", "failed"}
    /\ conn \in 0..MaxConnects /\ writer \in 0..MaxConnects
    /\ alive \subseteq Sockets
    /\ {current, lastFailed} \subseteq Endpoints \cup {Nowhere}
    /\ closer \in {"open", "cancelled", "closed"}
    /\ ready = "unknown" => sup \in {"dialing", "dialed"} /\ closer = "open"

(* "A background supervisor keeps exactly one socket alive" (link.go): no  *)
(* older socket is left open by a failover, and senders only ever see the  *)
(* socket that is being pumped, never one whose disconnect was announced.  *)
OneSocket ==
    /\ alive \subseteq {conn}
    /\ writer # 0 => writer = conn /\ sup \in {"pumping", "closed"}

(* A closed link leaves no socket behind, even when close() runs between   *)
(* the end of a dial and the publication of its socket.                    *)
ClosedLeavesNothing ==
    closer # "open" /\ sup = "stopped" => alive = {} /\ writer = 0

(* From the first dial to the end of Close no socket is one too many.      *)
SocketsSafe == OneSocket /\ ClosedLeavesNothing

(* Failover reaches a survivor: avoiding the node that just failed, the    *)
(* supervisor is connected again as long as one endpoint is up.            *)
FailoverConnects ==
    (sup = "dialing" /\ ready = "connected" /\ conn < MaxConnects) ~>
        (sup = "dialed" \/ Stopped)
=============================================================================
