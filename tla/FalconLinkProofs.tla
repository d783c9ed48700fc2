-------------------------- MODULE FalconLinkProofs --------------------------
(***************************************************************************)
(* Proofs about FalconLink for every directory and any number of           *)
(* connections.  OneSocket is not inductive: that a fresh dial finds no    *)
(* older socket open needs NoneLeftOpen, and that it finds no writer needs *)
(* where the supervisor is while there is one, which OneSocket itself says.*)
(***************************************************************************)
EXTENDS FalconLink, TLAPS

(* Between closing its socket and the next dial the supervisor has none.   *)
NoneLeftOpen == sup \in {"dialing", "closed", "detached", "stopped"} => alive = {}

LinkInv == LinkTypeOK /\ OneSocket /\ NoneLeftOpen

(* The link's state is well typed, and startLink has its answer by the     *)
(* time the supervisor needs it.                                           *)
LEMMA LinkTypeStep == LinkTypeOK /\ [LinkNext]_linkVars => LinkTypeOK'
<1> SUFFICES ASSUME LinkTypeOK, [LinkNext]_linkVars PROVE LinkTypeOK'
  OBVIOUS
<1> USE LinkAssumption DEF LinkTypeOK, Sockets, Stopped
<1>1. ASSUME NEW e \in Endpoints, DialFails(e) PROVE LinkTypeOK'
  BY <1>1 DEF DialFails
<1>2. ASSUME NEW e \in Endpoints, DialSucceeds(e) PROVE LinkTypeOK'
  BY <1>2 DEF DialSucceeds, PickEndpoint
<1>3. CASE SuperviseEnds \/ Publish \/ SocketDies
  BY <1>3 DEF SuperviseEnds, Publish, SocketDies
<1>4. CASE PumpEnds
  BY <1>4 DEF PumpEnds
<1>5. CASE Detach
  BY <1>5 DEF Detach
<1>6. CASE Disconnect
  BY <1>6 DEF Disconnect
<1>7. CASE CloseCancels
  BY <1>7 DEF CloseCancels
<1>8. CASE CloseDetaches
  BY <1>8 DEF CloseDetaches
<1>9. CASE UNCHANGED linkVars
  BY <1>9 DEF linkVars
<1> QED  BY <1>1, <1>2, <1>3, <1>4, <1>5, <1>6, <1>7, <1>8, <1>9 DEF LinkNext

(* Every step keeps one socket, and leaves none open behind the supervisor.*)
LEMMA LinkInvStep == LinkInv /\ [LinkNext]_linkVars => LinkInv'
<1> SUFFICES ASSUME LinkInv, [LinkNext]_linkVars PROVE LinkInv'
  OBVIOUS
<1>0. LinkTypeOK'
  BY LinkTypeStep DEF LinkInv
<1> SUFFICES OneSocket' /\ NoneLeftOpen'
  BY <1>0 DEF LinkInv
<1> USE DEF LinkInv, LinkTypeOK, OneSocket, NoneLeftOpen
<1>1. ASSUME NEW e \in Endpoints, DialFails(e) PROVE OneSocket' /\ NoneLeftOpen'
  BY <1>1 DEF DialFails
<1>2. ASSUME NEW e \in Endpoints, DialSucceeds(e) PROVE OneSocket' /\ NoneLeftOpen'
  BY <1>2 DEF DialSucceeds
<1>3. CASE SuperviseEnds \/ Publish \/ SocketDies
  BY <1>3 DEF SuperviseEnds, Publish, SocketDies
<1>4. CASE PumpEnds \/ Detach \/ Disconnect
  BY <1>4 DEF PumpEnds, Detach, Disconnect
<1>5. CASE CloseCancels \/ CloseDetaches
  BY <1>5 DEF CloseCancels, CloseDetaches
<1>6. CASE UNCHANGED linkVars
  BY <1>6 DEF linkVars
<1> QED  BY <1>1, <1>2, <1>3, <1>4, <1>5, <1>6 DEF LinkNext

LEMMA LinkInvInit == LinkInit => LinkInv
BY LinkAssumption DEF LinkInit, LinkInv, LinkTypeOK, OneSocket, NoneLeftOpen

LEMMA LinkInvCloses == LinkInv => ClosedLeavesNothing
BY DEF LinkInv, OneSocket, NoneLeftOpen, ClosedLeavesNothing

(* The link by itself: one socket at a time, used by the senders only      *)
(* while it is pumped, and a link that was closed has none, whatever       *)
(* interleaving of failover and close() led there.                         *)
THEOREM LinkIsSafe == LinkSpec => [](LinkTypeOK /\ SocketsSafe)
<1>1. LinkInv => LinkTypeOK /\ SocketsSafe
  BY LinkInvCloses DEF LinkInv, SocketsSafe
<1> QED  BY LinkInvInit, LinkInvStep, <1>1, PTL DEF LinkSpec
=============================================================================
