--------------------------- MODULE FalconProducer ---------------------------
(***************************************************************************)
(* Producer of internal/falcon/producer.go over a SupervisedLink: calls of *)
(* Create take a submission credit, register their channels, send a frame  *)
(* and wait for its acknowledgement, while the supervisor delivers frames  *)
(* and announces disconnects.                                              *)
(*                                                                         *)
(* A Create call stands for its own correlation id.  The gateway is the    *)
(* environment: it executes what reaches it, answers in order on the same  *)
(* socket and grants credits.  The 64-frame channels of a socket are never *)
(* full here, as there are fewer calls.                                    *)
(***************************************************************************)
EXTENDS FalconLink, Sequences

CONSTANTS
    Creates,        \* calls of Create
    Awaiting,       \* those with AwaitCompletion
    Window          \* credits in every Welcome

ASSUME ProducerAssumption ==
    /\ IsFiniteSet(Creates) /\ Awaiting \subseteq Creates
    /\ Window \in Nat \ {0}

VARIABLES
    credits, pending, awaitPend,
    ackCh, awaitCh,     \* the two buffered channels of each call
    pc, target,         \* each call's step and the socket it read from the link
    outcome,            \* what it returned
    out,                \* creates queued on a live socket, not yet at the gateway
    frames,             \* what the gateway sent on the current socket
    running,            \* accepted creates whose completion is awaited
    executedOn,         \* the socket on which a create reached the gateway
    window,             \* the credit window a call's credit came from
    seenGrants          \* credits delivered since the last disconnect

producer == <<credits, pending, awaitPend, ackCh, awaitCh>>
calls == <<pc, target, outcome>>
gateway == <<out, frames, running, executedOn>>
ghosts == <<window, seenGrants>>
vars == <<linkVars, producer, calls, gateway, ghosts>>

Steps == {"new", "parked", "woken", "credited", "registered", "sending", "unsent",
          "refunding", "awaitAck", "awaitResult", "done"}
Outcomes == {"none", "ok", "rejected", "unsent", "linkClosed", "gaveUp"}

(* addCredits wakes every call that waits on creditCh.                     *)
Woken(at) == [k \in Creates |-> IF at[k] = "parked" THEN "woken" ELSE at[k]]

Init ==
    /\ LinkInit
    /\ credits = 0 /\ pending = {} /\ awaitPend = {}
    /\ ackCh = [k \in Creates |-> "empty"]
    /\ awaitCh = [k \in Creates |-> "empty"]
    /\ pc = [k \in Creates |-> "new"]
    /\ target = [k \in Creates |-> 0]
    /\ outcome = [k \in Creates |-> "none"]
    /\ out = [s \in Sockets |-> {}]
    /\ frames = <<>> /\ running = {}
    /\ executedOn = [k \in Creates |-> 0]
    /\ window = [k \in Creates |-> -1]
    /\ seenGrants = 0

-----------------------------------------------------------------------------
(* Create.                                                                 *)

Goto(k, step) == pc' = [pc EXCEPT ![k] = step]
Return(k, result) == Goto(k, "done") /\ outcome' = [outcome EXCEPT ![k] = result]

(* One lock region of acquireCredit: take a credit, or capture creditCh.   *)
(* window counts disconnects: conn is the current one, less one while its  *)
(* disconnect has yet to reset the credits.                                *)
CurrentWindow == IF sup \in {"dialing", "stopped"} THEN conn + 1 ELSE conn

AcquireCredit(k) ==
    /\ pc[k] \in {"new", "woken"} /\ ready = "connected"
    /\ IF credits > 0
       THEN /\ credits' = credits - 1
            /\ window' = [window EXCEPT ![k] = CurrentWindow]
            /\ Goto(k, "credited")
       ELSE Goto(k, "parked") /\ UNCHANGED <<credits, window>>
    /\ UNCHANGED <<linkVars, pending, awaitPend, ackCh, awaitCh, target, outcome,
                   gateway, seenGrants>>

CancelWait(k) ==
    /\ pc[k] \in {"parked", "woken"}
    /\ Return(k, "gaveUp")
    /\ UNCHANGED <<linkVars, producer, target, gateway, ghosts>>

(* The channels are registered before the frame is sent.                   *)
Register(k) ==
    /\ pc[k] = "credited"
    /\ pending' = pending \cup {k}
    /\ awaitPend' = awaitPend \cup ({k} \cap Awaiting)
    /\ Goto(k, "registered")
    /\ UNCHANGED <<linkVars, credits, ackCh, awaitCh, target, outcome, gateway, ghosts>>

(* send, under the link's lock: read the current socket.                   *)
ReadWriter(k) ==
    /\ pc[k] = "registered"
    /\ target' = [target EXCEPT ![k] = writer]
    /\ Goto(k, IF writer = 0 THEN "unsent" ELSE "sending")
    /\ UNCHANGED <<linkVars, producer, outcome, gateway, ghosts>>

(* send, outside it: the frame is queued, or the select takes the branch   *)
(* of a socket that has died meanwhile.  What is queued on a dead socket   *)
(* goes nowhere.                                                           *)
Enqueue(k) ==
    /\ pc[k] = "sending"
    /\ \/ /\ out' = IF target[k] \in alive
                    THEN [out EXCEPT ![target[k]] = @ \cup {k}] ELSE out
          /\ Goto(k, "awaitAck")
       \/ /\ target[k] \notin alive
          /\ Goto(k, "unsent")
          /\ UNCHANGED out
    /\ UNCHANGED <<linkVars, producer, target, outcome, frames, running,
                   executedOn, ghosts>>

(* send failed: forget the call, then give its credit back.                *)
Discard(k) ==
    /\ pc[k] = "unsent"
    /\ pending' = pending \ {k} /\ awaitPend' = awaitPend \ {k}
    /\ Goto(k, "refunding")
    /\ UNCHANGED <<linkVars, credits, ackCh, awaitCh, target, outcome, gateway, ghosts>>

(* Fault: the reserved credit of an unsent frame is not returned.          *)
RefundNothing(k) ==
    /\ pc[k] = "refunding"
    /\ Return(k, "unsent")
    /\ UNCHANGED <<linkVars, producer, target, gateway, ghosts>>

Refund(k) ==
    /\ pc[k] = "refunding"
    /\ credits' = credits + 1
    /\ pc' = Woken([pc EXCEPT ![k] = "done"])
    /\ outcome' = [outcome EXCEPT ![k] = "unsent"]
    /\ UNCHANGED <<linkVars, pending, awaitPend, ackCh, awaitCh, target, gateway, ghosts>>

(* Fault: a create that was failed by a disconnect is sent again.          *)
AcknowledgedOrResent(k) ==
    /\ pc[k] = "awaitAck" /\ ackCh[k] # "empty"
    /\ \/ /\ ackCh[k] = "closed"
          /\ Goto(k, "new") /\ ackCh' = [ackCh EXCEPT ![k] = "empty"]
          /\ UNCHANGED outcome
       \/ /\ ackCh[k] # "closed"
          /\ Return(k, IF ackCh[k] = "accepted" THEN "ok" ELSE "rejected")
          /\ UNCHANGED ackCh
    /\ pending' = pending \ {k} /\ awaitPend' = awaitPend \ {k}
    /\ UNCHANGED <<linkVars, credits, awaitCh, target, gateway, ghosts>>

(* awaitAck and what Create does with the acknowledgement.                 *)
Acknowledged(k) ==
    /\ pc[k] = "awaitAck" /\ ackCh[k] # "empty"
    /\ \/ /\ ackCh[k] = "accepted" /\ k \in Awaiting
          /\ Goto(k, "awaitResult")
          /\ UNCHANGED <<pending, awaitPend, outcome>>
       \/ /\ ackCh[k] = "accepted" /\ k \notin Awaiting
          /\ Return(k, "ok")
          /\ UNCHANGED <<pending, awaitPend>>
       \/ /\ ackCh[k] = "rejected"
          /\ Return(k, "rejected")
          /\ awaitPend' = awaitPend \ {k} /\ UNCHANGED pending
       \/ /\ ackCh[k] = "closed"
          /\ Return(k, "linkClosed")
          /\ pending' = pending \ {k} /\ awaitPend' = awaitPend \ {k}
    /\ UNCHANGED <<linkVars, credits, ackCh, awaitCh, target, gateway, ghosts>>

Completed(k) ==
    /\ pc[k] = "awaitResult" /\ awaitCh[k] # "empty"
    /\ Return(k, IF awaitCh[k] = "closed" THEN "linkClosed" ELSE "ok")
    /\ UNCHANGED <<linkVars, producer, target, gateway, ghosts>>

(* Fault: giving up on the acknowledgement forgets only half of the call.  *)
GiveUpHalf(k) ==
    /\ pc[k] \in {"awaitAck", "awaitResult"}
    /\ Return(k, "gaveUp")
    /\ pending' = IF pc[k] = "awaitAck" THEN pending \ {k} ELSE pending
    /\ awaitPend' = IF pc[k] = "awaitAck" THEN awaitPend ELSE awaitPend \ {k}
    /\ UNCHANGED <<linkVars, credits, ackCh, awaitCh, target, gateway, ghosts>>

(* The context ends or a timer fires in either wait.                       *)
GiveUp(k) ==
    /\ pc[k] \in {"awaitAck", "awaitResult"}
    /\ Return(k, "gaveUp")
    /\ pending' = IF pc[k] = "awaitAck" THEN pending \ {k} ELSE pending
    /\ awaitPend' = awaitPend \ {k}
    /\ UNCHANGED <<linkVars, credits, ackCh, awaitCh, target, gateway, ghosts>>

-----------------------------------------------------------------------------
(* The gateway.                                                            *)

(* A create arrives, possibly off a socket the client has given up.  The   *)
(* answer and one replenished credit go back on the socket if it lives.    *)
GatewayExecutes(s, k) ==
    /\ k \in out[s]
    /\ out' = [out EXCEPT ![s] = @ \ {k}]
    /\ executedOn' = [executedOn EXCEPT ![k] = s]
    /\ \E status \in {"accepted", "rejected"} :
         /\ running' = IF status = "accepted" THEN running \cup ({k} \cap Awaiting)
                                              ELSE running
         /\ frames' = IF s \in alive THEN frames \o << <<status, k>>, <<"credits", 1>> >>
                                     ELSE frames
    /\ UNCHANGED <<linkVars, producer, calls, ghosts>>

GatewayCompletes(k) ==
    /\ k \in running
    /\ running' = running \ {k}
    /\ frames' = IF executedOn[k] \in alive THEN Append(frames, <<"completed", k>>)
                                            ELSE frames
    /\ UNCHANGED <<linkVars, producer, calls, out, executedOn, ghosts>>

-----------------------------------------------------------------------------
(* The supervisor with the producer's hooks.                               *)

(* A fresh socket opens with a Welcome that grants a window.               *)
Connect(e) ==
    /\ DialSucceeds(e)
    /\ frames' = << <<"credits", Window>> >>
    /\ UNCHANGED <<producer, calls, out, running, executedOn, ghosts>>

(* The socket dies; a part of what was under way to the client is lost.    *)
Break ==
    /\ SocketDies
    /\ \E n \in 0..Len(frames) : frames' = SubSeq(frames, 1, n)
    /\ UNCHANGED <<producer, calls, out, running, executedOn, ghosts>>

(* Fault: a replenishment wakes nobody.                                    *)
OnCreditsSilent(n) ==
    /\ credits' = credits + n
    /\ seenGrants' = seenGrants + n
    /\ UNCHANGED <<pc, pending, awaitPend, ackCh, awaitCh>>

(* onFrame of a Welcome or a submissionCredits frame: addCredits.          *)
OnCredits(n) ==
    /\ credits' = credits + n
    /\ seenGrants' = seenGrants + n
    /\ pc' = Woken(pc)
    /\ UNCHANGED <<pending, awaitPend, ackCh, awaitCh>>

(* onFrame of a commandResult, ignored when nobody waits for it.           *)
OnResult(status, k) ==
    /\ pending' = pending \ {k}
    /\ ackCh' = IF k \in pending THEN [ackCh EXCEPT ![k] = status] ELSE ackCh
    /\ UNCHANGED <<credits, seenGrants, pc, awaitPend, awaitCh>>

(* onFrame of an instanceCompleted.                                        *)
OnCompleted(k) ==
    /\ awaitPend' = awaitPend \ {k}
    /\ awaitCh' = IF k \in awaitPend THEN [awaitCh EXCEPT ![k] = "completed"] ELSE awaitCh
    /\ UNCHANGED <<credits, seenGrants, pc, pending, ackCh>>

Deliver ==
    /\ sup = "pumping" /\ frames # <<>>
    /\ LET frame == Head(frames)
       IN  \/ frame[1] = "credits" /\ OnCredits(frame[2])
           \/ frame[1] \in {"accepted", "rejected"} /\ OnResult(frame[1], frame[2])
           \/ frame[1] = "completed" /\ OnCompleted(frame[2])
    /\ frames' = Tail(frames)
    /\ UNCHANGED <<linkVars, target, outcome, out, running, executedOn, window>>

(* pump returns; frames it has not read are dropped.                       *)
StopPumping ==
    /\ PumpEnds
    /\ frames' = <<>>
    /\ UNCHANGED <<producer, calls, out, running, executedOn, ghosts>>

(* Fault: a disconnect fails only the unacknowledged calls.                *)
OnDisconnectHalf ==
    /\ Disconnect
    /\ credits' = 0 /\ seenGrants' = 0
    /\ ackCh' = [k \in Creates |-> IF k \in pending THEN "closed" ELSE ackCh[k]]
    /\ pending' = {}
    /\ UNCHANGED <<calls, gateway, window, awaitPend, awaitCh>>

(* onDisconnect: the window is void and every registered call is failed.   *)
OnDisconnect ==
    /\ Disconnect
    /\ credits' = 0 /\ seenGrants' = 0
    /\ ackCh' = [k \in Creates |-> IF k \in pending THEN "closed" ELSE ackCh[k]]
    /\ awaitCh' = [k \in Creates |-> IF k \in awaitPend THEN "closed" ELSE awaitCh[k]]
    /\ pending' = {} /\ awaitPend' = {}
    /\ UNCHANGED <<calls, gateway, window>>

Supervise ==
    \/ \E e \in Endpoints : DialFails(e) /\ UNCHANGED <<producer, calls, gateway, ghosts>>
    \/ (SuperviseEnds \/ Publish \/ Detach) /\ UNCHANGED <<producer, calls, gateway, ghosts>>
    \/ \E e \in Endpoints : Connect(e)
    \/ Deliver \/ StopPumping \/ OnDisconnect

(* Close tears down the link.                                              *)
Close ==
    /\ CloseCancels \/ CloseDetaches
    /\ UNCHANGED <<producer, calls, gateway, ghosts>>

Step(k) ==
    \/ AcquireCredit(k) \/ Register(k) \/ ReadWriter(k) \/ Enqueue(k)
    \/ Discard(k) \/ Refund(k) \/ Acknowledged(k) \/ Completed(k)

Next ==
    \/ \E k \in Creates : Step(k) \/ CancelWait(k) \/ GiveUp(k) \/ GatewayCompletes(k)
    \/ \E s \in Sockets, k \in Creates : GatewayExecutes(s, k)
    \/ Supervise \/ Close \/ Break

Spec == Init /\ [][Next]_vars

(* The supervisor and every call are scheduled, a connected gateway        *)
(* handles what it receives, and a dead or closed socket ends the pump.    *)
(* Nobody need give up.                                                    *)
FairSpec ==
    /\ Spec
    /\ \A k \in Creates : WF_vars(Step(k)) /\ WF_vars(GatewayCompletes(k))
    /\ \A s \in Sockets, k \in Creates : WF_vars(s \in alive /\ GatewayExecutes(s, k))
    /\ WF_vars(Deliver)
    /\ WF_vars(StopPumping /\ (conn \notin alive \/ Stopped))
    /\ WF_vars(Detach /\ UNCHANGED <<producer, calls, gateway, ghosts>>)
    /\ WF_vars(OnDisconnect)

-----------------------------------------------------------------------------
Frame == {"accepted", "rejected", "completed"} \X Creates \cup {"credits"} \X Nat

TypeOK ==
    /\ LinkTypeOK
    /\ credits \in Nat /\ seenGrants \in Nat
    /\ pending \subseteq Creates /\ awaitPend \subseteq Creates \cap Awaiting
    /\ ackCh \in [Creates -> {"empty", "accepted", "rejected", "closed"}]
    /\ awaitCh \in [Creates -> {"empty", "completed", "closed"}]
    /\ pc \in [Creates -> Steps] /\ outcome \in [Creates -> Outcomes]
    /\ target \in [Creates -> 0..MaxConnects]
    /\ out \in [Sockets -> SUBSET Creates] /\ frames \in Seq(Frame)
    /\ running \subseteq Creates
    /\ executedOn \in [Creates -> 0..MaxConnects] /\ window \in [Creates -> Int]

(* A call that waits for the gateway can still hear from it: either its    *)
(* channel already holds the answer or the failure, or it is registered    *)
(* and its socket is the one whose disconnect has not been announced.      *)
(* (Register before send, writer = nil before onDisconnect.)               *)
NoOrphanedCreate ==
    LET hears == sup \in {"pumping", "closed", "detached"}
    IN  \A k \in Creates :
          /\ pc[k] = "awaitAck" /\ ackCh[k] = "empty" =>
                k \in pending /\ target[k] = conn /\ hears
          /\ pc[k] = "awaitResult" /\ awaitCh[k] = "empty" =>
                k \in awaitPend /\ target[k] = conn /\ hears

(* A call that has returned, on whichever path, is in neither map.         *)
NothingLeftBehind ==
    \A k \in Creates : pc[k] = "done" => k \notin pending \cup awaitPend

(* No credit of the current window is lost: what was granted is available, *)
(* or held or used by a call that took it from this window.                *)
CreditsNotLost ==
    LET spent == {k \in Creates : window[k] = CurrentWindow /\ outcome[k] # "unsent"}
    IN  credits + Cardinality(spent) >= seenGrants

(* "a replenish can never be lost between the credit check and the wait"   *)
(* (producer.go, acquireCredit): whoever waits on the open creditCh waits  *)
(* while there is no credit.                                               *)
ParkedWithoutCredit ==
    (\E k \in Creates : pc[k] = "parked") => credits = 0

(* A call whose frame was queued returns without giving up: the gateway    *)
(* answers, or the disconnect fails it promptly.                           *)
SentReturns ==
    \A k \in Creates : pc[k] \in {"awaitAck", "awaitResult"} ~> pc[k] = "done"

(* A caller is told "ok", or an error of some kind.                        *)
Told == [k \in Creates |-> IF outcome[k] \in {"none", "ok"} THEN outcome[k] ELSE "error"]

Contract ==
    INSTANCE CreateContract
      WITH Ways <- Sockets, NoWay <- 0, executed <- executedOn, answer <- Told

(* No failure, timeout or failover makes a create reach the gateway on a   *)
(* second socket, and "ok" is told only of one that did reach it.          *)
KeepsContract == Contract!Spec
=============================================================================
