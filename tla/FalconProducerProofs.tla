------------------------ MODULE FalconProducerProofs ------------------------
(***************************************************************************)
(* Proofs about FalconProducer, for any number of creates, any window, any *)
(* directory and any number of connections.  What the producer does to its *)
(* link is proved in FalconLinkProofs; what a call keeps in the producer's *)
(* two maps and two channels is the invariant Calls below, what it took of *)
(* the credit window is CreditInv, and where its create has got to, which  *)
(* the abstract contract is about, is Fates.                               *)
(***************************************************************************)
EXTENDS FalconProducer, FalconLinkProofs, FiniteSetTheorems, SequenceTheorems

USE ProducerAssumption

-----------------------------------------------------------------------------
(* The frames of a socket.                                                 *)

LEMMA FramesShrink ==
    ASSUME frames \in Seq(Frame), NEW n \in 0..Len(frames)
    PROVE  /\ SubSeq(frames, 1, n) \in Seq(Frame)
           /\ Len(SubSeq(frames, 1, n)) = n
           /\ \A i \in 1..n : SubSeq(frames, 1, n)[i] = frames[i]
BY SubSeqProperties

LEMMA FramesGrow ==
    ASSUME frames \in Seq(Frame), NEW more \in Seq(Frame)
    PROVE  /\ frames \o more \in Seq(Frame)
           /\ \A i \in 1..Len(frames \o more) :
                 \/ i \in 1..Len(frames) /\ (frames \o more)[i] = frames[i]
                 \/ i - Len(frames) \in 1..Len(more)
                    /\ (frames \o more)[i] = more[i - Len(frames)]
<1>1. frames \o more \in Seq(Frame) /\ Len(frames \o more) = Len(frames) + Len(more)
  BY ConcatProperties
<1>2. \A i \in 1..Len(frames) + Len(more) :
         (frames \o more)[i] = IF i <= Len(frames) THEN frames[i] ELSE more[i - Len(frames)]
  BY ConcatProperties
<1> QED BY <1>1, <1>2

LEMMA FramesRead ==
    ASSUME frames \in Seq(Frame), frames # <<>>
    PROVE  /\ Head(frames) \in Frame /\ Head(frames) = frames[1] /\ 1 \in 1..Len(frames)
           /\ Tail(frames) \in Seq(Frame)
           /\ \A i \in 1..Len(Tail(frames)) :
                 i + 1 \in 1..Len(frames) /\ Tail(frames)[i] = frames[i + 1]
BY HeadTailProperties, EmptySeq, ElementOfSeq

(* What the gateway answers.                                               *)
LEMMA Answers ==
    ASSUME NEW k \in Creates, NEW status \in {"accepted", "rejected"}
    PROVE  /\ << <<status, k>>, <<"credits", 1>> >> \in Seq(Frame)
           /\ << <<"completed", k>> >> \in Seq(Frame)
           /\ << <<"credits", Window>> >> \in Seq(Frame)
           /\ <<>> \in Seq(Frame)
BY DEF Frame

-----------------------------------------------------------------------------
(* Every step of the producer is one of the link's, or leaves it alone.    *)
LEMMA LinkStep == [Next]_vars => [LinkNext]_linkVars
BY DEF Next, Step, Supervise, Close, Break, Connect, StopPumping, OnDisconnect, Deliver,
       GatewayExecutes, GatewayCompletes, CancelWait, GiveUp, AcquireCredit, Register,
       ReadWriter, Enqueue, Discard, Refund, Acknowledged, Completed, LinkNext, vars

THEOREM ProducerImplementsLink == Spec => LinkSpec
<1>1. Init => LinkInit
  BY DEF Init
<1> QED BY <1>1, LinkStep, PTL DEF Spec, LinkSpec

LEMMA InitType == Init => TypeOK
<1> SUFFICES ASSUME Init PROVE TypeOK
  OBVIOUS
<1> USE DEF Init
<1>1. LinkTypeOK
  BY LinkInvInit DEF LinkInv
<1>2. /\ ackCh \in [Creates -> {"empty", "accepted", "rejected", "closed"}]
      /\ awaitCh \in [Creates -> {"empty", "completed", "closed"}]
      /\ pc \in [Creates -> Steps] /\ outcome \in [Creates -> Outcomes]
  BY DEF Steps, Outcomes
<1>3. /\ target \in [Creates -> 0..MaxConnects] /\ executedOn \in [Creates -> 0..MaxConnects]
      /\ window \in [Creates -> Int]
  BY LinkAssumption
<1>4. out \in [Sockets -> SUBSET Creates] /\ frames \in Seq(Frame) /\ running \subseteq Creates
  BY EmptySeq
<1>5. credits \in Nat /\ seenGrants \in Nat
      /\ pending \subseteq Creates /\ awaitPend \subseteq Creates \cap Awaiting
  OBVIOUS
<1> QED BY <1>1, <1>2, <1>3, <1>4, <1>5 DEF TypeOK

LEMMA GotoType ==
    ASSUME TypeOK, NEW k \in Creates, NEW step \in Steps, Goto(k, step)
    PROVE  pc' \in [Creates -> Steps]
BY DEF TypeOK, Goto

LEMMA WokenType ==
    ASSUME NEW at \in [Creates -> Steps]
    PROVE  Woken(at) \in [Creates -> Steps]
BY DEF Woken, Steps

LEMMA StepType == TypeOK /\ [Next]_vars => TypeOK'
<1> SUFFICES ASSUME TypeOK, [Next]_vars PROVE TypeOK'
  OBVIOUS
<1>0. LinkTypeOK'
  BY LinkStep, LinkTypeStep DEF TypeOK
<1> SUFFICES ASSUME LinkTypeOK' PROVE TypeOK'
  BY <1>0
<1> USE DEF TypeOK, producer, calls, gateway, ghosts
<1>1. ASSUME NEW k \in Creates, AcquireCredit(k) PROVE TypeOK'
  <2>1. CurrentWindow \in Int
    BY LinkAssumption DEF CurrentWindow, LinkTypeOK
  <2>2. pc' \in [Creates -> Steps]
    BY <1>1, GotoType DEF AcquireCredit, Steps
  <2>3. credits' \in Nat /\ window' \in [Creates -> Int]
    BY <1>1, <2>1 DEF AcquireCredit
  <2> QED BY <1>1, <2>2, <2>3 DEF AcquireCredit
<1>2. ASSUME NEW k \in Creates, Register(k) \/ Discard(k) PROVE TypeOK'
  <2>1. pc' \in [Creates -> Steps]
    BY <1>2, GotoType DEF Register, Discard, Steps
  <2>2. pending' \subseteq Creates /\ awaitPend' \subseteq Creates \cap Awaiting
    BY <1>2 DEF Register, Discard
  <2>3. UNCHANGED <<credits, ackCh, awaitCh, target, outcome, gateway, ghosts>>
    BY <1>2 DEF Register, Discard
  <2> QED BY <2>1, <2>2, <2>3
<1>3. ASSUME NEW k \in Creates, ReadWriter(k) PROVE TypeOK'
  <2>1. (IF writer = 0 THEN "unsent" ELSE "sending") \in Steps
    BY DEF Steps
  <2>2. pc' \in [Creates -> Steps]
    BY <1>3, <2>1, GotoType DEF ReadWriter
  <2>3. target' \in [Creates -> 0..MaxConnects]
    BY <1>3 DEF ReadWriter, LinkTypeOK
  <2> QED BY <1>3, <2>2, <2>3 DEF ReadWriter
<1>4. ASSUME NEW k \in Creates, Enqueue(k) PROVE TypeOK'
  <2>1. out' \in [Sockets -> SUBSET Creates]
    <3>1. CASE out' = out
      BY <3>1
    <3>2. CASE target[k] \in alive /\ out' = [out EXCEPT ![target[k]] = @ \cup {k}]
      <4>1. target[k] \in Sockets
        BY <3>2 DEF LinkTypeOK
      <4> QED BY <3>2, <4>1
    <3> QED BY <1>4, <3>1, <3>2 DEF Enqueue
  <2>2. pc' \in [Creates -> Steps]
    BY <1>4, GotoType DEF Enqueue, Steps
  <2> QED BY <1>4, <2>1, <2>2 DEF Enqueue
<1>5. ASSUME NEW k \in Creates, Refund(k) PROVE TypeOK'
  <2>1. [pc EXCEPT ![k] = "done"] \in [Creates -> Steps]
    BY DEF Steps
  <2>2. pc' \in [Creates -> Steps]
    BY <1>5, <2>1, WokenType DEF Refund
  <2>3. outcome' \in [Creates -> Outcomes] /\ credits' \in Nat
    BY <1>5 DEF Refund, Outcomes
  <2> QED BY <1>5, <2>2, <2>3 DEF Refund
<1>6. ASSUME NEW k \in Creates, Acknowledged(k) \/ Completed(k) \/ CancelWait(k) \/ GiveUp(k)
      PROVE  TypeOK'
  <2>1. \/ Goto(k, "awaitResult") /\ outcome' = outcome
        \/ \E result \in {"ok", "rejected", "linkClosed", "gaveUp"} : Return(k, result)
    BY <1>6 DEF Acknowledged, Completed, CancelWait, GiveUp
  <2>5. {"awaitResult", "done"} \subseteq Steps
        /\ {"ok", "rejected", "linkClosed", "gaveUp"} \subseteq Outcomes
    BY DEF Steps, Outcomes
  <2>4. pc' \in [Creates -> Steps] /\ outcome' \in [Creates -> Outcomes]
    BY <2>1, <2>5, GotoType DEF Return
  <2>2. pending' \subseteq pending /\ awaitPend' \subseteq awaitPend
    BY <1>6 DEF Acknowledged, Completed, CancelWait, GiveUp
  <2>3. UNCHANGED <<credits, ackCh, awaitCh, target, gateway, ghosts>>
    BY <1>6 DEF Acknowledged, Completed, CancelWait, GiveUp
  <2> QED BY <2>2, <2>3, <2>4
<1>7. ASSUME NEW s \in Sockets, NEW k \in Creates, GatewayExecutes(s, k) PROVE TypeOK'
  <2>1. frames' \in Seq(Frame)
    <3>1. \/ frames' = frames
          \/ \E status \in {"accepted", "rejected"} :
                frames' = frames \o << <<status, k>>, <<"credits", 1>> >>
      BY <1>7 DEF GatewayExecutes
    <3> QED BY <3>1, Answers, FramesGrow
  <2>2. out' \in [Sockets -> SUBSET Creates] /\ executedOn' \in [Creates -> 0..MaxConnects]
    <3>1. out' = [out EXCEPT ![s] = out[s] \ {k}] /\ executedOn' = [executedOn EXCEPT ![k] = s]
      BY <1>7 DEF GatewayExecutes
    <3>2. s \in 0..MaxConnects
      BY LinkAssumption DEF Sockets
    <3> QED BY <3>1, <3>2
  <2>3. running' \subseteq Creates
    BY <1>7 DEF GatewayExecutes
  <2> QED BY <1>7, <2>1, <2>2, <2>3 DEF GatewayExecutes
<1>8. ASSUME NEW k \in Creates, GatewayCompletes(k) PROVE TypeOK'
  <2>1. Append(frames, <<"completed", k>>) \in Seq(Frame)
    BY AppendProperties DEF Frame
  <2> QED BY <1>8, <2>1 DEF GatewayCompletes
<1>9. CASE Deliver
  <2>1. PICK frame \in Frame : /\ frame = Head(frames)
                               /\ \/ frame[1] = "credits" /\ OnCredits(frame[2])
                                  \/ frame[1] \in {"accepted", "rejected"}
                                     /\ OnResult(frame[1], frame[2])
                                  \/ frame[1] = "completed" /\ OnCompleted(frame[2])
    BY <1>9, FramesRead DEF Deliver
  <2>2. UNCHANGED <<target, outcome, out, running, executedOn, window>> /\ frames' \in Seq(Frame)
    BY <1>9, FramesRead DEF Deliver
  <2>3. CASE frame[1] = "credits" /\ OnCredits(frame[2])
    <3>1. frame[2] \in Nat
      BY <2>3 DEF Frame
    <3>2. pc' \in [Creates -> Steps]
      <4>1. pc \in [Creates -> Steps] /\ pc' = Woken(pc)
        BY <2>3 DEF OnCredits
      <4> HIDE DEF TypeOK
      <4> QED BY <4>1, WokenType
    <3>3. credits' \in Nat /\ seenGrants' \in Nat
      <4>1. /\ credits' = credits + frame[2] /\ seenGrants' = seenGrants + frame[2]
            /\ credits \in Nat /\ seenGrants \in Nat
        BY <2>3 DEF OnCredits
      <4> HIDE DEF TypeOK
      <4> QED BY <3>1, <4>1
    <3> QED BY <2>2, <2>3, <3>2, <3>3 DEF OnCredits
  <2>4. CASE frame[1] \in {"accepted", "rejected"} /\ OnResult(frame[1], frame[2])
    BY <2>2, <2>4 DEF OnResult
  <2>5. CASE frame[1] = "completed" /\ OnCompleted(frame[2])
    BY <2>2, <2>5 DEF OnCompleted
  <2> QED BY <2>1, <2>3, <2>4, <2>5
<1>10. CASE Break
  BY <1>10, FramesShrink DEF Break
<1>11. ASSUME NEW e \in Endpoints, Connect(e) PROVE TypeOK'
  BY <1>11, Answers DEF Connect, Frame
<1>12. CASE StopPumping
  BY <1>12, EmptySeq DEF StopPumping
<1>13. CASE OnDisconnect
  BY <1>13 DEF OnDisconnect
<1>14. CASE UNCHANGED <<producer, calls, gateway, ghosts>>
  BY <1>14
<1> QED BY <1>1, <1>2, <1>3, <1>4, <1>5, <1>6, <1>7, <1>8, <1>9, <1>10, <1>11, <1>12, <1>13,
           <1>14 DEF Next, Step, Supervise, Close, vars

-----------------------------------------------------------------------------
(* The life of a call.  A call is in a map only while it waits on the      *)
(* channel of that map and nothing is in it; from its registration on, it  *)
(* is in the map or its channel holds the answer or the failure; and one   *)
(* that is in a map after it read the link's socket has read the current   *)
(* one, whose disconnect is still to come.                                 *)

Before == {"new", "parked", "woken", "credited"}
Hears == {"pumping", "closed", "detached"}
OnCurrent(k) == target[k] = conn /\ sup \in Hears

CallInv(k) ==
    /\ k \in pending => /\ pc[k] \in {"registered", "sending", "unsent", "awaitAck"}
                         /\ ackCh[k] = "empty"
    /\ k \in awaitPend =>
          /\ pc[k] \in {"registered", "sending", "unsent", "awaitAck", "awaitResult"}
          /\ awaitCh[k] = "empty"
    /\ pc[k] \in Before => ackCh[k] = "empty" /\ awaitCh[k] = "empty"
    /\ pc[k] \in {"registered", "sending", "awaitAck"} /\ ackCh[k] = "empty" => k \in pending
    /\ pc[k] \in {"registered", "sending", "awaitAck", "awaitResult"} =>
          k \notin Awaiting \/ awaitCh[k] # "empty" \/ k \in awaitPend
    /\ pc[k] = "awaitResult" => k \in Awaiting
    /\ pc[k] \in {"sending", "awaitAck", "awaitResult"} /\ k \in pending \cup awaitPend =>
          OnCurrent(k)

Calls == TypeOK /\ LinkInv /\ \A k \in Creates : CallInv(k)

LEMMA HearsOn ==
    ASSUME [LinkNext]_linkVars, ~Disconnect, sup \in Hears
    PROVE  conn' = conn /\ sup' \in Hears
BY DEF Hears, LinkNext, DialFails, DialSucceeds, SuperviseEnds, Publish, SocketDies, PumpEnds,
       Detach, Disconnect, CloseCancels, CloseDetaches, linkVars

LEMMA DisconnectOnly == [Next]_vars /\ Disconnect => OnDisconnect
<1> SUFFICES ASSUME [Next]_vars, Disconnect PROVE OnDisconnect
  OBVIOUS
<1> USE DEF Disconnect
<1>1. ASSUME UNCHANGED sup PROVE FALSE
  BY <1>1
<1>2. ASSUME NEW k \in Creates, Step(k) \/ CancelWait(k) \/ GiveUp(k) \/ GatewayCompletes(k)
      PROVE  FALSE
  BY <1>1, <1>2 DEF Step, AcquireCredit, Register, ReadWriter, Enqueue, Discard, Refund,
                    Acknowledged, Completed, CancelWait, GiveUp, GatewayCompletes, linkVars
<1>3. ASSUME NEW s \in Sockets, NEW k \in Creates, GatewayExecutes(s, k) PROVE FALSE
  BY <1>1, <1>3 DEF GatewayExecutes, linkVars
<1>4. ASSUME Close \/ Break \/ Deliver \/ UNCHANGED vars PROVE FALSE
  BY <1>1, <1>4 DEF Close, CloseCancels, CloseDetaches, Break, SocketDies, Deliver, vars,
                    linkVars
<1>5. ASSUME \/ \E e \in Endpoints : DialFails(e) \/ Connect(e)
             \/ SuperviseEnds \/ Publish \/ Detach \/ StopPumping
      PROVE  FALSE
  BY <1>5 DEF DialFails, Connect, DialSucceeds, SuperviseEnds, Publish, Detach, StopPumping,
              PumpEnds
<1> QED BY <1>2, <1>3, <1>4, <1>5 DEF Next, Supervise

(* A call that nothing of a step concerns.                                 *)
LEMMA CallKept ==
    ASSUME NEW k \in Creates, CallInv(k), [Next]_vars, ~OnDisconnect,
           k \in pending' <=> k \in pending, k \in awaitPend' <=> k \in awaitPend,
           ackCh'[k] = ackCh[k], awaitCh'[k] = awaitCh[k], target'[k] = target[k],
           pc'[k] = pc[k] \/ (pc[k] \in Before /\ pc'[k] \in Before)
    PROVE  CallInv(k)'
<1>1. OnCurrent(k) => OnCurrent(k)'
  BY LinkStep, HearsOn, DisconnectOnly DEF OnCurrent
<1> QED BY <1>1 DEF CallInv, Before

LEMMA InitCalls == Init => Calls
<1> SUFFICES ASSUME Init PROVE \A k \in Creates : CallInv(k)
  BY InitType, LinkInvInit DEF Calls, Init
<1> QED BY DEF Init, CallInv, Before

LEMMA StepCalls == Calls /\ [Next]_vars => Calls'
<1> SUFFICES ASSUME Calls, [Next]_vars, NEW k \in Creates PROVE CallInv(k)'
  BY StepType, LinkStep, LinkInvStep DEF Calls
<1>0. TypeOK /\ CallInv(k) /\ OneSocket
  BY DEF Calls, LinkInv
<1> USE <1>0 DEF producer, calls, gateway, ghosts, Goto, Return
<1>1. ASSUME ~OnDisconnect, pending' = pending, awaitPend' = awaitPend, ackCh' = ackCh,
             awaitCh' = awaitCh, target' = target,
             pc'[k] = pc[k] \/ (pc[k] \in Before /\ pc'[k] \in Before)
      PROVE  CallInv(k)'
  BY <1>1, CallKept
<1>2. ~OnDisconnect => (OnCurrent(k) => OnCurrent(k)' \/ target'[k] # target[k])
  BY LinkStep, HearsOn, DisconnectOnly DEF OnCurrent
<1>3. ASSUME NEW j \in Creates, AcquireCredit(j) PROVE CallInv(k)'
  <2>1. pc'[k] = pc[k] \/ (pc[k] \in Before /\ pc'[k] \in Before)
    BY <1>3 DEF AcquireCredit, Before, TypeOK
  <2>2. ~OnDisconnect
    BY <1>3 DEF AcquireCredit, OnDisconnect, Disconnect, linkVars
  <2> QED BY <1>1, <1>3, <2>1, <2>2 DEF AcquireCredit
<1>4. ASSUME NEW j \in Creates, CancelWait(j) PROVE CallInv(k)'
  <2>1. ~OnDisconnect
    BY <1>4 DEF CancelWait, OnDisconnect, Disconnect, linkVars
  <2>2. CASE j = k
    BY <1>4, <2>2 DEF CancelWait, CallInv, Before, TypeOK
  <2>3. CASE j # k
    BY <1>1, <1>4, <2>1, <2>3 DEF CancelWait, TypeOK
  <2> QED BY <2>2, <2>3
<1>5. ASSUME NEW j \in Creates, Register(j) PROVE CallInv(k)'
  <2>1. ~OnDisconnect
    BY <1>5 DEF Register, OnDisconnect, Disconnect, linkVars
  <2>2. CASE j = k
    BY <1>5, <2>2 DEF Register, CallInv, Before, TypeOK
  <2>3. CASE j # k
    BY <1>5, <2>1, <2>3, CallKept DEF Register, TypeOK
  <2> QED BY <2>2, <2>3
<1>6. ASSUME NEW j \in Creates, ReadWriter(j) PROVE CallInv(k)'
  <2>1. ~OnDisconnect
    BY <1>6 DEF ReadWriter, OnDisconnect, Disconnect, linkVars
  <2>2. CASE j = k
    <3>1. pc'[k] = "sending" => OnCurrent(k)'
      BY <1>6, <2>2 DEF ReadWriter, TypeOK, OneSocket, OnCurrent, Hears, linkVars
    <3>2. pc[k] = "registered" /\ pc'[k] \in {"unsent", "sending"}
          /\ UNCHANGED <<pending, awaitPend, ackCh, awaitCh>>
      BY <1>6, <2>2 DEF ReadWriter, TypeOK
    <3> QED BY <3>1, <3>2 DEF CallInv, Before
  <2>3. CASE j # k
    BY <1>6, <2>1, <2>3, CallKept DEF ReadWriter, TypeOK
  <2> QED BY <2>2, <2>3
<1>7. ASSUME NEW j \in Creates, Enqueue(j) PROVE CallInv(k)'
  <2>1. ~OnDisconnect
    BY <1>7 DEF Enqueue, OnDisconnect, Disconnect, linkVars
  <2>2. CASE j = k
    <3>1. pc[k] = "sending" /\ pc'[k] \in {"unsent", "awaitAck"}
          /\ UNCHANGED <<pending, awaitPend, ackCh, awaitCh, target>>
      BY <1>7, <2>2 DEF Enqueue, TypeOK
    <3> QED BY <1>2, <2>1, <3>1 DEF CallInv, Before
  <2>3. CASE j # k
    BY <1>1, <1>7, <2>1, <2>3 DEF Enqueue, TypeOK
  <2> QED BY <2>2, <2>3
<1>8. ASSUME NEW j \in Creates, Discard(j) \/ Refund(j) PROVE CallInv(k)'
  <2>1. ~OnDisconnect
    BY <1>8 DEF Discard, Refund, OnDisconnect, Disconnect, linkVars
  <2>2. CASE j = k
    <3>1. \/ pc[k] = "unsent" /\ pc'[k] = "refunding" /\ k \notin pending' \cup awaitPend'
          \/ pc[k] = "refunding" /\ pc'[k] = "done" /\ UNCHANGED <<pending, awaitPend>>
      BY <1>8, <2>2 DEF Discard, Refund, Woken, TypeOK
    <3> QED BY <3>1 DEF CallInv, Before
  <2>3. CASE j # k
    <3>1. pc'[k] = pc[k] \/ (pc[k] \in Before /\ pc'[k] \in Before)
      BY <1>8, <2>3 DEF Discard, Refund, Woken, Before, TypeOK
    <3>2. /\ k \in pending' <=> k \in pending
          /\ k \in awaitPend' <=> k \in awaitPend
          /\ UNCHANGED <<ackCh, awaitCh, target>>
      BY <1>8, <2>3 DEF Discard, Refund
    <3> QED BY <2>1, <3>1, <3>2, CallKept
  <2> QED BY <2>2, <2>3
<1>9. ASSUME NEW j \in Creates, Acknowledged(j) \/ Completed(j) \/ GiveUp(j) PROVE CallInv(k)'
  <2>1. ~OnDisconnect
    BY <1>9 DEF Acknowledged, Completed, GiveUp, OnDisconnect, Disconnect, linkVars
  <2>2. CASE j = k
    <3>1. UNCHANGED <<ackCh, awaitCh, target>>
      BY <1>9 DEF Acknowledged, Completed, GiveUp
    <3>2. CASE pc'[k] = "done" /\ k \notin pending' \cup awaitPend'
      BY <3>2 DEF CallInv, Before
    <3>3. CASE /\ pc[k] = "awaitAck" /\ ackCh[k] # "empty" /\ pc'[k] = "awaitResult"
               /\ k \in Awaiting /\ UNCHANGED <<pending, awaitPend>>
      BY <1>2, <2>1, <3>1, <3>3 DEF CallInv, Before
    <3>4. CASE Acknowledged(k)
      BY <3>2, <3>3, <3>4 DEF Acknowledged, CallInv, TypeOK
    <3>5. CASE Completed(k)
      BY <3>2, <3>5 DEF Completed, CallInv, TypeOK
    <3>6. CASE GiveUp(k)
      BY <3>2, <3>6 DEF GiveUp, CallInv, TypeOK
    <3> QED BY <1>9, <2>2, <3>4, <3>5, <3>6
  <2>3. CASE j # k
    <3>1. pc'[k] = pc[k] /\ UNCHANGED <<ackCh, awaitCh, target>>
      BY <1>9, <2>3 DEF Acknowledged, Completed, GiveUp, TypeOK
    <3>2. (k \in pending' <=> k \in pending) /\ (k \in awaitPend' <=> k \in awaitPend)
      BY <1>9, <2>3 DEF Acknowledged, Completed, GiveUp
    <3> QED BY <2>1, <3>1, <3>2, CallKept
  <2> QED BY <2>2, <2>3
<1>10. CASE Deliver
  <2>1. PICK frame \in Frame : \/ frame[1] = "credits" /\ OnCredits(frame[2])
                               \/ frame[1] \in {"accepted", "rejected"}
                                  /\ OnResult(frame[1], frame[2])
                               \/ frame[1] = "completed" /\ OnCompleted(frame[2])
    BY <1>10, FramesRead DEF Deliver, TypeOK
  <2>2. ~OnDisconnect /\ target' = target /\ linkVars' = linkVars
    BY <1>10 DEF Deliver, OnDisconnect, Disconnect, linkVars
  <2>3. CASE frame[1] = "credits" /\ OnCredits(frame[2])
    <3>1. pc'[k] = pc[k] \/ (pc[k] \in Before /\ pc'[k] \in Before)
      BY <2>3 DEF OnCredits, Woken, Before
    <3> QED BY <1>1, <2>2, <2>3, <3>1 DEF OnCredits
  <2>4. CASE frame[1] \in {"accepted", "rejected"} /\ OnResult(frame[1], frame[2])
    <3>1. CASE frame[2] = k /\ k \in pending
      <4>1. pc'[k] = pc[k] /\ k \notin pending' /\ ackCh'[k] # "empty"
            /\ UNCHANGED <<awaitPend, awaitCh>>
        BY <2>4, <3>1 DEF OnResult, TypeOK
      <4> QED BY <1>2, <2>2, <3>1, <4>1 DEF CallInv, Before
    <3>2. CASE ~(frame[2] = k /\ k \in pending)
      <4>1. (k \in pending' <=> k \in pending) /\ ackCh'[k] = ackCh[k]
        BY <2>4, <3>2 DEF OnResult, TypeOK
      <4> QED BY <2>2, <2>4, <4>1, CallKept DEF OnResult
    <3> QED BY <3>1, <3>2
  <2>5. CASE frame[1] = "completed" /\ OnCompleted(frame[2])
    <3>1. CASE frame[2] = k /\ k \in awaitPend
      <4>1. pc'[k] = pc[k] /\ k \notin awaitPend' /\ awaitCh'[k] # "empty"
            /\ UNCHANGED <<pending, ackCh>>
        BY <2>5, <3>1 DEF OnCompleted, TypeOK
      <4> QED BY <1>2, <2>2, <3>1, <4>1 DEF CallInv, Before
    <3>2. CASE ~(frame[2] = k /\ k \in awaitPend)
      <4>1. (k \in awaitPend' <=> k \in awaitPend) /\ awaitCh'[k] = awaitCh[k]
        BY <2>5, <3>2 DEF OnCompleted, TypeOK
      <4> QED BY <2>2, <2>5, <4>1, CallKept DEF OnCompleted
    <3> QED BY <3>1, <3>2
  <2> QED BY <2>1, <2>3, <2>4, <2>5
<1>11. CASE OnDisconnect
  <2>1. pending' = {} /\ awaitPend' = {} /\ pc' = pc
    BY <1>11 DEF OnDisconnect
  <2>2. /\ ackCh'[k] = IF k \in pending THEN "closed" ELSE ackCh[k]
        /\ awaitCh'[k] = IF k \in awaitPend THEN "closed" ELSE awaitCh[k]
    BY <1>11 DEF OnDisconnect
  <2> QED BY <2>1, <2>2 DEF CallInv, Before
<1>12. ASSUME ~OnDisconnect, UNCHANGED <<producer, calls>> PROVE CallInv(k)'
  BY <1>1, <1>12
<1>13. ASSUME NEW s \in Sockets, NEW j \in Creates, GatewayExecutes(s, j) \/ GatewayCompletes(j)
       PROVE  CallInv(k)'
  BY <1>12, <1>13 DEF GatewayExecutes, GatewayCompletes, OnDisconnect, Disconnect, linkVars
<1> QED
  BY <1>3, <1>4, <1>5, <1>6, <1>7, <1>8, <1>9, <1>10, <1>11, <1>12, <1>13
  DEF Next, Step, Supervise, Close, Break, Connect, StopPumping, GatewayExecutes,
      GatewayCompletes, vars

(* Nobody waits for an answer that cannot come: a call that the disconnect *)
(* has passed over is in neither wait, and one that waits has read the     *)
(* socket whose disconnect is still to come.                               *)
THEOREM CreatesAreNotOrphaned == Spec => []NoOrphanedCreate
<1>1. Calls => NoOrphanedCreate
  <2> SUFFICES ASSUME Calls, NEW k \in Creates
               PROVE  /\ pc[k] = "awaitAck" /\ ackCh[k] = "empty" =>
                             k \in pending /\ target[k] = conn /\ sup \in Hears
                      /\ pc[k] = "awaitResult" /\ awaitCh[k] = "empty" =>
                             k \in awaitPend /\ target[k] = conn /\ sup \in Hears
    BY DEF NoOrphanedCreate, Hears
  <2> QED BY DEF Calls, CallInv, OnCurrent
<1> QED BY <1>1, InitCalls, StepCalls, PTL DEF Spec

(* The two maps hold nothing of a call that has returned, on any path.     *)
THEOREM MapsAreCleared == Spec => []NothingLeftBehind
<1>1. Calls => NothingLeftBehind
  BY DEF Calls, CallInv, NothingLeftBehind
<1> QED BY <1>1, InitCalls, StepCalls, PTL DEF Spec

(* Every variable of the producer stays well typed; above all no credit    *)
(* count falls below zero.                                                 *)
THEOREM TypeCorrect == Spec => []TypeOK
BY InitType, StepType, PTL DEF Spec

-----------------------------------------------------------------------------
(* creditCh.                                                               *)
LEMMA StepParked == TypeOK /\ ParkedWithoutCredit /\ [Next]_vars => ParkedWithoutCredit'
<1> SUFFICES ASSUME TypeOK, ParkedWithoutCredit, [Next]_vars, NEW k \in Creates, pc'[k] = "parked"
             PROVE  credits' = 0
  BY DEF ParkedWithoutCredit
<1> USE DEF TypeOK, ParkedWithoutCredit, producer, calls, gateway, ghosts, Goto, Return
<1>1. ASSUME credits' = credits, pc[k] = "parked" PROVE credits' = 0
  BY <1>1
<1>2. ASSUME NEW j \in Creates, AcquireCredit(j) PROVE credits' = 0
  <2>1. CASE credits > 0
    BY <1>2, <2>1 DEF AcquireCredit
  <2>2. CASE ~(credits > 0)
    BY <1>2, <2>2 DEF AcquireCredit
  <2> QED BY <2>1, <2>2
<1>3. ASSUME NEW j \in Creates,
             \/ CancelWait(j) \/ Register(j) \/ ReadWriter(j) \/ Enqueue(j) \/ Discard(j)
             \/ Acknowledged(j) \/ Completed(j) \/ GiveUp(j)
      PROVE  credits' = 0
  BY <1>1, <1>3 DEF CancelWait, Register, ReadWriter, Enqueue, Discard, Acknowledged,
                    Completed, GiveUp
<1>4. ASSUME NEW j \in Creates, Refund(j) PROVE FALSE
  BY <1>4 DEF Refund, Woken
<1>5. CASE Deliver
  BY <1>1, <1>5 DEF Deliver, OnCredits, OnResult, OnCompleted, Woken
<1>6. CASE OnDisconnect
  BY <1>6 DEF OnDisconnect
<1>7. ASSUME NEW s \in Sockets, NEW j \in Creates, GatewayExecutes(s, j) \/ GatewayCompletes(j)
      PROVE  credits' = 0
  BY <1>1, <1>7 DEF GatewayExecutes, GatewayCompletes
<1>8. CASE UNCHANGED <<producer, calls>>
  BY <1>1, <1>8
<1> QED
  BY <1>2, <1>3, <1>4, <1>5, <1>6, <1>7, <1>8
  DEF Next, Step, Supervise, Close, Break, Connect, StopPumping, GatewayExecutes,
      GatewayCompletes, vars

(* No replenishment and no refund is missed by a call that waits for one.  *)
THEOREM ReplenishIsNotLost == Spec => []ParkedWithoutCredit
<1>1. Init => ParkedWithoutCredit
  BY DEF Init, ParkedWithoutCredit
<1> QED BY <1>1, StepParked, TypeCorrect, PTL DEF Spec

-----------------------------------------------------------------------------
(* The credits of the current window.                                      *)

Spent == {k \in Creates : window[k] = CurrentWindow /\ outcome[k] # "unsent"}

(* A call that has yet to take a credit has none of any window.            *)
NoCreditYet ==
    \A k \in Creates :
        pc[k] \in Before \ {"credited"} => window[k] = -1 /\ outcome[k] # "unsent"

CreditInv == TypeOK /\ NoCreditYet /\ CreditsNotLost

LEMMA SpentFinite ==
    ASSUME NEW S \in SUBSET Creates
    PROVE  /\ IsFiniteSet(S) /\ Cardinality(S) \in Nat
           /\ \A T \in SUBSET S : Cardinality(T) <= Cardinality(S)
           /\ \A k \in Creates : /\ k \notin S => Cardinality(S \cup {k}) = Cardinality(S) + 1
                                  /\ Cardinality(S \ {k}) >= Cardinality(S) - 1
<1>1. IsFiniteSet(S) /\ Cardinality(S) \in Nat
  BY FS_Subset, FS_CardinalityType
<1>2. \A T \in SUBSET S : Cardinality(T) <= Cardinality(S)
  BY <1>1, FS_Subset
<1>3. ASSUME NEW k \in Creates, k \notin S PROVE Cardinality(S \cup {k}) = Cardinality(S) + 1
  BY <1>1, <1>3, FS_AddElement
<1>4. ASSUME NEW k \in Creates PROVE Cardinality(S \ {k}) >= Cardinality(S) - 1
  <2> DEFINE all == Cardinality(S)  rest == Cardinality(S \ {k})
  <2>1. rest = IF k \in S THEN all - 1 ELSE all
    BY <1>1, FS_RemoveElement
  <2>2. all \in Nat
    BY <1>1
  <2> HIDE DEF all, rest
  <2>3. rest >= all - 1
    BY <2>1, <2>2
  <2> QED BY <2>3 DEF all, rest
<1> QED BY <1>1, <1>2, <1>3, <1>4

LEMMA WindowGrows ==
    ASSUME TypeOK, [Next]_vars
    PROVE  CurrentWindow \in Nat /\ (CurrentWindow' = CurrentWindow \/ OnDisconnect)
<1>1. CurrentWindow \in Nat
  BY LinkAssumption DEF TypeOK, LinkTypeOK, CurrentWindow
<1>2. ~Disconnect => CurrentWindow' = CurrentWindow
  BY LinkStep DEF CurrentWindow, LinkNext, DialFails, DialSucceeds, SuperviseEnds, Publish,
       SocketDies, PumpEnds, Detach, CloseCancels, CloseDetaches, linkVars, TypeOK, LinkTypeOK
<1> QED BY <1>1, <1>2, DisconnectOnly

(* A step that takes no credit and returns none.                           *)
LEMMA CreditsKept ==
    ASSUME CreditInv, CurrentWindow' = CurrentWindow, window' = window,
           \A k \in Creates : outcome'[k] = "unsent" => outcome[k] = "unsent",
           \A k \in Creates : pc'[k] = pc[k] \/ pc'[k] \notin Before \ {"credited"}
                              \/ pc[k] \in Before \ {"credited"},
           TypeOK', credits' - seenGrants' = credits - seenGrants
    PROVE  CreditInv'
<1>1. Spent \in SUBSET Spent' /\ Spent' \in SUBSET Creates
  BY DEF Spent
<1>2. Cardinality(Spent) <= Cardinality(Spent') /\ Cardinality(Spent) \in Nat
      /\ Cardinality(Spent') \in Nat
  BY <1>1, SpentFinite
<1>3. credits \in Nat /\ seenGrants \in Nat /\ credits' \in Nat /\ seenGrants' \in Nat
      /\ credits + Cardinality(Spent) >= seenGrants
  BY DEF CreditInv, TypeOK, CreditsNotLost, Spent
<1>4. CreditsNotLost'
  BY <1>2, <1>3 DEF CreditsNotLost, Spent
<1> QED BY <1>4 DEF CreditInv, NoCreditYet

LEMMA StepCredits == CreditInv /\ [Next]_vars => CreditInv'
<1> SUFFICES ASSUME CreditInv, [Next]_vars PROVE CreditInv'
  OBVIOUS
<1>0. TypeOK /\ TypeOK' /\ CurrentWindow \in Nat
  BY StepType, WindowGrows DEF CreditInv
<1> USE <1>0 DEF producer, calls, gateway, ghosts, Goto, Return
<1>1. /\ Spent \in SUBSET Creates /\ credits + Cardinality(Spent) >= seenGrants
      /\ credits \in Nat /\ seenGrants \in Nat /\ credits' \in Nat /\ seenGrants' \in Nat
      /\ Spent' \in SUBSET Creates
  BY DEF CreditInv, TypeOK, CreditsNotLost, Spent
<1>2. credits' + Cardinality(Spent') >= seenGrants' => CreditsNotLost'
  BY DEF CreditsNotLost, Spent
<1>3. CASE OnDisconnect
  <2>1. Cardinality(Spent') \in Nat /\ credits' = 0 /\ seenGrants' = 0
    BY <1>1, <1>3, SpentFinite DEF OnDisconnect
  <2> QED BY <1>2, <1>3, <2>1 DEF OnDisconnect, CreditInv, NoCreditYet
<1>4. ~OnDisconnect => CurrentWindow' = CurrentWindow
  BY WindowGrows
<1>5. ASSUME NEW k \in Creates, AcquireCredit(k) PROVE CreditInv'
  <2>1. ~OnDisconnect /\ UNCHANGED <<outcome, seenGrants>>
    BY <1>5 DEF AcquireCredit, OnDisconnect, Disconnect, linkVars
  <2>2. CASE credits > 0
    <3>1. credits' = credits - 1 /\ window' = [window EXCEPT ![k] = CurrentWindow]
          /\ pc' = [pc EXCEPT ![k] = "credited"] /\ pc[k] \in {"new", "woken"}
      BY <1>5, <2>2 DEF AcquireCredit
    <3>2. window[k] = -1 /\ outcome[k] # "unsent"
      BY <3>1 DEF CreditInv, NoCreditYet, Before
    <3>3. k \notin Spent
      BY <3>2 DEF Spent
    <3>4. Spent' = Spent \cup {k}
      BY <1>4, <2>1, <3>1, <3>2 DEF Spent, TypeOK
    <3>5. Cardinality(Spent') = Cardinality(Spent) + 1 /\ Cardinality(Spent) \in Nat
      BY <1>1, <3>3, <3>4, SpentFinite
    <3>6. CreditsNotLost'
      BY <1>1, <1>2, <2>1, <3>1, <3>5
    <3> QED BY <2>1, <3>1, <3>6 DEF CreditInv, NoCreditYet, TypeOK
  <2>3. CASE ~(credits > 0)
    <3>1. UNCHANGED <<credits, window>> /\ pc' = [pc EXCEPT ![k] = "parked"]
          /\ pc[k] \in {"new", "woken"}
      BY <1>5, <2>3 DEF AcquireCredit
    <3>2. \A j \in Creates : pc'[j] = pc[j] \/ pc[j] \in Before \ {"credited"}
      BY <3>1 DEF TypeOK, Before
    <3> QED BY <1>4, <2>1, <3>1, <3>2, CreditsKept
  <2> QED BY <2>2, <2>3
<1>6. ASSUME NEW k \in Creates, Refund(k) PROVE CreditInv'
  <2>1. ~OnDisconnect /\ UNCHANGED <<window, seenGrants>> /\ credits' = credits + 1
        /\ outcome' = [outcome EXCEPT ![k] = "unsent"]
    BY <1>6 DEF Refund, OnDisconnect, Disconnect, linkVars
  <2>2. Spent' = Spent \ {k}
    BY <1>4, <2>1 DEF Spent, TypeOK
  <2>3. Cardinality(Spent') >= Cardinality(Spent) - 1 /\ Cardinality(Spent) \in Nat
        /\ Cardinality(Spent') \in Nat
    BY <1>1, <2>2, SpentFinite
  <2>4. CreditsNotLost'
    BY <1>1, <1>2, <2>1, <2>3
  <2>5. \A j \in Creates :
           pc'[j] \in Before \ {"credited"} => pc[j] \in Before \ {"credited"} /\ j # k
    BY <1>6 DEF Refund, Woken, Before, TypeOK
  <2> QED BY <2>1, <2>4, <2>5 DEF CreditInv, NoCreditYet, TypeOK
<1>7. ASSUME NEW k \in Creates,
             \/ CancelWait(k) \/ Register(k) \/ ReadWriter(k) \/ Enqueue(k) \/ Discard(k)
             \/ Acknowledged(k) \/ Completed(k) \/ GiveUp(k)
      PROVE  CreditInv'
  <2>1. ~OnDisconnect /\ UNCHANGED <<credits, seenGrants, window>>
    BY <1>7 DEF CancelWait, Register, ReadWriter, Enqueue, Discard, Acknowledged, Completed,
                GiveUp, OnDisconnect, Disconnect, linkVars
  <2>2. \A j \in Creates : outcome'[j] = "unsent" => outcome[j] = "unsent"
    BY <1>7 DEF CancelWait, Register, ReadWriter, Enqueue, Discard, Acknowledged, Completed,
                GiveUp, TypeOK
  <2>3. \A j \in Creates : pc'[j] = pc[j] \/ pc'[j] \notin Before \ {"credited"}
    <3>1. PICK step : pc' = [pc EXCEPT ![k] = step] /\ step \notin Before \ {"credited"}
      <4> HIDE DEF TypeOK
      <4>1. CASE CancelWait(k) \/ Completed(k) \/ GiveUp(k)
        BY <4>1 DEF CancelWait, Completed, GiveUp, Before
      <4>2. CASE Register(k) \/ ReadWriter(k) \/ Enqueue(k) \/ Discard(k)
        BY <4>2 DEF Register, ReadWriter, Enqueue, Discard, Before
      <4>3. CASE Acknowledged(k)
        BY <4>3 DEF Acknowledged, Before
      <4> QED BY <1>7, <4>1, <4>2, <4>3
    <3>2. pc \in [Creates -> Steps]
      BY DEF TypeOK
    <3> HIDE DEF Before
    <3> QED BY <3>1, <3>2
  <2> QED BY <1>4, <2>1, <2>2, <2>3, CreditsKept
<1>8. CASE Deliver
  <2>1. ~OnDisconnect /\ UNCHANGED <<window, outcome>>
    BY <1>8 DEF Deliver, OnDisconnect, Disconnect, linkVars
  <2>2. \A j \in Creates : pc'[j] = pc[j] \/ pc[j] \in Before \ {"credited"}
    BY <1>8 DEF Deliver, OnCredits, OnResult, OnCompleted, Woken, Before
  <2>3. credits' - seenGrants' = credits - seenGrants
    <3>1. PICK frame \in Frame : \/ frame[1] = "credits" /\ OnCredits(frame[2])
                                 \/ OnResult(frame[1], frame[2]) \/ OnCompleted(frame[2])
      BY <1>8, FramesRead DEF Deliver, TypeOK
    <3>2. CASE frame[1] = "credits" /\ OnCredits(frame[2])
      <4>1. frame[2] \in Nat
        BY <3>2 DEF Frame
      <4> QED BY <1>1, <3>2, <4>1 DEF OnCredits
    <3>3. CASE OnResult(frame[1], frame[2]) \/ OnCompleted(frame[2])
      BY <3>3 DEF OnResult, OnCompleted
    <3> QED BY <3>1, <3>2, <3>3
  <2> QED BY <1>4, <2>1, <2>2, <2>3, CreditsKept
<1>9. ASSUME ~OnDisconnect, UNCHANGED <<producer, calls, ghosts>> PROVE CreditInv'
  BY <1>4, <1>9, CreditsKept
<1> QED
  BY <1>3, <1>5, <1>6, <1>7, <1>8, <1>9
  DEF Next, Step, Supervise, Close, Break, Connect, StopPumping, GatewayExecutes,
      GatewayCompletes, vars

(* No credit of the current window is lost: what the gateway has granted   *)
(* since the last disconnect is available, or was taken by a call that has *)
(* not given it back.                                                      *)
THEOREM CreditsAreNotLost == Spec => []CreditsNotLost
<1>1. Init => CreditInv
  <2> SUFFICES ASSUME Init PROVE CreditInv
    OBVIOUS
  <2>1. Spent \in SUBSET Creates
    BY DEF Spent
  <2>2. Cardinality(Spent) \in Nat
    BY <2>1, SpentFinite
  <2> QED BY <2>2, InitType DEF CreditInv, NoCreditYet, CreditsNotLost, Spent, Init
<1> QED BY <1>1, StepCredits, PTL DEF Spec, CreditInv

-----------------------------------------------------------------------------
(* The abstract contract.  A create is on no socket before its call has    *)
(* queued it, and on one socket at most while it has not been executed;    *)
(* whatever says "accepted" says so of an executed one.                    *)

NotSent == Before \cup {"registered", "sending"}

FateInv(k) ==
    /\ pc[k] \in NotSent => executedOn[k] = 0 /\ \A s \in Sockets : k \notin out[s]
    /\ \A s \in Sockets : k \in out[s] =>
          executedOn[k] = 0 /\ \A t \in Sockets : k \in out[t] => t = s
    /\ ackCh[k] = "accepted" \/ pc[k] = "awaitResult" \/ outcome[k] = "ok" =>
          executedOn[k] # 0
    /\ pc[k] # "done" => outcome[k] = "none"

SaidInv ==
    \A i \in 1..Len(frames) : \A k \in Creates :
        frames[i] = <<"accepted", k>> => executedOn[k] # 0

Fates == Calls /\ SaidInv /\ \A k \in Creates : FateInv(k)

LEMMA InitFates == Init => Fates
<1> SUFFICES ASSUME Init PROVE SaidInv /\ \A k \in Creates : FateInv(k)
  BY InitCalls DEF Fates
<1>1. SaidInv
  BY DEF Init, SaidInv
<1>2. \A k \in Creates : FateInv(k)
  BY DEF Init, FateInv, NotSent, Before
<1> QED BY <1>1, <1>2

LEMMA StepSaid == Fates /\ [Next]_vars => SaidInv'
<1> SUFFICES ASSUME Fates, [Next]_vars, NEW k \in Creates, NEW i \in 1..Len(frames'),
                    frames'[i] = <<"accepted", k>>
             PROVE  executedOn'[k] # 0
  BY DEF SaidInv
<1>0. TypeOK /\ SaidInv
  BY DEF Fates, Calls
<1> USE <1>0 DEF gateway
<1>1. ASSUME NEW s \in Sockets, NEW j \in Creates, GatewayExecutes(s, j)
      PROVE  executedOn'[k] # 0
  <2>1. executedOn' = [executedOn EXCEPT ![j] = s] /\ s # 0
    BY <1>1 DEF GatewayExecutes, Sockets
  <2>2. CASE k = j
    BY <2>1, <2>2 DEF TypeOK
  <2>3. CASE k # j
    <3>1. PICK status \in {"accepted", "rejected"} :
              frames' = frames \/ frames' = frames \o << <<status, j>>, <<"credits", 1>> >>
      BY <1>1 DEF GatewayExecutes
    <3>2. i \in 1..Len(frames) /\ frames[i] = <<"accepted", k>>
      <4>1. CASE frames' = frames
        BY <4>1
      <4>2. CASE frames' = frames \o << <<status, j>>, <<"credits", 1>> >>
        <5> DEFINE more == << <<status, j>>, <<"credits", 1>> >>
        <5>1. more \in Seq(Frame) /\ Len(more) = 2
          BY Answers
        <5>2. \A n \in 1..2 : more[n] # <<"accepted", k>>
          BY <2>3
        <5> HIDE DEF more
        <5> QED BY <4>2, <5>1, <5>2, FramesGrow DEF TypeOK, more
      <4> QED BY <3>1, <4>1, <4>2
    <3>3. executedOn[k] # 0
      BY <3>2 DEF SaidInv
    <3> QED BY <2>1, <2>3, <3>3 DEF TypeOK
  <2> QED BY <2>2, <2>3
<1>2. ASSUME UNCHANGED executedOn, NEW n \in 1..Len(frames), frames'[i] = frames[n]
      PROVE  executedOn'[k] # 0
  BY <1>2 DEF SaidInv
<1>3. ASSUME NEW j \in Creates, GatewayCompletes(j) PROVE executedOn'[k] # 0
  <2>1. frames' = frames \/ frames' = Append(frames, <<"completed", j>>)
    BY <1>3 DEF GatewayCompletes
  <2>2. CASE frames' = frames
    BY <1>2, <1>3, <2>2 DEF GatewayCompletes
  <2>3. CASE frames' = Append(frames, <<"completed", j>>)
    <3>1. /\ Len(frames') = Len(frames) + 1 /\ frames'[Len(frames) + 1] = <<"completed", j>>
          /\ \A n \in 1..Len(frames) : frames'[n] = frames[n]
          /\ Len(frames) \in Nat
      BY <2>3, AppendProperties, LenProperties DEF TypeOK, Frame
    <3>2. i # Len(frames) + 1
      BY <3>1
    <3> QED BY <1>2, <1>3, <3>1, <3>2 DEF GatewayCompletes
  <2> QED BY <2>1, <2>2, <2>3
<1>4. CASE Break
  <2>1. PICK n \in 0..Len(frames) : frames' = SubSeq(frames, 1, n)
    BY <1>4 DEF Break
  <2>2. Len(frames') = n /\ \A m \in 1..n : frames'[m] = frames[m]
    BY <2>1, FramesShrink DEF TypeOK
  <2>3. i \in 1..Len(frames) /\ frames'[i] = frames[i]
    BY <2>2
  <2> QED BY <1>2, <1>4, <2>3 DEF Break
<1>5. CASE Deliver
  BY <1>2, <1>5, FramesRead DEF Deliver, TypeOK
<1>6. ASSUME NEW e \in Endpoints, Connect(e) PROVE FALSE
  <2>1. frames' = << <<"credits", Window>> >>
    BY <1>6 DEF Connect
  <2> QED BY <2>1
<1>7. CASE StopPumping
  BY <1>7 DEF StopPumping
<1>8. CASE UNCHANGED gateway
  BY <1>2, <1>8
<1>9. ASSUME NEW j \in Creates, Enqueue(j) PROVE executedOn'[k] # 0
  BY <1>2, <1>9 DEF Enqueue
<1> QED
  BY <1>1, <1>3, <1>4, <1>5, <1>6, <1>7, <1>8, <1>9
  DEF Next, Step, Supervise, Close, AcquireCredit, CancelWait, Register, ReadWriter, Discard,
      Refund, Acknowledged, Completed, GiveUp, OnDisconnect, vars

(* A create that nothing of a step concerns.                               *)
LEMMA FateKept ==
    ASSUME NEW k \in Creates, FateInv(k),
           UNCHANGED executedOn, \A s \in Sockets : k \in out'[s] <=> k \in out[s],
           ackCh'[k] = "accepted" => ackCh[k] = "accepted" \/ executedOn[k] # 0,
           outcome'[k] = outcome[k],
           pc'[k] = pc[k] \/ (pc[k] \in Before /\ pc'[k] \in Before)
    PROVE  FateInv(k)'
BY DEF FateInv, NotSent, Before

LEMMA StepFate ==
    ASSUME Fates, [Next]_vars, NEW k \in Creates
    PROVE  FateInv(k)'
<1>0. TypeOK /\ FateInv(k) /\ SaidInv
  BY DEF Fates, Calls
<1> USE <1>0 DEF producer, calls, gateway, ghosts, Goto, Return
<1>1. ASSUME UNCHANGED <<executedOn, out, ackCh>>, outcome'[k] = outcome[k],
             pc'[k] = pc[k] \/ (pc[k] \in Before /\ pc'[k] \in Before)
      PROVE  FateInv(k)'
  BY <1>1, FateKept
<1>2. ASSUME UNCHANGED <<executedOn, out, ackCh>>, pc'[k] \in Steps \ NotSent,
             pc[k] # "done",
             pc'[k] = "awaitResult" \/ outcome'[k] = "ok" => executedOn[k] # 0,
             pc'[k] # "done" => outcome'[k] = outcome[k]
      PROVE  FateInv(k)'
  BY <1>2 DEF FateInv
<1>3. ASSUME NEW j \in Creates, AcquireCredit(j) PROVE FateInv(k)'
  BY <1>1, <1>3 DEF AcquireCredit, Before, TypeOK
<1>4. ASSUME NEW j \in Creates, CancelWait(j) \/ Discard(j) \/ GiveUp(j) PROVE FateInv(k)'
  <2>1. UNCHANGED <<executedOn, out, ackCh>>
    BY <1>4 DEF CancelWait, Discard, GiveUp
  <2>2. CASE j = k
    <3>1. \/ pc'[k] = "done" /\ outcome'[k] = "gaveUp"
          \/ pc'[k] = "refunding" /\ outcome' = outcome
      BY <1>4, <2>2 DEF CancelWait, Discard, GiveUp, TypeOK
    <3>2. pc[k] \in {"parked", "woken", "unsent", "awaitAck", "awaitResult"}
      BY <1>4, <2>2 DEF CancelWait, Discard, GiveUp
    <3>3. outcome[k] = "none"
      BY <3>2 DEF FateInv
    <3>4. pc'[k] \in Steps \ NotSent
      BY <3>1 DEF Steps, NotSent, Before
    <3> QED BY <1>2, <2>1, <3>1, <3>2, <3>3, <3>4
  <2>3. CASE j # k
    <3>1. pc'[k] = pc[k] /\ outcome'[k] = outcome[k]
      BY <1>4, <2>3 DEF CancelWait, Discard, GiveUp, TypeOK
    <3> QED BY <1>1, <2>1, <3>1
  <2> QED BY <2>2, <2>3
<1>5. ASSUME NEW j \in Creates, Register(j) \/ ReadWriter(j) PROVE FateInv(k)'
  <2>1. UNCHANGED <<executedOn, out, ackCh, outcome>>
    BY <1>5 DEF Register, ReadWriter
  <2>2. CASE j = k
    <3>1. pc[k] \in {"credited", "registered"} /\ pc'[k] \in {"registered", "sending", "unsent"}
      BY <1>5, <2>2 DEF Register, ReadWriter, TypeOK
    <3> QED BY <2>1, <3>1 DEF FateInv, NotSent, Before
  <2>3. CASE j # k
    BY <1>1, <1>5, <2>1, <2>3 DEF Register, ReadWriter, TypeOK
  <2> QED BY <2>2, <2>3
<1>6. ASSUME NEW j \in Creates, Enqueue(j) PROVE FateInv(k)'
  <2>1. UNCHANGED <<executedOn, ackCh, outcome>>
    BY <1>6 DEF Enqueue
  <2>2. out' = out \/ out' = [out EXCEPT ![target[j]] = out[target[j]] \cup {j}]
    BY <1>6 DEF Enqueue
  <2>3. CASE j = k
    <3>1. pc[k] = "sending" /\ pc'[k] \in {"awaitAck", "unsent"}
      BY <1>6, <2>3 DEF Enqueue, TypeOK
    <3>2. executedOn[k] = 0 /\ \A s \in Sockets : k \notin out[s]
      BY <3>1 DEF FateInv, NotSent
    <3>3. \A s \in Sockets : k \in out'[s] => s = target[k]
      BY <2>2, <2>3, <3>2 DEF TypeOK
    <3> QED BY <2>1, <3>1, <3>2, <3>3 DEF FateInv, NotSent, Before
  <2>4. CASE j # k
    <3>1. pc'[k] = pc[k]
      BY <1>6, <2>4 DEF Enqueue, TypeOK
    <3>2. ASSUME NEW s \in Sockets PROVE k \in out'[s] <=> k \in out[s]
      <4>1. out'[s] = out[s] \/ out'[s] = out[s] \cup {j}
        BY <2>2 DEF TypeOK
      <4> QED BY <2>4, <4>1
    <3> QED BY <2>1, <3>1, <3>2, FateKept
  <2> QED BY <2>3, <2>4
<1>7. ASSUME NEW j \in Creates, Refund(j) PROVE FateInv(k)'
  <2>1. UNCHANGED <<executedOn, out, ackCh>>
    BY <1>7 DEF Refund
  <2>2. CASE j = k
    <3>1. pc[k] = "refunding" /\ pc'[k] = "done" /\ outcome'[k] = "unsent"
      BY <1>7, <2>2 DEF Refund, Woken, TypeOK
    <3> QED BY <1>2, <2>1, <3>1 DEF Steps, NotSent, Before
  <2>3. CASE j # k
    <3>1. /\ outcome'[k] = outcome[k]
          /\ pc'[k] = pc[k] \/ (pc[k] \in Before /\ pc'[k] \in Before)
      BY <1>7, <2>3 DEF Refund, Woken, Before, TypeOK
    <3> QED BY <1>1, <2>1, <3>1
  <2> QED BY <2>2, <2>3
<1>8. ASSUME NEW j \in Creates, Acknowledged(j) \/ Completed(j) PROVE FateInv(k)'
  <2>1. UNCHANGED <<executedOn, out, ackCh>>
    BY <1>8 DEF Acknowledged, Completed
  <2>2. CASE j = k
    <3>1. pc[k] # "done" /\ pc'[k] \in {"awaitResult", "done"}
      BY <1>8, <2>2 DEF Acknowledged, Completed, TypeOK
    <3>2. /\ pc'[k] = "awaitResult" => ackCh[k] = "accepted" /\ outcome' = outcome
          /\ outcome'[k] = "ok" => \/ ackCh[k] = "accepted" \/ pc[k] = "awaitResult"
                                   \/ outcome[k] = "ok"
      BY <1>8, <2>2 DEF Acknowledged, Completed, TypeOK
    <3>3. pc'[k] = "awaitResult" \/ outcome'[k] = "ok" => executedOn[k] # 0
      BY <3>2 DEF FateInv
    <3>4. pc'[k] \in Steps \ NotSent
      BY <3>1 DEF Steps, NotSent, Before
    <3> QED BY <1>2, <2>1, <3>1, <3>2, <3>3, <3>4
  <2>3. CASE j # k
    <3>1. pc'[k] = pc[k] /\ outcome'[k] = outcome[k]
      BY <1>8, <2>3 DEF Acknowledged, Completed, TypeOK
    <3> QED BY <1>1, <2>1, <3>1
  <2> QED BY <2>2, <2>3
<1>9. ASSUME NEW s \in Sockets, NEW j \in Creates, GatewayExecutes(s, j) PROVE FateInv(k)'
  <2>1. /\ UNCHANGED <<ackCh, outcome, pc>> /\ j \in out[s] /\ s # 0
        /\ out' = [out EXCEPT ![s] = out[s] \ {j}] /\ executedOn' = [executedOn EXCEPT ![j] = s]
    BY <1>9 DEF GatewayExecutes, Sockets
  <2>2. CASE j = k
    <3>1. executedOn'[k] # 0 /\ \A t \in Sockets : k \notin out'[t]
      BY <2>1, <2>2 DEF FateInv, TypeOK
    <3>2. pc[k] \notin NotSent
      BY <2>1, <2>2 DEF FateInv
    <3> QED BY <2>1, <3>1, <3>2 DEF FateInv
  <2>3. CASE j # k
    <3>1. executedOn'[k] = executedOn[k] /\ \A t \in Sockets : k \in out'[t] <=> k \in out[t]
      BY <2>1, <2>3 DEF TypeOK
    <3> QED BY <2>1, <3>1 DEF FateInv
  <2> QED BY <2>2, <2>3
<1>10. CASE Deliver
  <2>1. PICK frame \in Frame : /\ frame = Head(frames)
                               /\ \/ frame[1] = "credits" /\ OnCredits(frame[2])
                                  \/ frame[1] \in {"accepted", "rejected"}
                                     /\ OnResult(frame[1], frame[2])
                                  \/ frame[1] = "completed" /\ OnCompleted(frame[2])
    BY <1>10, FramesRead DEF Deliver, TypeOK
  <2>2. UNCHANGED <<executedOn, out, outcome>>
    BY <1>10 DEF Deliver
  <2>3. CASE frame[1] = "credits" /\ OnCredits(frame[2])
    <3>1. pc'[k] = pc[k] \/ (pc[k] \in Before /\ pc'[k] \in Before)
      BY <2>3 DEF OnCredits, Woken, Before
    <3> QED BY <1>1, <2>2, <2>3, <3>1 DEF OnCredits
  <2>4. CASE frame[1] \in {"accepted", "rejected"} /\ OnResult(frame[1], frame[2])
    <3>1. ackCh'[k] = ackCh[k] \/ (ackCh'[k] = frame[1] /\ frame[2] = k)
      BY <2>4 DEF OnResult, TypeOK
    <3>2. frame[1] = "accepted" /\ frame[2] = k => executedOn[k] # 0
      <4>1. frame[1] = "accepted" /\ frame[2] = k => frame = <<"accepted", k>>
        BY DEF Frame
      <4>2. frame = frames[1] /\ 1 \in 1..Len(frames)
        BY <1>10, <2>1, FramesRead DEF Deliver, TypeOK
      <4> QED BY <4>1, <4>2 DEF SaidInv
    <3> QED BY <2>2, <2>4, <3>1, <3>2, FateKept DEF OnResult
  <2>5. CASE frame[1] = "completed" /\ OnCompleted(frame[2])
    BY <1>1, <2>2, <2>5 DEF OnCompleted
  <2> QED BY <2>1, <2>3, <2>4, <2>5
<1>11. CASE OnDisconnect
  <2>1. UNCHANGED <<executedOn, out, outcome, pc>> /\ (ackCh'[k] = "accepted" => ackCh[k] = "accepted")
    BY <1>11 DEF OnDisconnect
  <2> QED BY <2>1, FateKept
<1>12. ASSUME UNCHANGED <<producer, calls, out, executedOn>> PROVE FateInv(k)'
  BY <1>1, <1>12
<1> QED
  BY <1>3, <1>4, <1>5, <1>6, <1>7, <1>8, <1>9, <1>10, <1>11, <1>12
  DEF Next, Step, Supervise, Close, Break, Connect, StopPumping, GatewayCompletes, vars

LEMMA StepFates == Fates /\ [Next]_vars => Fates'
BY StepCalls, StepSaid, StepFate DEF Fates

(* What a step tells the caller of k.                                      *)
LEMMA Telling ==
    ASSUME Fates, NEW k \in Creates, NEW result \in Outcomes \ {"none"},
           outcome' = [outcome EXCEPT ![k] = result], UNCHANGED executedOn, pc[k] # "done",
           result = "ok" => executedOn[k] # 0
    PROVE  Contract!Next
<1>1. outcome \in [Creates -> Outcomes] /\ outcome[k] = "none"
  BY DEF Fates, FateInv, Calls, TypeOK
<1> DEFINE told == IF result = "ok" THEN "ok" ELSE "error"
<1>2. Told' = [Told EXCEPT ![k] = told]
  BY <1>1 DEF Told
<1>3. Told[k] = "none" /\ told \in {"ok", "error"} /\ (told = "ok" => executedOn[k] # 0)
  BY <1>1 DEF Told
<1> HIDE DEF told
<1>4. Contract!Answer(k, told)
  BY <1>2, <1>3 DEF Contract!Answer
<1> QED BY <1>3, <1>4 DEF Contract!Next

LEMMA StepContract == Fates /\ [Next]_vars => [Contract!Next]_<<Told, executedOn>>
<1> SUFFICES ASSUME Fates, [Next]_vars PROVE Contract!Next \/ UNCHANGED <<Told, executedOn>>
  OBVIOUS
<1> USE DEF gateway, calls, Goto, Return
<1>1. UNCHANGED <<outcome, executedOn>> => UNCHANGED <<Told, executedOn>>
  BY DEF Told
<1>2. ASSUME NEW s \in Sockets, NEW k \in Creates, GatewayExecutes(s, k) PROVE Contract!Next
  <2>1. executedOn' = [executedOn EXCEPT ![k] = s] /\ outcome' = outcome /\ k \in out[s]
    BY <1>2 DEF GatewayExecutes
  <2>2. executedOn[k] = 0
    BY <2>1 DEF Fates, FateInv
  <2>3. Contract!Execute(k)
    BY <2>1, <2>2 DEF Contract!Execute, Told
  <2> QED BY <2>3 DEF Contract!Next
<1>3. ASSUME NEW k \in Creates, CancelWait(k) \/ GiveUp(k) \/ Refund(k)
      PROVE  Contract!Next
  <2>1. PICK result \in {"gaveUp", "unsent"} : outcome' = [outcome EXCEPT ![k] = result]
    BY <1>3 DEF CancelWait, GiveUp, Refund
  <2>2. UNCHANGED executedOn /\ pc[k] # "done"
    BY <1>3 DEF CancelWait, GiveUp, Refund
  <2> QED BY <2>1, <2>2, Telling DEF Outcomes
<1>4. ASSUME NEW k \in Creates, Acknowledged(k) \/ Completed(k)
      PROVE  Contract!Next \/ UNCHANGED <<Told, executedOn>>
  <2>1. UNCHANGED executedOn /\ pc[k] # "done"
    BY <1>4 DEF Acknowledged, Completed
  <2>2. CASE UNCHANGED outcome
    BY <1>1, <2>1, <2>2
  <2>3. CASE outcome' = [outcome EXCEPT ![k] = "ok"]
    <3>1. ackCh[k] = "accepted" \/ pc[k] = "awaitResult" \/ outcome' = outcome
      <4>1. CASE Completed(k)
        BY <4>1 DEF Completed
      <4>2. CASE Acknowledged(k) /\ ackCh[k] \in {"rejected", "closed"}
        <5>1. PICK result \in {"rejected", "linkClosed"} : outcome' = [outcome EXCEPT ![k] = result]
          BY <4>2 DEF Acknowledged
        <5> QED BY <2>3, <5>1 DEF Fates, Calls, TypeOK
      <4> QED BY <1>4, <4>1, <4>2 DEF Acknowledged
    <3>2. executedOn[k] # 0 \/ outcome' = outcome
      BY <3>1 DEF Fates, FateInv
    <3> QED BY <1>1, <2>1, <2>3, <3>2, Telling DEF Outcomes
  <2>4. CASE \E result \in {"rejected", "linkClosed"} : outcome' = [outcome EXCEPT ![k] = result]
    BY <2>1, <2>4, Telling DEF Outcomes
  <2> QED BY <1>4, <2>2, <2>3, <2>4 DEF Acknowledged, Completed
<1>5. ASSUME NEW k \in Creates,
             AcquireCredit(k) \/ Register(k) \/ ReadWriter(k) \/ Enqueue(k) \/ Discard(k)
             \/ GatewayCompletes(k)
      PROVE  UNCHANGED <<outcome, executedOn>>
  BY <1>5 DEF AcquireCredit, Register, ReadWriter, Enqueue, Discard, GatewayCompletes
<1>6. CASE Deliver \/ OnDisconnect \/ StopPumping \/ Break \/ \E e \in Endpoints : Connect(e)
  BY <1>1, <1>6 DEF Deliver, OnDisconnect, StopPumping, Break, Connect
<1> QED
  BY <1>1, <1>2, <1>3, <1>4, <1>5, <1>6 DEF Next, Step, Supervise, Close, vars

(* The producer implements the contract of a create: whatever is lost,     *)
(* fails over or times out, a create reaches the gateway on one socket at  *)
(* most, and a caller is told "ok" only of one that reached it.            *)
THEOREM ProducerKeepsContract == Spec => KeepsContract
<1>1. Init => Contract!Init
  BY DEF Init, Contract!Init, Told
<1> QED BY <1>1, InitFates, StepFates, StepContract, PTL DEF Spec, KeepsContract, Contract!Spec

(* What follows for whoever creates: once executed, a create stays with    *)
(* its way, once told, its caller is told nothing else, and "ok" is true.  *)
ContractTyped ==
    /\ Told \in [Creates -> {"none", "ok", "error"}]
    /\ executedOn \in [Creates -> Sockets \cup {0}]

THEOREM CreatesHappenOnce == Spec => []Contract!OkIsTrue /\ Contract!NothingTwice
<1>0. 0 \notin Sockets
  BY DEF Sockets
<1>1. Contract!Init => ContractTyped /\ Contract!OkIsTrue
  BY DEF Contract!Init, ContractTyped, Contract!OkIsTrue
<1>2. ContractTyped /\ Contract!OkIsTrue /\ [Contract!Next]_<<Told, executedOn>> =>
          ContractTyped' /\ Contract!OkIsTrue' /\ [Contract!Settled]_<<Told, executedOn>>
  <2> SUFFICES ASSUME ContractTyped, Contract!OkIsTrue, [Contract!Next]_<<Told, executedOn>>
               PROVE  ContractTyped' /\ Contract!OkIsTrue' /\ [Contract!Settled]_<<Told, executedOn>>
    OBVIOUS
  <2> USE DEF ContractTyped, Contract!OkIsTrue, Contract!Settled
  <2>1. ASSUME NEW k \in Creates, Contract!Execute(k)
        PROVE  ContractTyped' /\ Contract!OkIsTrue' /\ Contract!Settled
    BY <1>0, <2>1 DEF Contract!Execute
  <2>2. ASSUME NEW k \in Creates, NEW told \in {"ok", "error"}, Contract!Answer(k, told)
        PROVE  ContractTyped' /\ Contract!OkIsTrue' /\ Contract!Settled
    BY <2>2 DEF Contract!Answer
  <2>3. CASE UNCHANGED <<Told, executedOn>>
    BY <2>3
  <2> QED BY <2>1, <2>2, <2>3 DEF Contract!Next
<1>3. Contract!Spec => []Contract!OkIsTrue /\ Contract!NothingTwice
  BY <1>1, <1>2, PTL DEF Contract!Spec, Contract!NothingTwice
<1> QED BY <1>3, ProducerKeepsContract, PTL DEF KeepsContract
=============================================================================
