------------------------- MODULE FalconWorkerProofs -------------------------
(***************************************************************************)
(* Proofs about FalconWorker.  With its hooks, its run loop and its        *)
(* gateway the worker still takes the steps of the bare link or stutters   *)
(* on them, so what is proved of the link holds of the worker.             *)
(*                                                                         *)
(* The conservation of the delivery credits is not inductive: that a       *)
(* socket brings one window only needs the life of its subscription, and   *)
(* that no returned credit misses the gateway needs a subscription to be   *)
(* on the socket the senders see (SocketInv).                              *)
(***************************************************************************)
EXTENDS FalconWorker, FalconLinkProofs, FiniteSetTheorems, SequenceTheorems

(* Whatever the worker does is a step of the link or none of it.           *)
LEMMA WorkerStepsTheLink == [Next]_vars => [LinkNext]_linkVars
<1> SUFFICES ASSUME [Next]_vars PROVE [LinkNext]_linkVars
  OBVIOUS
<1>1. CASE Loop
  BY <1>1 DEF Loop, Subscribed, SubscribeFailed, Top, NoJob, Drained, Close, Return, LinkNext
<1>2. CASE Cancel \/ GatewayReceives \/ Break
  BY <1>2 DEF Cancel, GatewayReceives, Break, LinkNext
<1>3. CASE Supervise
  BY <1>3 DEF Supervise, PublishSocket, OnConnect, StopPumping, OnJob, LinkNext
<1>4. ASSUME NEW j \in Jobs, Take(j) \/ Skip(j) \/ Handle(j) \/ GatewayPushes(j)
      PROVE  UNCHANGED linkVars
  BY <1>4 DEF Take, Skip, Handle, SendAck, Replenish, GatewayPushes
<1>5. CASE UNCHANGED vars
  BY <1>5 DEF vars
<1> QED  BY <1>1, <1>2, <1>3, <1>4, <1>5 DEF Next

(* The worker implements the link: composing it with the run loop and the  *)
(* hooks of streamworker.go adds no way to misuse it.                      *)
THEOREM WorkerImplementsLink == Spec => LinkSpec
<1>1. Init => LinkInit
  BY DEF Init
<1> QED  BY <1>1, WorkerStepsTheLink, PTL DEF Spec, LinkSpec

(* A worker that fails over keeps one socket, and one whose link was       *)
(* closed leaves none open, for any number of connections, jobs, credits.  *)
THEOREM WorkerSocketsAreSafe == Spec => []SocketsSafe
BY WorkerImplementsLink, LinkIsSafe, PTL
-----------------------------------------------------------------------------
(* Counting frames and jobs.                                               *)

Marks(frames, kind) == {i \in 1..Len(frames) : frames[i][1] = kind}
Sent(kind) == Cardinality(Marks(out, kind))

LEMMA MarksFinite ==
    ASSUME NEW frames \in Seq(Frame), NEW kind
    PROVE  /\ IsFiniteSet(Marks(frames, kind)) /\ Cardinality(Marks(frames, kind)) \in Nat
           /\ frames = <<>> => Cardinality(Marks(frames, kind)) = 0
<1>1. IsFiniteSet(1..Len(frames)) /\ Marks(frames, kind) \in SUBSET (1..Len(frames))
  BY FS_Interval DEF Marks
<1>2. frames = <<>> => Marks(frames, kind) = {}
  BY DEF Marks
<1> QED  BY <1>1, <1>2, FS_Subset, FS_CardinalityType, FS_EmptySet

(* A frame that is queued adds one of its kind ...                         *)
LEMMA MarksAppend ==
    ASSUME NEW frames \in Seq(Frame), NEW frame \in Frame, NEW kind
    PROVE  Cardinality(Marks(Append(frames, frame), kind)) =
               Cardinality(Marks(frames, kind)) + IF frame[1] = kind THEN 1 ELSE 0
<1> DEFINE more == Append(frames, frame)
           last == Len(frames) + 1
<1>1. /\ Len(more) = last /\ last \in Nat /\ more[last] = frame
      /\ \A i \in 1..Len(frames) : more[i] = frames[i]
  BY AppendProperties
<1>2. Marks(more, kind) = IF frame[1] = kind THEN Marks(frames, kind) \cup {last}
                                             ELSE Marks(frames, kind)
  BY <1>1 DEF Marks
<1>3. last \notin Marks(frames, kind)
  BY DEF Marks
<1>4. Cardinality(Marks(frames, kind) \cup {last}) = Cardinality(Marks(frames, kind)) + 1
  BY <1>3, MarksFinite, FS_AddElement
<1>5. Cardinality(Marks(frames, kind)) \in Nat
  BY MarksFinite
<1> HIDE DEF last
<1> QED  BY <1>2, <1>4, <1>5

(* ... and one that is read takes it away.                                 *)
LEMMA MarksTail ==
    ASSUME NEW frames \in Seq(Frame), frames # <<>>, NEW kind
    PROVE  Cardinality(Marks(Tail(frames), kind)) =
               Cardinality(Marks(frames, kind)) - IF Head(frames)[1] = kind THEN 1 ELSE 0
<1> DEFINE rest == Tail(frames)
           later == Marks(frames, kind) \ {1}
           shift == [i \in Marks(rest, kind) |-> i + 1]
<1>1. /\ rest \in Seq(Frame) /\ Len(rest) = Len(frames) - 1 /\ Len(frames) \in Nat \ {0}
      /\ \A i \in 1..Len(rest) : rest[i] = frames[i + 1]
      /\ Head(frames) = frames[1]
  BY HeadTailProperties
<1>2. shift \in Bijection(Marks(rest, kind), later)
  <2>1. \A i \in Marks(rest, kind) : i \in Nat /\ i + 1 \in later
    BY <1>1 DEF Marks
  <2>2. \A i \in later : i - 1 \in Marks(rest, kind) /\ i \in Nat /\ (i - 1) + 1 = i
    BY <1>1 DEF Marks
  <2>3. shift \in Injection(Marks(rest, kind), later)
    BY <2>1 DEF Injection, IsInjective
  <2>4. shift \in Surjection(Marks(rest, kind), later)
    BY <2>1, <2>2 DEF Surjection
  <2> QED  BY <2>3, <2>4 DEF Bijection
<1>3. Cardinality(later) = Cardinality(Marks(rest, kind))
  BY <1>1, <1>2, MarksFinite, FS_Bijection DEF ExistsBijection
<1>4. 1 \in Marks(frames, kind) <=> Head(frames)[1] = kind
  BY <1>1 DEF Marks
<1>5. Cardinality(later) =
        IF 1 \in Marks(frames, kind) THEN Cardinality(Marks(frames, kind)) - 1
                                     ELSE Cardinality(Marks(frames, kind))
  BY MarksFinite, FS_RemoveElement
<1> HIDE DEF later
<1> QED  BY <1>3, <1>4, <1>5, MarksFinite

LEMMA AtFinite ==
    ASSUME NEW places
    PROVE  /\ IsFiniteSet(At(places)) /\ Cardinality(At(places)) \in Nat
           /\ IsFiniteSet(At(places)') /\ Cardinality(At(places)') \in Nat
BY WorkerAssumption, FS_Subset, FS_CardinalityType DEF At

(* A job that moves is counted where it is.                                *)
LEMMA MoveCount ==
    ASSUME TypeOK, NEW j \in Jobs, NEW to, Move(j, to), NEW places
    PROVE  Cardinality(At(places)') =
               Cardinality(At(places)) + (IF to \in places THEN 1 ELSE 0)
                                       - (IF place[j] \in places THEN 1 ELSE 0)
<1> DEFINE others == At(places) \ {j}
<1>1. j \notin others /\ IsFiniteSet(others)
  BY AtFinite, FS_Subset
<1>2. At(places) = IF place[j] \in places THEN others \cup {j} ELSE others
  BY DEF At
<1>3. At(places)' = IF to \in places THEN others \cup {j} ELSE others
  BY DEF At, Move, TypeOK
<1>4. Cardinality(others \cup {j}) = Cardinality(others) + 1 /\ Cardinality(others) \in Nat
  BY <1>1, FS_AddElement, FS_CardinalityType
<1> HIDE DEF others
<1> QED  BY <1>2, <1>3, <1>4
-----------------------------------------------------------------------------
(* Types.                                                                  *)

LEMMA InitType == Init => TypeOK
<1> SUFFICES ASSUME Init PROVE TypeOK
  OBVIOUS
<1>1. LinkTypeOK /\ place \in [Jobs -> Places]
  BY LinkInvInit DEF Init, LinkInv, Places
<1>2. out = <<>> /\ out \in Seq(Frame) /\ gwCredits = -1 /\ loop \in Loops /\ acked \subseteq Jobs
  BY DEF Init, Loops
<1>3. {cancelled, subscribing, broken} \subseteq BOOLEAN
  BY DEF Init
<1> QED  BY <1>1, <1>2, <1>3 DEF TypeOK

LEMMA MoveType ==
    ASSUME TypeOK, NEW j \in Jobs, NEW to \in Places, Move(j, to)
    PROVE  place' \in [Jobs -> Places]
BY DEF TypeOK, Move

LEMMA SocketLostType ==
    ASSUME TypeOK, SocketLost
    PROVE  /\ place' \in [Jobs -> Places] /\ gwCredits' = -1
           /\ out' = <<>> /\ out' \in Seq(Frame)
BY DEF TypeOK, SocketLost, Places

(* A frame is queued on a live writer, or comes to nothing.                *)
LEMMA QueueType ==
    ASSUME TypeOK, LinkInv, NEW frame \in Frame, Queue(frame), alive' = alive, conn' = conn
    PROVE  out' \in Seq(Frame) /\ (out' # <<>> => out # <<>> \/ conn \in alive)
<1>1. CASE writer # 0 /\ writer \in alive
  BY <1>1, AppendProperties DEF Queue, TypeOK, LinkInv, OneSocket
<1>2. CASE ~(writer # 0 /\ writer \in alive)
  BY <1>2, Zenon DEF Queue, TypeOK
<1> QED  BY <1>1, <1>2

LEMMA Frames ==
    /\ <<"subscribe">> \in Frame
    /\ \A j \in Jobs : <<"credit", j>> \in Frame /\ <<"ack", j>> \in Frame
    /\ \A frame \in Frame : frame[1] = "ack" => frame[2] \in Jobs
BY DEF Frame

(* Steps of the supervisor that leave the socket and the worker alone.     *)
Quiet ==
    /\ (\E e \in Endpoints : DialFails(e)) \/ SuperviseEnds \/ Detach \/ Disconnect
    /\ Idle

(* Steps of the run loop that touch neither jobs nor the link.             *)
LoopOnly == Subscribed \/ SubscribeFailed \/ Top \/ NoJob \/ Drained \/ Return \/ Cancel

LEMMA NextCases ==
    ASSUME [Next]_vars
    PROVE  \/ LoopOnly \/ Close \/ Quiet
           \/ (\E e \in Endpoints : DialSucceeds(e)) /\ Idle
           \/ PublishSocket \/ OnConnect \/ StopPumping \/ Break \/ GatewayReceives
           \/ \E j \in Jobs : \/ Take(j) \/ Skip(j) \/ SendAck(j) \/ Replenish(j)
                              \/ OnJob(j) \/ GatewayPushes(j)
           \/ UNCHANGED vars
BY Zenon DEF Next, Loop, LoopOnly, Supervise, Handle, Quiet

LEMMA StepType == TypeOK /\ LinkInv /\ [Next]_vars => TypeOK'
<1> SUFFICES ASSUME TypeOK, LinkInv, [Next]_vars PROVE TypeOK'
  OBVIOUS
<1>0. LinkTypeOK'
  BY WorkerStepsTheLink, LinkInvStep DEF LinkInv
<1> SUFFICES ASSUME LinkTypeOK' PROVE TypeOK'
  BY <1>0
<1> USE DEF TypeOK, worker, gateway, Idle
<1>1. CASE LoopOnly
  BY <1>1 DEF LoopOnly, Subscribed, SubscribeFailed, Top, NoJob, Drained, Return, Cancel,
              linkVars, Loops
<1>2. CASE Close
  <2>1. CASE CloseCancels /\ UNCHANGED <<worker, place, out, gateway>>
    BY <1>2, <2>1 DEF Close, CloseCancels
  <2>2. CASE CloseDetaches /\ writer # 0 /\ SocketLost
    BY <1>2, <2>2, SocketLostType DEF Close, SocketLost
  <2>3. CASE CloseDetaches /\ writer = 0 /\ UNCHANGED <<worker, place, out, gateway>>
    <3>1. alive' = alive /\ conn' = conn
      BY <2>3 DEF CloseDetaches, LinkTypeOK, Sockets
    <3> QED  BY <1>2, <2>3, <3>1 DEF Close
  <2> QED  BY <1>2, <2>1, <2>2, <2>3 DEF Close
<1>3. CASE Quiet
  BY <1>3 DEF Quiet, DialFails, SuperviseEnds, Detach, Disconnect
<1>4. CASE (\E e \in Endpoints : DialSucceeds(e)) /\ Idle
  <2>1. conn \in alive => conn' \in alive'
    BY <1>4 DEF DialSucceeds
  <2> QED  BY <1>4, <2>1
<1>5. CASE PublishSocket
  BY <1>5 DEF PublishSocket, Publish
<1>6. CASE OnConnect
  BY <1>6, Frames, AppendProperties DEF OnConnect, linkVars
<1>7. CASE StopPumping
  BY <1>7, SocketLostType DEF StopPumping, SocketLost
<1>8. CASE Break
  BY <1>8, SocketLostType DEF Break, SocketLost
<1>9. CASE GatewayReceives
  <2>1. out # <<>> /\ Head(out) \in Frame /\ out' = Tail(out) /\ out' \in Seq(Frame)
    BY <1>9, HeadTailProperties DEF GatewayReceives
  <2>2. gwCredits' \in Int /\ gwCredits' >= -1 /\ acked' \subseteq Jobs
    BY <1>9, <2>1, Frames, WorkerAssumption DEF GatewayReceives
  <2> QED  BY <1>9, <2>1, <2>2 DEF GatewayReceives, linkVars
<1>10. ASSUME NEW j \in Jobs, Take(j) \/ OnJob(j) \/ GatewayPushes(j) PROVE TypeOK'
  <2>1. \E to \in Places : Move(j, to)
    BY <1>10 DEF Take, OnJob, GatewayPushes, Places
  <2>2. place' \in [Jobs -> Places]
    BY <2>1, MoveType
  <2>3. gwCredits' \in Int /\ gwCredits' >= -1 /\ loop' \in Loops
    BY <1>10 DEF Take, OnJob, GatewayPushes, Loops
  <2> QED  BY <1>10, <2>2, <2>3 DEF Take, OnJob, GatewayPushes, linkVars
<1>11. ASSUME NEW j \in Jobs, Skip(j) \/ SendAck(j) \/ Replenish(j) PROVE TypeOK'
  <2>1. \E to \in Places : Move(j, to)
    BY <1>11 DEF Skip, SendAck, Replenish, Places
  <2>2. place' \in [Jobs -> Places]
    BY <2>1, MoveType
  <2>3. \E frame \in Frame : Queue(frame)
    BY <1>11, Frames DEF Skip, SendAck, Replenish
  <2>4. UNCHANGED <<linkVars, cancelled, subscribing, gateway, broken>> /\ loop' \in Loops
    BY <1>11 DEF Skip, SendAck, Replenish, Loops
  <2>5. out' \in Seq(Frame) /\ (out' # <<>> => out # <<>> \/ conn \in alive)
    BY <2>3, <2>4, QueueType DEF linkVars
  <2> QED  BY <2>2, <2>4, <2>5 DEF linkVars
<1>12. CASE UNCHANGED vars
  BY <1>12 DEF vars, linkVars
<1> QED  BY NextCases, <1>1, <1>2, <1>3, <1>4, <1>5, <1>6, <1>7, <1>8, <1>9, <1>10, <1>11, <1>12
-----------------------------------------------------------------------------
(* The life of a subscription: announced by the publication of its socket, *)
(* asked for once, and granted and used while that socket is the writer.   *)
SocketInv ==
    /\ subscribing => sup = "pumping" /\ gwCredits = -1 /\ Sent("subscribe") = 0
    /\ gwCredits >= 0 \/ out # <<>> => writer = conn /\ sup = "pumping"
    /\ sup = "pumping" /\ conn \in alive => writer = conn
    /\ Sent("subscribe") \in {0, 1}

(* The window of the present socket is still to come.                      *)
ToCome == sup = "dialed" \/ subscribing \/ Sent("subscribe") = 1

Work == At({"pushed", "buffered", "handling", "replenishing"})
Slots == At({"pushed", "buffered", "handling", "replenishing", "dropped"})
Granted == IF gwCredits = -1 THEN 0 ELSE gwCredits

(* What the sockets so far have granted.                                   *)
Budget == Credits * conn

(* All jobs the worker holds, or may come to hold, were paid for by the    *)
(* windows of the sockets so far.                                          *)
WindowInv ==
    Cardinality(Work) + Granted + Sent("credit") + (IF ToCome THEN Credits ELSE 0)
        <= Budget

(* NoDeliveryCreditLost, counted as above.                                 *)
CreditInv == gwCredits >= 0 => gwCredits + Sent("credit") + Cardinality(Slots) >= Credits

Inv == TypeOK /\ LinkInv /\ SocketInv /\ WindowInv /\ CreditInv

LEMMA CreditInvIsNoneLost == TypeOK => (CreditInv <=> NoDeliveryCreditLost)
<1> SUFFICES ASSUME TypeOK PROVE CreditInv <=> NoDeliveryCreditLost
  OBVIOUS
<1>1. {i \in DOMAIN out : out[i][1] = "credit"} = Marks(out, "credit")
  BY DEF Marks, TypeOK
<1> QED  BY <1>1, Zenon DEF CreditInv, NoDeliveryCreditLost, Sent, Slots

(* The counts are numbers.                                                 *)
LEMMA Counts ==
    ASSUME TypeOK, TypeOK'
    PROVE  /\ Cardinality(Work) \in Nat /\ Cardinality(Work') \in Nat
           /\ Cardinality(Slots) \in Nat /\ Cardinality(Slots') \in Nat
           /\ Sent("credit") \in Nat /\ Sent("credit")' \in Nat
           /\ out = <<>> => Sent("credit") = 0 /\ Sent("subscribe") = 0
           /\ out' = <<>> => Sent("credit")' = 0 /\ Sent("subscribe")' = 0
           /\ Granted \in Nat /\ Granted' \in Nat
           /\ Credits \in Nat /\ conn \in Nat /\ Budget \in Nat
<1>1. out \in Seq(Frame) /\ out' \in Seq(Frame)
  BY DEF TypeOK
<1>2. Granted \in Nat /\ Granted' \in Nat
  BY DEF Granted, TypeOK
<1>3. Credits \in Nat /\ conn \in Nat
  BY WorkerAssumption, LinkAssumption DEF TypeOK, LinkTypeOK
<1> QED  BY <1>1, <1>2, <1>3, AtFinite, MarksFinite DEF Work, Slots, Sent, Budget

LEMMA QueueCount ==
    ASSUME TypeOK, LinkInv, SocketInv, NEW frame \in Frame, frame[1] # "subscribe", Queue(frame)
    PROVE  /\ Sent("subscribe")' = Sent("subscribe")
           /\ out' # <<>> => writer = conn /\ sup = "pumping"
           /\ \/ out' = out /\ gwCredits = -1
              \/ Sent("credit")' = Sent("credit") + IF frame[1] = "credit" THEN 1 ELSE 0
           /\ Sent("credit")' <= Sent("credit") + IF frame[1] = "credit" THEN 1 ELSE 0
<1> USE DEF TypeOK
<1>1. CASE writer # 0 /\ writer \in alive
  <2>1. out' = Append(out, frame)
    BY <1>1 DEF Queue
  <2>2. /\ Sent("subscribe")' = Sent("subscribe")
        /\ Sent("credit")' = Sent("credit") + IF frame[1] = "credit" THEN 1 ELSE 0
        /\ Sent("credit") \in Nat
    BY <2>1, MarksAppend, MarksFinite DEF Sent
  <2>3. writer = conn /\ sup = "pumping"
    BY <1>1 DEF LinkInv, OneSocket, NoneLeftOpen, SocketInv
  <2> QED  BY <2>2, <2>3
<1>2. CASE ~(writer # 0 /\ writer \in alive)
  <2>1. out' = out
    BY <1>2, Zenon DEF Queue
  <2>2. gwCredits = -1
    BY <1>2, LinkAssumption DEF SocketInv, LinkTypeOK, Sockets
  <2>3. Sent("subscribe")' = Sent("subscribe") /\ Sent("credit")' = Sent("credit")
        /\ Sent("credit") \in Nat
    BY <2>1, MarksFinite DEF Sent
  <2> QED  BY <2>1, <2>2, <2>3 DEF SocketInv
<1> QED  BY <1>1, <1>2
Goal == SocketInv' /\ WindowInv' /\ CreditInv'

(* A step that leaves jobs and frames alone.                               *)
LEMMA CalmStep ==
    ASSUME Inv, TypeOK', UNCHANGED <<conn, subscribing, place, out, gwCredits>>,
           (sup' = "dialed") = (sup = "dialed"),
           gwCredits >= 0 \/ out # <<>> \/ subscribing => sup' = sup /\ writer' = writer,
           sup' = "pumping" => sup = "pumping" /\ (conn \in alive' => conn \in alive /\ writer' = writer)
    PROVE  Goal
<1>1. /\ Sent("subscribe")' = Sent("subscribe") /\ Sent("credit")' = Sent("credit")
      /\ Work' = Work /\ Slots' = Slots /\ Granted' = Granted /\ ToCome' = ToCome
  BY DEF Sent, Work, Slots, At, Granted, ToCome
<1>2. SocketInv'
  BY <1>1 DEF Inv, SocketInv
<1>3. WindowInv'
  BY <1>1 DEF Inv, WindowInv, Budget
<1>4. CreditInv'
  BY <1>1 DEF Inv, CreditInv
<1> QED  BY <1>2, <1>3, <1>4 DEF Goal

(* The socket is lost with all that is on it.                              *)
LEMMA LostStep ==
    ASSUME Inv, TypeOK', SocketLost, UNCHANGED <<conn, subscribing>>, conn \notin alive',
           sup' # "dialed", subscribing => sup' = "pumping"
    PROVE  Goal
<1>1. out' = <<>> /\ gwCredits' = -1 /\ Work' \in SUBSET Work /\ IsFiniteSet(Work)
  BY AtFinite DEF SocketLost, Work, At
<1>2. Sent("subscribe")' = 0 /\ Sent("credit")' = 0 /\ Granted' = 0 /\ (ToCome' => ToCome)
  BY <1>1, Counts DEF Inv, Granted, ToCome
<1>3. Cardinality(Work') <= Cardinality(Work)
  BY <1>1, FS_Subset
<1>4. WindowInv'
  <2> HIDE DEF Inv
  <2>1. /\ Cardinality(Work) \in Nat /\ Cardinality(Work') \in Nat /\ Sent("credit") \in Nat
        /\ Granted \in Nat /\ Credits \in Nat /\ Budget \in Nat /\ WindowInv
    BY Counts DEF Inv
  <2>2. Budget' = Budget
    BY DEF Budget
  <2> QED  BY <1>2, <1>3, <2>1, <2>2 DEF WindowInv
<1> QED  BY <1>1, <1>2, <1>4 DEF Goal, SocketInv, CreditInv

(* A job moves, a credit is spent or a frame is queued.                    *)
LEMMA JobStep ==
    ASSUME Inv, TypeOK', UNCHANGED <<linkVars, subscribing>>,
           Sent("subscribe")' = Sent("subscribe"),
           out' # <<>> => out # <<>> \/ (writer = conn /\ sup = "pumping"),
           gwCredits' >= 0 => gwCredits >= 0, gwCredits = -1 => gwCredits' = -1,
           Cardinality(Work') + Granted' + Sent("credit")' <=
               Cardinality(Work) + Granted + Sent("credit"),
           gwCredits' >= 0 => gwCredits' + Sent("credit")' + Cardinality(Slots') >=
                              gwCredits + Sent("credit") + Cardinality(Slots)
    PROVE  Goal
<1>1. SocketInv'
  BY DEF Inv, SocketInv, linkVars
<1>2. ToCome' = ToCome /\ Budget' = Budget
  BY DEF ToCome, linkVars, Budget
<1>3. WindowInv'
  <2>1. /\ Cardinality(Work) \in Nat /\ Cardinality(Work') \in Nat /\ Sent("credit") \in Nat
        /\ Sent("credit")' \in Nat /\ Granted \in Nat /\ Granted' \in Nat /\ Credits \in Nat
        /\ Budget \in Nat /\ WindowInv
    BY Counts DEF Inv
  <2> QED  BY <1>2, <2>1 DEF WindowInv
<1>4. CreditInv'
  <2>1. /\ Cardinality(Slots) \in Nat /\ Cardinality(Slots') \in Nat /\ Sent("credit") \in Nat
        /\ Sent("credit")' \in Nat /\ gwCredits \in Int /\ gwCredits' \in Int /\ Credits \in Nat
        /\ CreditInv
    BY Counts DEF Inv, TypeOK
  <2> QED  BY <2>1 DEF CreditInv
<1> QED  BY <1>1, <1>3, <1>4 DEF Goal
(* Every step keeps the account of the credits.                            *)
LEMMA StepCredits == Inv /\ [Next]_vars => Goal
<1> SUFFICES ASSUME Inv, [Next]_vars PROVE Goal
  OBVIOUS
<1>0. TypeOK /\ LinkInv /\ TypeOK' /\ LinkInv'
  BY StepType, WorkerStepsTheLink, LinkInvStep DEF Inv
<1> DEFINE InWork(j) == place[j] \in {"pushed", "buffered", "handling", "replenishing"}
           Numbers == /\ Cardinality(Work) \in Nat /\ Cardinality(Slots) \in Nat
                      /\ Sent("credit") \in Nat /\ Sent("credit")' \in Nat
                      /\ Granted \in Nat /\ gwCredits \in Int /\ gwCredits >= -1
<1>1. Numbers
  BY <1>0, Counts DEF TypeOK
<1>2. CASE LoopOnly \/ Quiet \/ UNCHANGED vars
  <2>1. UNCHANGED <<conn, subscribing, place, out, gwCredits>>
    BY <1>2 DEF LoopOnly, Subscribed, SubscribeFailed, Top, NoJob, Drained, Return, Cancel, Quiet,
                DialFails, SuperviseEnds, Detach, Disconnect, Idle, gateway, linkVars, vars
  <2>2. /\ (sup' = "dialed") = (sup = "dialed")
        /\ sup \in {"dialed", "pumping"} => sup' = sup /\ writer' = writer /\ alive' = alive
        /\ sup' = "pumping" => sup = "pumping"
    BY <1>2 DEF LoopOnly, Subscribed, SubscribeFailed, Top, NoJob, Drained, Return, Cancel, Quiet,
                DialFails, SuperviseEnds, Detach, Disconnect, linkVars, vars
  <2> QED  BY <1>0, <2>1, <2>2, CalmStep DEF Inv, SocketInv
<1>3. CASE Close
  <2>1. CASE CloseCancels /\ UNCHANGED <<worker, place, out, gateway>>
    BY <1>0, <1>3, <2>1, CalmStep DEF Close, CloseCancels, gateway
  <2>2. CASE CloseDetaches /\ writer # 0 /\ SocketLost
    <3>1. conn \notin alive' /\ conn' = conn /\ sup' = sup /\ sup # "dialed"
      BY <1>0, <2>2 DEF CloseDetaches, LinkInv, OneSocket
    <3> QED  BY <1>0, <1>3, <2>2, <3>1, LostStep DEF Close, Inv, SocketInv
  <2>3. CASE CloseDetaches /\ writer = 0 /\ UNCHANGED <<worker, place, out, gateway>>
    <3>1. /\ alive' = alive /\ writer' = writer /\ sup' = sup /\ conn' = conn
          /\ subscribing' = subscribing
      BY <1>0, <1>3, <2>3 DEF CloseDetaches, Close, LinkInv, LinkTypeOK, Sockets
    <3> QED  BY <1>0, <2>3, <3>1, CalmStep DEF gateway
  <2> QED  BY <1>3, <2>1, <2>2, <2>3 DEF Close
<1>4. CASE (\E e \in Endpoints : DialSucceeds(e)) /\ Idle
  <2>1. /\ UNCHANGED <<subscribing, place, out, gwCredits, writer>> /\ conn' = conn + 1
        /\ sup = "dialing" /\ sup' = "dialed" /\ ~subscribing /\ gwCredits = -1 /\ out = <<>>
    BY <1>0, <1>4 DEF DialSucceeds, Idle, gateway, Inv, SocketInv, TypeOK
  <2>2. /\ Work' = Work /\ Granted' = Granted /\ Sent("credit")' = 0 /\ Sent("subscribe")' = 0
        /\ Sent("subscribe") = 0 /\ Sent("credit") = 0 /\ ToCome' /\ ~ToCome
    BY <1>0, <2>1, Counts DEF Work, At, Granted, ToCome
  <2>3. WindowInv'
    <3>1. \A c, n \in Nat : c * (n + 1) = c * n + c
      OBVIOUS
    <3>2. Budget' = Budget + Credits
      BY <1>0, <2>1, <3>1, Counts DEF Budget
    <3>3. Credits \in Nat /\ Budget \in Nat /\ WindowInv
      BY <1>0, Counts DEF Inv
    <3> QED  BY <1>1, <2>2, <3>2, <3>3 DEF WindowInv
  <2> QED  BY <2>1, <2>2, <2>3 DEF Goal, SocketInv, CreditInv
<1>5. CASE PublishSocket
  <2>1. /\ UNCHANGED <<conn, place, out, gwCredits, alive>> /\ sup = "dialed" /\ sup' = "pumping"
        /\ subscribing' /\ gwCredits = -1 /\ out = <<>> /\ writer' = conn
    BY <1>0, <1>5 DEF PublishSocket, Publish, gateway, Inv, SocketInv, TypeOK
  <2>2. /\ Work' = Work /\ Granted' = Granted /\ ToCome' /\ ToCome
        /\ Sent("subscribe")' = 0 /\ Sent("credit")' = Sent("credit")
    BY <1>0, <2>1, Counts DEF Work, At, Granted, ToCome, Sent
  <2>3. Budget' = Budget
    BY <2>1 DEF Budget
  <2> QED  BY <2>1, <2>2, <2>3 DEF Goal, Inv, SocketInv, WindowInv, CreditInv
<1>6. CASE OnConnect
  <2>1. /\ UNCHANGED <<linkVars, place, gwCredits>> /\ subscribing /\ ~subscribing'
        /\ sup = "pumping" /\ gwCredits = -1 /\ Sent("subscribe") = 0
    BY <1>6 DEF OnConnect, gateway, Inv, SocketInv
  <2>2. \/ out' = Append(out, <<"subscribe">>) /\ conn \in alive
        \/ out' = out
    BY <1>6 DEF OnConnect
  <2>3. Sent("credit")' = Sent("credit") /\ Sent("subscribe")' \in {0, 1}
        /\ (out' # <<>> => writer = conn)
    <3>1. CASE out' = Append(out, <<"subscribe">>) /\ conn \in alive
      <4>1. /\ Sent("credit")' = Sent("credit") + 0 /\ Sent("subscribe")' = Sent("subscribe") + 1
        BY <1>0, <3>1, Frames, MarksAppend DEF Sent, TypeOK
      <4>2. writer = conn
        BY <2>1, <3>1 DEF Inv, SocketInv
      <4> QED  BY <1>1, <2>1, <4>1, <4>2
    <3>2. CASE out' = out
      BY <2>1, <3>2 DEF Sent, Inv, SocketInv
    <3> QED  BY <2>2, <3>1, <3>2
  <2>4. Work' = Work /\ Granted' = Granted /\ ToCome /\ Budget' = Budget
    BY <2>1 DEF Work, At, Granted, ToCome, linkVars, Budget
  <2>5. WindowInv'
    <3>1. Credits \in Nat /\ Budget \in Nat /\ WindowInv
      BY <1>0, Counts DEF Inv
    <3> QED  BY <1>1, <2>3, <2>4, <3>1 DEF WindowInv
  <2> QED  BY <2>1, <2>3, <2>5 DEF Goal, Inv, SocketInv, CreditInv, linkVars
<1>7. CASE StopPumping
  <2>1. conn \notin alive' /\ conn' = conn /\ sup' = "closed" /\ ~subscribing
        /\ subscribing' = subscribing /\ SocketLost
    BY <1>7 DEF StopPumping, PumpEnds
  <2> QED  BY <1>0, <2>1, LostStep
<1>8. CASE Break
  <2>1. conn \notin alive' /\ conn' = conn /\ sup' = sup /\ subscribing' = subscribing /\ SocketLost
    BY <1>8 DEF Break, SocketDies
  <2>2. CASE sup = "dialed"
    <3>1. gwCredits = -1 /\ out = <<>> /\ gwCredits' = -1 /\ out' = <<>>
      BY <1>0, <2>1, <2>2 DEF Inv, SocketInv, SocketLost, TypeOK
    <3>2. Work' \in SUBSET Work /\ IsFiniteSet(Work)
      BY <2>1, AtFinite DEF SocketLost, Work, At
    <3>3. Cardinality(Work') <= Cardinality(Work) /\ Cardinality(Work') \in Nat
      BY <1>0, <3>2, FS_Subset, Counts
    <3>4. /\ Sent("credit")' = 0 /\ Sent("credit") = 0 /\ Sent("subscribe")' = 0 /\ ToCome /\ ToCome'
          /\ Granted' = 0 /\ Granted = 0 /\ Budget' = Budget
      BY <1>0, <2>1, <2>2, <3>1, Counts DEF ToCome, Granted, Budget
    <3>5. WindowInv'
      <4>1. Credits \in Nat /\ Budget \in Nat /\ WindowInv
        BY <1>0, Counts DEF Inv
      <4> QED  BY <1>1, <3>3, <3>4, <4>1 DEF WindowInv
    <3> QED  BY <2>1, <2>2, <3>1, <3>4, <3>5 DEF Goal, Inv, SocketInv, CreditInv
  <2>3. CASE sup # "dialed"
    BY <1>0, <2>1, <2>3, LostStep DEF Inv, SocketInv
  <2> QED  BY <2>2, <2>3
<1>9. CASE GatewayReceives
  <2>1. /\ out # <<>> /\ out' = Tail(out) /\ Head(out) \in Frame
        /\ UNCHANGED <<linkVars, subscribing, place>>
    BY <1>0, <1>9, HeadTailProperties DEF GatewayReceives, TypeOK
  <2>2. /\ Sent("credit")' = Sent("credit") - IF Head(out)[1] = "credit" THEN 1 ELSE 0
        /\ Sent("subscribe")' = Sent("subscribe") - IF Head(out)[1] = "subscribe" THEN 1 ELSE 0
    BY <1>0, <2>1, MarksTail DEF Sent, TypeOK
  <2>3. Sent("subscribe") \in {0, 1} /\ Sent("subscribe")' \in Nat /\ writer = conn /\ sup = "pumping"
    BY <1>0, <2>1, MarksFinite DEF Inv, SocketInv, Sent, TypeOK
  <2>4. /\ Cardinality(Work') = Cardinality(Work) /\ Cardinality(Slots') = Cardinality(Slots)
        /\ Budget' = Budget /\ Credits \in Nat /\ Budget \in Nat
    BY <1>0, <2>1, Counts DEF Work, Slots, At, linkVars, Budget
  <2>5. CASE Head(out)[1] = "subscribe" /\ gwCredits' = Credits
    <3>1. Sent("subscribe") = 1 /\ Sent("subscribe")' = 0 /\ Sent("credit")' = Sent("credit")
      BY <1>1, <2>2, <2>3, <2>5
    <3>2. ~subscribing /\ ~subscribing' /\ ToCome /\ ~ToCome'
      BY <2>1, <2>3, <3>1 DEF ToCome, Inv, SocketInv, linkVars
    <3>3. Granted' = Credits
      BY <2>4, <2>5 DEF Granted
    <3>4. WindowInv'
      <4>1. WindowInv
        BY DEF Inv
      <4> QED  BY <1>1, <2>4, <3>1, <3>2, <3>3, <4>1 DEF WindowInv
    <3>5. CreditInv'
      BY <1>1, <2>4, <2>5 DEF CreditInv
    <3> QED  BY <2>1, <2>3, <3>1, <3>2, <3>4, <3>5 DEF Goal, Inv, SocketInv, linkVars
  <2>6. CASE Head(out)[1] = "credit" /\ gwCredits' = IF gwCredits = -1 THEN -1 ELSE gwCredits + 1
    <3>1. /\ Sent("subscribe")' = Sent("subscribe") /\ Sent("credit")' = Sent("credit") - 1
          /\ Granted' <= Granted + 1 /\ Granted' \in Nat
      BY <1>0, <1>1, <2>2, <2>3, <2>6, Counts DEF Granted
    <3>2. Cardinality(Work') + Granted' + Sent("credit")' <=
              Cardinality(Work) + Granted + Sent("credit")
      BY <1>1, <2>4, <3>1
    <3>3. /\ gwCredits' >= 0 => gwCredits >= 0
          /\ gwCredits = -1 => gwCredits' = -1
          /\ gwCredits' >= 0 => gwCredits' + Sent("credit")' + Cardinality(Slots') >=
                                gwCredits + Sent("credit") + Cardinality(Slots)
      BY <1>1, <2>4, <2>6, <3>1
    <3> QED  BY <1>0, <2>1, <2>3, <3>1, <3>2, <3>3, JobStep
  <2>7. CASE Head(out)[1] = "ack" /\ gwCredits' = gwCredits
    <3>1. /\ Sent("subscribe")' = Sent("subscribe") /\ Sent("credit")' = Sent("credit")
          /\ Granted' = Granted
      BY <1>1, <2>2, <2>3, <2>7 DEF Granted
    <3> QED  BY <1>0, <1>1, <2>1, <2>3, <2>4, <2>7, <3>1, JobStep
  <2> QED  BY <1>9, <2>5, <2>6, <2>7 DEF GatewayReceives
<1>10. ASSUME NEW j \in Jobs, Take(j) \/ OnJob(j) PROVE Goal
  <2>1. /\ UNCHANGED <<linkVars, subscribing, out, gwCredits>>
        /\ \E to \in {"handling", "buffered", "dropped"} :
              Move(j, to) /\ place[j] \in {"pushed", "buffered"}
    BY <1>10 DEF Take, OnJob, gateway
  <2>2. Cardinality(Work') <= Cardinality(Work) /\ Cardinality(Slots') = Cardinality(Slots)
    <3>1. PICK to \in {"handling", "buffered", "dropped"} :
             Move(j, to) /\ place[j] \in {"pushed", "buffered"}
      BY <2>1
    <3>2. /\ Cardinality(Work') = Cardinality(Work)
                + (IF to \in {"pushed", "buffered", "handling", "replenishing"} THEN 1 ELSE 0) - 1
          /\ Cardinality(Slots') = Cardinality(Slots) + 1 - 1
      BY <1>0, <3>1, MoveCount DEF Work, Slots
    <3> QED  BY <1>1, <3>2
  <2>3. Sent("subscribe")' = Sent("subscribe") /\ Sent("credit")' = Sent("credit")
        /\ Granted' = Granted
    BY <2>1 DEF Sent, Granted
  <2>4. Cardinality(Work') \in Nat
    BY <1>0, Counts
  <2> QED  BY <1>0, <1>1, <2>1, <2>2, <2>3, <2>4, JobStep
<1>11. ASSUME NEW j \in Jobs, GatewayPushes(j) PROVE Goal
  <2>1. /\ UNCHANGED <<linkVars, subscribing, out>> /\ gwCredits > 0 /\ gwCredits' = gwCredits - 1
        /\ Move(j, "pushed") /\ place[j] = "available"
    BY <1>11 DEF GatewayPushes
  <2>2. /\ Cardinality(Work') = Cardinality(Work) + 1 - 0
        /\ Cardinality(Slots') = Cardinality(Slots) + 1 - 0
    BY <1>0, <2>1, MoveCount DEF Work, Slots
  <2>3. Sent("subscribe")' = Sent("subscribe") /\ Sent("credit")' = Sent("credit")
        /\ Granted' = Granted - 1
    BY <1>1, <2>1 DEF Sent, Granted
  <2> QED  BY <1>0, <1>1, <2>1, <2>2, <2>3, JobStep
<1>12. ASSUME NEW j \in Jobs, Skip(j) \/ SendAck(j) \/ Replenish(j) PROVE Goal
  <2>1. PICK frame \in Frame, to \in {"skipped", "replenishing", "finished"} :
          /\ Queue(frame) /\ Move(j, to) /\ InWork(j)
          /\ frame[1] = IF to = "replenishing" THEN "ack" ELSE "credit"
    <3>1. CASE Skip(j)
      BY <3>1, Frames DEF Skip
    <3>2. CASE SendAck(j)
      BY <3>2, Frames DEF SendAck
    <3>3. CASE Replenish(j)
      BY <3>3, Frames DEF Replenish
    <3> QED  BY <1>12, <3>1, <3>2, <3>3
  <2>2. UNCHANGED <<linkVars, subscribing, gwCredits>>
    BY <1>12 DEF Skip, SendAck, Replenish, gateway
  <2> DEFINE back == IF to = "replenishing" THEN 0 ELSE 1
  <2>3. /\ Cardinality(Work') = Cardinality(Work) - back
        /\ Cardinality(Slots') = Cardinality(Slots) - back
    <3>1. /\ Cardinality(Work') = Cardinality(Work) + (1 - back) - 1
          /\ Cardinality(Slots') = Cardinality(Slots) + (1 - back) - 1
      BY <1>0, <2>1, MoveCount DEF Work, Slots
    <3> QED  BY <1>1, <3>1
  <2>4. /\ Sent("subscribe")' = Sent("subscribe")
        /\ out' # <<>> => writer = conn /\ sup = "pumping"
        /\ gwCredits >= 0 => Sent("credit")' = Sent("credit") + back
        /\ Sent("credit")' <= Sent("credit") + back
    BY <1>0, <2>1, QueueCount DEF Inv
  <2>5. Granted' = Granted /\ back \in {0, 1}
    BY <2>2 DEF Granted
  <2> HIDE DEF back
  <2> QED  BY <1>0, <1>1, <2>2, <2>3, <2>4, <2>5, JobStep
<1> QED  BY NextCases, <1>2, <1>3, <1>4, <1>5, <1>6, <1>7, <1>8, <1>9, <1>10, <1>11, <1>12, Zenon

LEMMA InvInit == Init => Inv
<1> SUFFICES ASSUME Init PROVE Inv
  OBVIOUS
<1>1. TypeOK /\ LinkInv
  BY InitType, LinkInvInit DEF Init
<1>2. /\ out = <<>> /\ gwCredits = -1 /\ Work = {} /\ ~subscribing /\ sup = "dialing" /\ conn = 0
  BY DEF Init, LinkInit, Work, At
<1>3. Sent("credit") = 0 /\ Sent("subscribe") = 0 /\ Granted = 0 /\ ~ToCome
      /\ Cardinality(Work) = 0
  <2>1. out \in Seq(Frame)
    BY <1>1 DEF TypeOK
  <2>2. Sent("credit") = 0 /\ Sent("subscribe") = 0
    BY <1>2, <2>1, MarksFinite DEF Sent
  <2> QED  BY <1>2, <2>2, FS_EmptySet DEF Granted, ToCome
<1>4. Credits * conn = 0
  BY <1>2, WorkerAssumption
<1> QED  BY <1>1, <1>2, <1>3, <1>4 DEF Inv, SocketInv, WindowInv, CreditInv, Budget

LEMMA InvStep == Inv /\ [Next]_vars => Inv'
BY StepType, StepCredits, WorkerStepsTheLink, LinkInvStep DEF Inv, Goal

LEMMA InvGivesTheCredits == Inv => TypeOK /\ BoundedByWindows /\ NoDeliveryCreditLost
<1> SUFFICES ASSUME Inv PROVE TypeOK /\ BoundedByWindows /\ NoDeliveryCreditLost
  OBVIOUS
<1>1. TypeOK /\ NoDeliveryCreditLost
  BY CreditInvIsNoneLost DEF Inv
<1>2. BoundedByWindows
  <2>1. /\ Cardinality(Work) \in Nat /\ Granted \in Nat /\ Sent("credit") \in Nat /\ Credits \in Nat
        /\ Budget \in Nat
    <3>1. out \in Seq(Frame) /\ Credits \in Nat /\ conn \in Nat /\ Granted \in Nat
      BY <1>1, WorkerAssumption, LinkAssumption DEF TypeOK, LinkTypeOK, Granted
    <3> QED  BY <3>1, AtFinite, MarksFinite DEF Work, Sent, Budget
  <2>2. Cardinality(Work) <= Budget
    BY <2>1 DEF Inv, WindowInv
  <2> QED  BY <2>2 DEF BoundedByWindows, Work, Budget
<1> QED  BY <1>1, <1>2

(* The window of the first connection fits the buffer: a push that found   *)
(* it full would be one job more than the window.                          *)
DropInv == conn <= 1 => At({"dropped"}) = {}

LEMMA FirstPushFits ==
    ASSUME Inv, conn <= 1, NEW j \in Jobs, place[j] = "pushed"
    PROVE  Cardinality(At({"buffered"})) < Credits
<1> DEFINE buffered == At({"buffered"})
<1>1. IsFiniteSet(buffered) /\ IsFiniteSet(Work) /\ j \notin buffered
  BY AtFinite DEF Work, At
<1>2. buffered \cup {j} \subseteq Work
  BY DEF Work, At
<1>3. Cardinality(buffered \cup {j}) = Cardinality(buffered) + 1
  BY <1>1, FS_AddElement
<1>4. Cardinality(buffered \cup {j}) <= Cardinality(Work)
  BY <1>1, <1>2, FS_Subset
<1>5. Cardinality(buffered) \in Nat /\ Cardinality(Work) \in Nat
  BY <1>1, FS_CardinalityType
<1>6. Cardinality(Work) <= Credits * conn
  BY InvGivesTheCredits DEF BoundedByWindows, Work
<1>7. conn \in {0, 1} /\ Credits \in Nat
  BY WorkerAssumption, LinkAssumption DEF Inv, TypeOK, LinkTypeOK
<1>8. Credits * conn <= Credits /\ Credits * conn \in Nat
  BY <1>7
<1> HIDE DEF buffered
<1> QED  BY <1>3, <1>4, <1>5, <1>6, <1>7, <1>8 DEF buffered

LEMMA DropStep == Inv /\ DropInv /\ [Next]_vars => DropInv'
<1> SUFFICES ASSUME Inv, DropInv, [Next]_vars, conn' <= 1 PROVE At({"dropped"})' = {}
  BY DEF DropInv
<1>0. TypeOK /\ conn <= 1 /\ At({"dropped"}) = {}
  <2>1. conn \in Nat /\ conn' \in {conn, conn + 1}
    BY WorkerStepsTheLink, LinkAssumption DEF Inv, TypeOK, LinkTypeOK, LinkNext, linkVars,
       DialFails, DialSucceeds, SuperviseEnds, Publish, SocketDies, PumpEnds, Detach,
       Disconnect, CloseCancels, CloseDetaches
  <2> QED  BY <2>1 DEF Inv, DropInv
<1>1. ASSUME place' = place \/ SocketLost PROVE At({"dropped"})' = {}
  BY <1>0, <1>1 DEF SocketLost, TypeOK, At
<1>2. ASSUME NEW j \in Jobs, NEW to, to # "dropped", Move(j, to) PROVE At({"dropped"})' = {}
  BY <1>0, <1>2 DEF Move, TypeOK, At
<1>3. CASE LoopOnly
  BY <1>1, <1>3 DEF LoopOnly, Subscribed, SubscribeFailed, Top, NoJob, Drained, Return, Cancel
<1>4. CASE Close \/ StopPumping \/ Break
  BY <1>1, <1>4 DEF Close, StopPumping, Break
<1>5. CASE \/ Quiet \/ ((\E e \in Endpoints : DialSucceeds(e)) /\ Idle)
           \/ PublishSocket \/ OnConnect \/ GatewayReceives \/ UNCHANGED vars
  BY <1>1, <1>5 DEF Quiet, Idle, PublishSocket, OnConnect, GatewayReceives, vars
<1>6. ASSUME NEW j \in Jobs, OnJob(j) PROVE At({"dropped"})' = {}
  <2>1. Cardinality(At({"buffered"})) < Credits
    BY <1>0, <1>6, FirstPushFits DEF OnJob
  <2> QED  BY <1>2, <1>6, <2>1 DEF OnJob
<1>7. ASSUME NEW j \in Jobs, Take(j) \/ Skip(j) \/ SendAck(j) \/ Replenish(j) \/ GatewayPushes(j)
      PROVE  At({"dropped"})' = {}
  BY <1>2, <1>7 DEF Take, Skip, SendAck, Replenish, GatewayPushes
<1> QED  BY NextCases, <1>3, <1>4, <1>5, <1>6, <1>7

LEMMA InvConserves == Inv /\ DropInv => TypeOK /\ DeliveryCreditsConserved
<1> SUFFICES ASSUME Inv, DropInv, conn <= 1 PROVE Cardinality(Running) <= Credits
  BY InvGivesTheCredits DEF DropInv, DeliveryCreditsConserved, FirstWindowIsEnough
<1>1. Running \subseteq Work /\ IsFiniteSet(Work)
  BY AtFinite DEF Running, Work, At
<1>2. Cardinality(Running) <= Cardinality(Work)
  BY <1>1, FS_Subset
<1>3. Cardinality(Running) \in Nat /\ Cardinality(Work) \in Nat
  BY AtFinite DEF Running, Work
<1>4. Cardinality(Work) <= Credits * conn
  BY InvGivesTheCredits DEF BoundedByWindows, Work
<1>5. conn \in {0, 1} /\ Credits \in Nat
  BY WorkerAssumption, LinkAssumption DEF Inv, TypeOK, LinkTypeOK
<1>6. Credits * conn <= Credits /\ Credits * conn \in Nat
  BY <1>5
<1> QED  BY <1>2, <1>3, <1>4, <1>5, <1>6

-----------------------------------------------------------------------------
(* The worker's state stays well typed, and a subscription outlives        *)
(* neither its socket nor a frame.                                         *)
THEOREM TypeCorrect == Spec => []TypeOK
BY InvInit, InvStep, InvGivesTheCredits, PTL DEF Spec

(* No delivery credit is made up and none is lost, for any number of jobs, *)
(* any window and any number of failovers: neither by a job that does not  *)
(* decode nor by an acknowledgement that meets a dead socket.  Until the   *)
(* first failover no push is dropped and the cap on handlers holds.        *)
THEOREM CreditsAreConserved == Spec => []DeliveryCreditsConserved
<1>1. Init => DropInv
  BY DEF Init, DropInv, At
<1> QED  BY <1>1, InvInit, InvStep, DropStep, InvConserves, PTL DEF Spec
-----------------------------------------------------------------------------
(* The worker contract.                                                    *)

(* Before the subscription and after the drain no handler runs.            *)
Outside == {"subscribing", "closing", "returned", "fallback"}
QuietOutside == loop \in Outside => Running = {}

(* Running' when the handlers' places are disturbed at most by job j.      *)
LEMMA MoveRuns ==
    ASSUME TypeOK, NEW j \in Jobs, NEW to, Move(j, to)
    PROVE  Running' = IF to \in {"handling", "replenishing"} THEN Running \cup {j}
                                                            ELSE Running \ {j}
BY DEF Move, TypeOK, Running, At

LEMMA LostRuns == TypeOK /\ SocketLost => Running' = Running
BY DEF SocketLost, TypeOK, Running, At

(* What the worker holds fits the windows of all connections it may make.  *)
LEMMA WindowsFit ==
    ASSUME NEW n \in Nat, n <= MaxConnects
    PROVE  Credits * n \in Nat /\ Credits * MaxConnects \in Nat
           /\ Credits * n <= Credits * MaxConnects
<1>1. Credits \in Nat /\ MaxConnects \in Nat /\ MaxConnects - n \in Nat
  BY WorkerAssumption, LinkAssumption
<1>2. Credits * (MaxConnects - n) \in Nat
  BY <1>1
<1>3. Credits * MaxConnects = Credits * n + Credits * (MaxConnects - n)
  BY <1>1
<1> QED  BY <1>1, <1>2, <1>3

Fits == Cardinality(Work) <= Credits * MaxConnects

LEMMA HeldFits == Inv => Fits
<1> SUFFICES ASSUME Inv PROVE Fits
  OBVIOUS
<1>1. Cardinality(Work) <= Credits * conn
  BY InvGivesTheCredits DEF BoundedByWindows, Work
<1>2. conn \in Nat /\ conn <= MaxConnects
  BY LinkAssumption DEF Inv, TypeOK, LinkTypeOK
<1>3. Cardinality(Work) \in Nat
  BY AtFinite DEF Work
<1> QED  BY <1>1, <1>2, <1>3, WindowsFit DEF Fits

LEMMA HeldFitsNext == Inv' => Fits'
BY HeldFits, PTL

(* A step that is one of the contract's, or none of them.                  *)
Kept == QuietOutside' /\ [Contract!Next]_(Contract!vars)

LEMMA ContractStep == Inv /\ Inv' /\ QuietOutside /\ [Next]_vars => Kept
<1> SUFFICES ASSUME Inv, Inv', QuietOutside, [Next]_vars PROVE Kept
  OBVIOUS
<1>0. TypeOK
  BY DEF Inv
(* Steps that start and end no handler, nor Run.                           *)
<1>1. ASSUME Running' = Running, (loop' = "returned") = (loop = "returned"),
             loop' \in Outside => loop \in Outside \/ Running = {}
      PROVE  Kept
  BY <1>1 DEF Kept, QuietOutside, Contract!vars
<1>2. CASE Subscribed \/ Top \/ NoJob \/ Drained \/ Cancel
  <2>1. Running' = Running
    BY <1>2 DEF Subscribed, Top, NoJob, Drained, Cancel, Running, At
  <2> QED  BY <1>1, <1>2, <2>1 DEF Subscribed, Top, NoJob, Drained, Cancel, Outside
<1>3. CASE SubscribeFailed \/ Return
  <2>1. Running = {} /\ Running' = {} /\ loop' \in Outside
    BY <1>3 DEF SubscribeFailed, Return, QuietOutside, Running, At, Outside
  <2>2. QuietOutside'
    BY <2>1 DEF QuietOutside
  <2>3. CASE loop' = "returned"
    BY <2>1, <2>2, <2>3 DEF Kept, Contract!Next, Contract!Stop
  <2>4. CASE loop' # "returned"
    <3>1. loop # "returned"
      BY <1>3, <2>4 DEF SubscribeFailed, Return
    <3> QED  BY <2>1, <2>2, <2>4, <3>1 DEF Kept, Contract!vars
  <2> QED  BY <2>3, <2>4
<1>4. CASE Close \/ StopPumping \/ Break
  <2>1. loop' = loop /\ (place' = place \/ SocketLost)
    BY <1>4 DEF Close, StopPumping, Break, SocketLost, worker
  <2>2. Running' = Running
    BY <1>0, <2>1, LostRuns DEF Running, At
  <2> QED  BY <1>1, <2>1, <2>2
<1>5. CASE \/ Quiet \/ ((\E e \in Endpoints : DialSucceeds(e)) /\ Idle)
           \/ PublishSocket \/ OnConnect \/ GatewayReceives \/ UNCHANGED vars
  <2>1. loop' = loop /\ place' = place
    BY <1>5 DEF Quiet, Idle, PublishSocket, OnConnect, GatewayReceives, vars, worker
  <2>2. Running' = Running
    BY <2>1 DEF Running, At
  <2> QED  BY <1>1, <2>1, <2>2
(* A job gets a handler: one window for each connection was granted.       *)
<1>6. ASSUME NEW j \in Jobs, Take(j) PROVE Kept
  <2>1. Running' = Running \cup {j} /\ loop = "waiting" /\ loop' = "top"
    BY <1>0, <1>6, MoveRuns DEF Take
  <2>2. Cardinality(Running') <= Credits * MaxConnects
    <3>1. Cardinality(Work') <= Credits * MaxConnects
      BY HeldFitsNext DEF Fits
    <3>2. Running' \subseteq Work' /\ Work' \subseteq Jobs
      BY DEF Work, Running, At
    <3>3. IsFiniteSet(Work') /\ IsFiniteSet(Running')
      BY <3>2, WorkerAssumption, FS_Subset
    <3>4. Cardinality(Running') <= Cardinality(Work')
      BY <3>2, <3>3, FS_Subset
    <3>5. Cardinality(Running') \in Nat /\ Cardinality(Work') \in Nat
      BY <3>3, FS_CardinalityType
    <3>6. Credits * MaxConnects \in Nat
      BY WindowsFit, LinkAssumption
    <3> QED  BY <3>1, <3>4, <3>5, <3>6
  <2>3. Contract!Begin({j})
    BY <2>1, <2>2 DEF Contract!Begin, Contract!Cardinality, Cardinality
  <2> QED  BY <2>1, <2>3 DEF Kept, Contract!Next, QuietOutside, Outside
<1>7. ASSUME NEW j \in Jobs, Skip(j) \/ OnJob(j) \/ GatewayPushes(j) PROVE Kept
  <2>1. \E to \in Places \ {"handling", "replenishing"} : Move(j, to)
    BY <1>7 DEF Skip, OnJob, GatewayPushes, Places
  <2>2. place[j] \notin {"handling", "replenishing"}
    BY <1>7 DEF Skip, OnJob, GatewayPushes
  <2>3. Running' = Running
    BY <1>0, <2>1, <2>2, MoveRuns DEF Running, At
  <2>4. loop' = loop \/ (loop = "waiting" /\ loop' = "top")
    BY <1>7 DEF Skip, OnJob, GatewayPushes, worker
  <2> QED  BY <1>1, <2>3, <2>4 DEF Outside
<1>8. ASSUME NEW j \in Jobs, SendAck(j) PROVE Kept
  <2>1. Running' = Running /\ loop' = loop
    BY <1>0, <1>8, MoveRuns DEF SendAck, worker, Running, At
  <2> QED  BY <1>1, <2>1
(* A handler has returned its credit.                                      *)
<1>9. ASSUME NEW j \in Jobs, Replenish(j) PROVE Kept
  <2>1. j \in Running /\ Running' = Running \ {j} /\ loop' = loop
    BY <1>0, <1>9, MoveRuns DEF Replenish, worker, Running, At
  <2>2. Contract!End(j)
    BY <2>1 DEF Contract!End
  <2> QED  BY <2>1, <2>2 DEF Kept, Contract!Next, QuietOutside
<1>10. CASE LoopOnly
  BY <1>2, <1>3, <1>10 DEF LoopOnly
<1>11. ASSUME NEW j \in Jobs, \/ Take(j) \/ Skip(j) \/ SendAck(j) \/ Replenish(j)
                              \/ OnJob(j) \/ GatewayPushes(j)
       PROVE  Kept
  BY <1>6, <1>7, <1>8, <1>9, <1>11
<1>12. CASE \E j \in Jobs : \/ Take(j) \/ Skip(j) \/ SendAck(j) \/ Replenish(j)
                           \/ OnJob(j) \/ GatewayPushes(j)
  BY <1>11, <1>12
<1> QED  BY NextCases, <1>4, <1>5, <1>10, <1>12

(* The worker implements the contract of the job workers with a limit of   *)
(* one window for each connection it ever makes: Run returns only when no  *)
(* handler runs, and no handler starts after that.                         *)
THEOREM WorkerKeepsContract == Spec => KeepsContract
<1>1. Init => QuietOutside /\ Contract!Init
  BY DEF Init, QuietOutside, Running, At, Contract!Init
<1> QED  BY <1>1, InvInit, InvStep, ContractStep, PTL DEF Kept, Spec, KeepsContract, Contract!Spec

(* In plain words: the handlers never outnumber the windows of all the     *)
(* connections, and none runs when Run is back.                            *)
THEOREM HandlersAreCapped == Spec => []Contract!Honoured
<1>1. Init => QuietOutside
  BY DEF Init, QuietOutside, Running, At
<1>2. Inv /\ QuietOutside => Contract!Honoured
  <2> SUFFICES ASSUME Inv PROVE Cardinality(Running) <= Credits * MaxConnects
    BY DEF QuietOutside, Outside, Contract!Honoured, Contract!Cardinality, Cardinality
  <2>1. Running \subseteq Work /\ IsFiniteSet(Work)
    BY AtFinite DEF Running, Work, At
  <2>2. Cardinality(Running) <= Cardinality(Work)
    BY <2>1, FS_Subset
  <2>3. Cardinality(Running) \in Nat /\ Cardinality(Work) \in Nat
    BY AtFinite DEF Running, Work
  <2>4. Credits * MaxConnects \in Nat /\ Cardinality(Work) <= Credits * MaxConnects
    BY HeldFits, WindowsFit, LinkAssumption DEF Fits
  <2> QED  BY <2>2, <2>3, <2>4
<1> QED  BY <1>1, <1>2, InvInit, InvStep, ContractStep, PTL DEF Kept, Spec
=============================================================================
