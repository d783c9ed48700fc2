------------------------- MODULE EngineClockProofs --------------------------
(***************************************************************************)
(* Proofs about EngineClock, for any number of callers, any durations and  *)
(* instants, and about its pollers, which move it like any other caller.   *)
(***************************************************************************)
EXTENDS EventualPoll, TLAPS

USE ClockAssumption

LEMMA NowIsNat == TypeOK => Now \in Nat
BY DEF TypeOK, Now

LEMMA InitType == Init => TypeOK
<1> SUFFICES ASSUME Init PROVE TypeOK
  OBVIOUS
<1> USE DEF Init
<1>1. live \in 0..MaxTime /\ engine \in Nat \cup {Live} /\ gate \in Callers \cup {Nobody}
  OBVIOUS
<1>2. \A c \in Callers : pc[c] \in {"requesting", "executed"} <=> gate = c
  OBVIOUS
<1> QED BY <1>1, <1>2 DEF TypeOK

LEMMA StepType == TypeOK /\ [Next]_vars => TypeOK'
<1> SUFFICES ASSUME TypeOK, [Next]_vars PROVE TypeOK'
  OBVIOUS
<1> USE DEF TypeOK, reading, callers
<1>1. ASSUME NEW c \in Callers, Sleep(c) PROVE TypeOK'
  <2>1. PICK d \in Durations : Begin(c, "sleep", d, Now)
    BY <1>1 DEF Sleep
  <2>2. Now \in Nat /\ Now + d \in Nat
    BY NowIsNat
  <2> QED BY <2>1, <2>2 DEF Begin
<1>2. ASSUME NEW c \in Callers, PinTo(c) \/ Reset(c) PROVE TypeOK'
  BY <1>2 DEF PinTo, Reset, Begin
<1>3. ASSUME NEW c \in Callers, EnterGate(c) PROVE TypeOK'
  BY <1>3 DEF EnterGate, Leave
<1>4. ASSUME NEW c \in Callers, EngineExecutes(c) PROVE TypeOK'
  BY <1>4 DEF EngineExecutes
<1>5. ASSUME NEW c \in Callers, Leave(c), pc[c] \in {"requesting", "executed"},
             UNCHANGED <<engine, live>>, pinned' \in BOOLEAN, at' \in Nat, lost' \in BOOLEAN
      PROVE  TypeOK'
  BY <1>5 DEF Leave
<1>8. ASSUME NEW c \in Callers, Refused(c) \/ AnswerLost(c) \/ Publish(c) PROVE TypeOK'
  <2>1. Leave(c) /\ pc[c] \in {"requesting", "executed"} /\ UNCHANGED <<engine, live>>
    BY <1>8 DEF Refused, AnswerLost, Publish
  <2>2. at' \in Nat /\ lost' \in BOOLEAN
    BY <1>8 DEF Refused, AnswerLost, Publish
  <2>3. pinned' = pinned \/ pinned' = (op[c] # "reset")
    BY <1>8 DEF Refused, AnswerLost, Publish
  <2>4. pinned' \in BOOLEAN
    BY <2>3, Zenon
  <2> QED BY <1>5, <2>1, <2>2, <2>4
<1>6. CASE Tick
  BY <1>6 DEF Tick
<1>7. CASE UNCHANGED vars
  BY <1>7 DEF vars
<1> QED BY <1>1, <1>2, <1>3, <1>4, <1>6, <1>7, <1>8 DEF Next, Proceed, Exchange

(* The clock's state stays well typed; the gate is held by whoever makes a *)
(* request, and by nobody else.                                            *)
THEOREM TypeCorrect == Spec => []TypeOK
BY InitType, StepType, PTL DEF Spec

-----------------------------------------------------------------------------
(* What a request knows: from the gate to its publication, its instant is  *)
(* ahead of the reading; once executed, it is what the engine has.  Before *)
(* that, engine and reading agree, unless an answer was lost.              *)
Agree == pinned = (engine # Live) /\ (pinned => at = engine)

RequestInv ==
    /\ ~lost /\ (\A c \in Callers : pc[c] # "executed") => Agree
    /\ \A c \in Callers :
         /\ pc[c] \in {"requesting", "executed"} /\ op[c] # "reset" /\ pinned => target[c] > at
         /\ pc[c] = "executed" => engine = IF op[c] = "reset" THEN Live ELSE target[c]
         /\ op[c] = "sleep" => target[c] = began[c] + span[c]

LEMMA StepRequest == TypeOK /\ RequestInv /\ [Next]_vars => RequestInv'
<1> SUFFICES ASSUME TypeOK, RequestInv, [Next]_vars PROVE RequestInv'
  OBVIOUS
<1> USE DEF TypeOK, RequestInv, reading, callers
<1>1. ASSUME NEW c \in Callers, Sleep(c) PROVE RequestInv'
  <2>1. PICK d \in Durations : Begin(c, "sleep", d, Now)
    BY <1>1 DEF Sleep
  <2> QED BY <2>1 DEF Begin, Agree
<1>2. ASSUME NEW c \in Callers, PinTo(c) \/ Reset(c) PROVE RequestInv'
  BY <1>2 DEF PinTo, Reset, Begin, Agree
<1>3. ASSUME NEW c \in Callers, EnterGate(c) PROVE RequestInv'
  BY <1>3 DEF EnterGate, AlreadyPast, Leave, Agree, Nobody
<1>4. ASSUME NEW c \in Callers, EngineExecutes(c) PROVE RequestInv'
  BY <1>4 DEF EngineExecutes, Agree
<1>5. ASSUME NEW c \in Callers, Refused(c) \/ AnswerLost(c) PROVE RequestInv'
  BY <1>5 DEF Refused, AnswerLost, Leave, Agree
<1>6. ASSUME NEW c \in Callers, Publish(c) PROVE RequestInv'
  <2>1. gate = c /\ \A x \in Callers : x # c => pc[x] \notin {"requesting", "executed"}
    BY <1>6 DEF Publish
  <2>2. engine = IF op[c] = "reset" THEN Live ELSE target[c]
    BY <1>6 DEF Publish
  <2>3. Agree'
    <3>1. CASE op[c] = "reset"
      <4>1. engine' = Live /\ pinned' = FALSE
        BY <1>6, <2>2, <3>1 DEF Publish
      <4> QED BY <4>1 DEF Agree
    <3>2. CASE op[c] # "reset"
      <4>1. engine' = target[c] /\ at' = target[c] /\ pinned' = TRUE
        BY <1>6, <2>2, <3>2 DEF Publish
      <4>2. target[c] # Live
        BY DEF Live
      <4> QED BY <4>1, <4>2 DEF Agree
    <3> QED BY <3>1, <3>2
  <2> QED BY <1>6, <2>1, <2>3 DEF Publish, Leave
<1>7. CASE Tick
  BY <1>7 DEF Tick, Agree
<1>8. CASE UNCHANGED vars
  BY <1>8 DEF vars, Agree
<1> QED BY <1>1, <1>2, <1>3, <1>4, <1>5, <1>6, <1>7, <1>8 DEF Next, Proceed, Exchange

LEMMA Requests == Spec => [](TypeOK /\ RequestInv)
<1>1. Init => RequestInv
  BY DEF Init, RequestInv, Agree, Live
<1> QED BY <1>1, InitType, StepType, StepRequest, PTL DEF Spec

(* Between requests the SDK and the engine agree on the time, whatever was *)
(* refused; a lost answer is made good by the next request that gets one.  *)
THEOREM ClocksAgree == Spec => []ReadingsAgree
<1>1. TypeOK /\ RequestInv => ReadingsAgree
  BY DEF TypeOK, RequestInv, ReadingsAgree, Agree, Nobody
<1> QED BY <1>1, Requests, PTL

(* A clock that stays pinned never goes back.                              *)
THEOREM PinsGoForward == Spec => PinnedIsMonotone
<1>1. TypeOK /\ RequestInv /\ [Next]_vars => [pinned /\ pinned' => at' >= at]_vars
  <2> SUFFICES ASSUME TypeOK, RequestInv, Next, pinned, pinned' PROVE at' >= at
    OBVIOUS
  <2>1. ASSUME at' = at PROVE at' >= at
    BY <2>1 DEF TypeOK
  <2>2. ASSUME NEW c \in Callers, Publish(c) PROVE at' >= at
    <3>1. op[c] # "reset" /\ at' = target[c] /\ pc[c] = "executed"
      BY <2>2 DEF Publish
    <3>2. target[c] > at
      BY <3>1 DEF RequestInv
    <3> QED BY <3>1, <3>2 DEF TypeOK
  <2> QED BY <2>1, <2>2 DEF Next, Proceed, Exchange, Sleep, PinTo, Reset, Begin, EnterGate,
                            EngineExecutes, Refused, AnswerLost, Tick, reading
<1> QED BY <1>1, Requests, PTL DEF Spec, PinnedIsMonotone

(* A wait ends its own duration after the reading it set out from.         *)
THEOREM OverlappingWaitsSettle == Spec => WaitsDoNotSum
<1> DEFINE Settles == \A c \in Callers :
              op[c] = "sleep" /\ reading' # reading /\ pc'[c] # pc[c] =>
                  at' = began[c] + span[c]
<1>1. TypeOK /\ RequestInv /\ [Next]_vars => [Settles]_vars
  <2> SUFFICES ASSUME TypeOK, RequestInv, Next, reading' # reading,
                      NEW c \in Callers, op[c] = "sleep", pc'[c] # pc[c]
               PROVE  at' = began[c] + span[c]
    OBVIOUS
  <2>1. PICK x \in Callers : Publish(x)
    BY DEF Next, Proceed, Exchange, Sleep, PinTo, Reset, Begin, EnterGate, EngineExecutes,
           Refused, AnswerLost, Tick, reading
  <2>2. x = c
    BY <2>1 DEF Publish, Leave, TypeOK
  <2> QED BY <2>1, <2>2 DEF Publish, RequestInv
<1> QED BY <1>1, Requests, PTL DEF Spec, WaitsDoNotSum

-----------------------------------------------------------------------------
(* A poller moves the clock as any other caller does, or not at all.       *)
LEMMA PollStepsTheClock == [PollNext]_allVars => [Next]_vars
<1> SUFFICES ASSUME [PollNext]_allVars PROVE [Next]_vars
  OBVIOUS
<1>1. ASSUME NEW p \in Pollers, Wait(p) PROVE Next
  <2>1. phase[p] = "waiting" /\ Begin(p, "sleep", Interval, Now)
    BY <1>1 DEF Wait
  <2> QED BY <2>1, PollAssumption DEF Next, Sleep
<1>2. ASSUME NEW p \in Pollers, Asleep(p) PROVE Next
  BY <1>2, PollAssumption DEF Asleep, Next, Proceed, Exchange
<1>3. ASSUME NEW p \in Pollers, Poll(p) \/ Found(p) \/ Missed(p) \/ Judge(p)
      PROVE  UNCHANGED vars
  BY <1>3 DEF Poll, Found, Missed, Judge
<1>4. CASE Others
  BY <1>4 DEF Others, Next
<1> QED BY <1>1, <1>2, <1>3, <1>4 DEF PollNext, PollStep, Appear, allVars

(* All that is proved of the clock holds while Polls run on it.            *)
THEOREM PollsKeepTheClock == PollSpec => Spec
<1>1. PollInit => Init
  BY DEF PollInit
<1> QED BY <1>1, PollStepsTheClock, PTL DEF PollSpec, Spec

(* A Poll that is under way has no result, and one that missed the entity  *)
(* began its look before the entity appeared.                              *)
LookInv ==
    /\ phase \in [Pollers -> {"out", "looking", "missed", "waiting", "asleep"}]
    /\ shown \in [Pollers -> BOOLEAN]
    /\ result \in [Pollers -> {"none", "found", "timeout", "error"}]
    /\ visible \in BOOLEAN
    /\ \A p \in Pollers : /\ phase[p] # "out" => result[p] = "none"
                          /\ phase[p] = "missed" => ~shown[p]
                          /\ result[p] = "timeout" => ~shown[p]

LEMMA LookStep == LookInv /\ [PollNext]_allVars => LookInv'
<1> SUFFICES ASSUME LookInv, [PollNext]_allVars PROVE LookInv'
  OBVIOUS
<1> USE DEF LookInv, poll
<1>1. ASSUME NEW p \in Pollers, Poll(p) PROVE LookInv'
  BY <1>1 DEF Poll, Look
<1>2. ASSUME NEW p \in Pollers, Found(p) PROVE LookInv'
  BY <1>2 DEF Found, Give
<1>3. ASSUME NEW p \in Pollers, Missed(p) PROVE LookInv'
  BY <1>3 DEF Missed
<1>4. ASSUME NEW p \in Pollers, Judge(p) PROVE LookInv'
  BY <1>4 DEF Judge, Give
<1>5. ASSUME NEW p \in Pollers, Wait(p) PROVE LookInv'
  BY <1>5 DEF Wait
<1>6. ASSUME NEW p \in Pollers, Asleep(p) PROVE LookInv'
  <2>1. phase[p] = "asleep" /\ visible' = visible
        /\ \/ UNCHANGED poll
           \/ Look(p) /\ UNCHANGED <<deadline, result>>
           \/ Give(p, "error") /\ UNCHANGED shown
    BY <1>6, Zenon DEF Asleep
  <2> QED BY <2>1 DEF Look, Give
<1>7. CASE Others \/ Appear \/ UNCHANGED allVars
  BY <1>7 DEF Others, Appear, allVars
<1> QED BY <1>1, <1>2, <1>3, <1>4, <1>5, <1>6, <1>7 DEF PollNext, PollStep

(* A Poll reports a timeout only of an entity that was missing when its    *)
(* last look began, however far the wait before that look went past the    *)
(* deadline.                                                               *)
THEOREM TimeoutsAreHonest == PollSpec => []TimeoutMeansMissing
<1>1. PollInit => LookInv
  BY DEF PollInit, LookInv
<1>2. LookInv => TimeoutMeansMissing
  BY DEF LookInv, TimeoutMeansMissing
<1> QED BY <1>1, <1>2, LookStep, PTL DEF PollSpec

-----------------------------------------------------------------------------
(* Every Poll is where it says it is: it sleeps exactly while its wait is  *)
(* under way on the clock that other callers move.                         *)
THEOREM PollsAreTyped == PollSpec => []PollTypeOK
<1>1. PollInit => PollTypeOK /\ LookInv
  <2> SUFFICES ASSUME PollInit PROVE PollTypeOK /\ LookInv
    OBVIOUS
  <2>1. TypeOK /\ LookInv
    BY InitType DEF PollInit, LookInv
  <2>2. \A p \in Pollers : pc[p] = "idle" /\ phase[p] = "out"
    BY PollAssumption DEF PollInit, Init
  <2>3. deadline \in [Pollers -> Nat]
    BY DEF PollInit
  <2> QED BY <2>1, <2>2, <2>3 DEF PollTypeOK, LookInv
<1>2. PollTypeOK /\ LookInv /\ LookInv' /\ [PollNext]_allVars => PollTypeOK'
  <2> SUFFICES ASSUME PollTypeOK, LookInv', [PollNext]_allVars PROVE PollTypeOK'
    OBVIOUS
  <2>1. TypeOK'
    BY PollStepsTheClock, StepType DEF PollTypeOK
  <2> DEFINE Placed == /\ deadline' \in [Pollers -> Nat]
                       /\ \A q \in Pollers : phase'[q] = "asleep" <=> pc'[q] # "idle"
  <2> SUFFICES Placed
    BY <2>1 DEF PollTypeOK, LookInv
  <2> USE PollAssumption DEF PollTypeOK, TypeOK, vars, callers, poll
  <2>2. ASSUME NEW p \in Pollers, Poll(p) PROVE Placed
    BY <2>2, NowIsNat DEF Poll, Look
  <2>3. ASSUME NEW p \in Pollers, Found(p) \/ Missed(p) \/ Judge(p) PROVE Placed
    BY <2>3 DEF Found, Missed, Judge, Give
  <2>4. ASSUME NEW p \in Pollers, Wait(p) PROVE Placed
    BY <2>4 DEF Wait, Begin
  <2>5. ASSUME NEW p \in Pollers, Asleep(p) PROVE Placed
    <3>1. phase[p] = "asleep"
      BY <2>5 DEF Asleep
    <3>2. \A q \in Callers : q # p => pc'[q] = pc[q]
      BY <2>5 DEF Asleep, EnterGate, EngineExecutes, Publish, Refused, AnswerLost, Leave
    <3>3. CASE pc'[p] # "idle"
      <4>1. UNCHANGED poll
        BY <2>5, <3>3 DEF Asleep, Refused, AnswerLost, Leave
      <4> QED BY <3>1, <3>2, <3>3, <4>1
    <3>4. CASE pc'[p] = "idle"
      <4>1. \/ Look(p) /\ UNCHANGED <<deadline, result>>
            \/ Give(p, "error")
        BY <2>5, <3>4 DEF Asleep
      <4> QED BY <3>1, <3>2, <3>4, <4>1 DEF Look, Give
    <3> QED BY <3>3, <3>4
  <2>6. CASE Others
    <3>1. UNCHANGED poll
      BY <2>6 DEF Others
    <3>2. \A q \in Pollers : pc'[q] = pc[q]
      BY <2>6 DEF Others, Sleep, PinTo, Reset, Begin, Proceed, Exchange, EnterGate, EngineExecutes,
                  Publish, Refused, AnswerLost, Leave, Tick, callers
    <3> QED BY <3>1, <3>2
  <2>7. CASE Appear \/ UNCHANGED allVars
    BY <2>7 DEF Appear, allVars
  <2> QED BY <2>2, <2>3, <2>4, <2>5, <2>6, <2>7 DEF PollNext, PollStep
<1> QED BY <1>1, <1>2, LookStep, PTL DEF PollSpec
=============================================================================
