------------------------ MODULE FalconRoutingProofs -------------------------
(***************************************************************************)
(* Proofs about FalconRouting, for any number of creates and workers and   *)
(* any retry interval.                                                     *)
(***************************************************************************)
EXTENDS FalconRouting, TLAPS

USE RoutingAssumption

(* A probe under way means that there is no verdict yet.                   *)
RoutingInv == TypeOK /\ (probing => ~resolved)

LEMMA InitRouting == Init => RoutingInv
BY DEF Init, RoutingInv, TypeOK, Callers, Ways, Never

(* A caller that moves between other steps leaves the flags as they were.  *)
LEMMA StepAside ==
    ASSUME RoutingInv, NEW c \in Callers, NEW to, Goto(c, to),
           pc[c] \notin {"probing", "starting"},
           to \in {"new", "routing", "done"} \cup Ways,
           to \in {"routing", "stream"} => resolved /\ caps,
           sent' \subseteq Creates \X Ways,
           executed' \in [Creates -> {"no"} \cup Ways],
           outcome' \in [Creates -> {"none", "ok", "error"}],
           UNCHANGED <<enabled, nano, probing, caps, dialer, sinceProbe, once, prod>>,
           resolved' = resolved \/ (resolved' = TRUE /\ ~probing)
    PROVE  RoutingInv'
<1> USE DEF RoutingInv, TypeOK, Goto, Ways
<1>1. pc' \in [Callers -> {"new", "probing", "routing", "starting", "done"} \cup Ways]
  OBVIOUS
<1>2. \A d \in Callers : /\ pc'[d] = "probing" <=> pc[d] = "probing"
                         /\ pc'[d] = "starting" <=> pc[d] = "starting"
  OBVIOUS
<1>3. resolved' \in BOOLEAN /\ (resolved => resolved')
  OBVIOUS
<1>4. \A d \in Callers : pc'[d] \in {"routing", "starting", "stream"} => resolved' /\ caps'
  BY <1>3
<1>5. probing' => ~resolved'
  OBVIOUS
<1> QED BY <1>1, <1>2, <1>3, <1>4, <1>5

LEMMA TakeSends ==
    ASSUME TypeOK, NEW c \in Callers, NEW way \in Ways, Take(c, way)
    PROVE  sent' \subseteq Creates \X Ways
BY DEF TypeOK, Take

(* The caller that probes puts the flag back, with a verdict or without.   *)
LEMMA ProbeKeeps ==
    ASSUME RoutingInv, NEW c \in Callers, ProbeEnds(c)
    PROVE  RoutingInv'
<1> USE DEF RoutingInv, TypeOK, Goto
<1>1. pc[c] = "probing" /\ probing /\ ~resolved
  BY DEF ProbeEnds, ProbeFails, FullAnswer, CutAnswer, Store
<1>2. PICK to \in {"rest", "routing"} : Goto(c, to) /\ (to = "routing" => resolved' /\ caps')
  BY DEF ProbeEnds, ProbeFails, FullAnswer, CutAnswer, Store, Take
<1>3. probing' = FALSE /\ resolved' \in BOOLEAN /\ caps' \in BOOLEAN
  BY DEF ProbeEnds, ProbeFails, FullAnswer, CutAnswer, Store
<1>4. UNCHANGED <<enabled, nano, dialer, sinceProbe, once, prod, executed, outcome>>
  BY DEF ProbeEnds, ProbeFails, FullAnswer, CutAnswer, Store, environment, producer
<1>5. sent' \subseteq Creates \X Ways
  BY TakeSends DEF ProbeEnds, ProbeFails, FullAnswer, CutAnswer, Store, Ways
<1>6. \A d \in Callers : pc'[d] # "probing"
  BY <1>1, <1>2
<1>7. \A d \in Callers : pc'[d] = "starting" <=> pc[d] = "starting"
  BY <1>1, <1>2
<1>8. \A d \in Callers : pc'[d] \in {"routing", "starting", "stream"} => resolved' /\ caps'
  BY <1>1, <1>2
<1>9. pc' \in [Callers -> {"new", "probing", "routing", "starting", "done"} \cup Ways]
  BY <1>2 DEF Ways
<1> QED BY <1>3, <1>4, <1>5, <1>6, <1>7, <1>8, <1>9

LEMMA LookUpKeeps ==
    ASSUME RoutingInv, NEW c \in Callers, LookUp(c)
    PROVE  RoutingInv'
<1>1. pc[c] = "new" /\ UNCHANGED <<enabled, nano, caps, once, prod, executed, outcome>>
  BY DEF LookUp, environment, detection, producer
<1>2. CASE Elsewhere /\ Take(c, "rest") /\ UNCHANGED detection
  BY <1>1, <1>2, StepAside, TakeSends DEF Take, detection, Ways, RoutingInv, TypeOK
<1>3. CASE resolved /\ caps /\ Goto(c, "routing") /\ UNCHANGED <<detection, sent>>
  BY <1>1, <1>3, StepAside DEF detection, Ways, RoutingInv, TypeOK
<1>4. CASE /\ ~Elsewhere /\ ~resolved /\ resolved' = TRUE
           /\ Take(c, "rest") /\ UNCHANGED <<probing, caps, dialer, sinceProbe>>
  <2>1. ~probing
    BY <1>4 DEF Elsewhere, RoutingInv, TypeOK
  <2> QED BY <1>1, <1>4, <2>1, StepAside, TakeSends DEF Take, Ways, RoutingInv, TypeOK
<1>5. CASE /\ ~Elsewhere /\ ~resolved
           /\ dialer' = TRUE /\ probing' = TRUE /\ sinceProbe' = 0
           /\ Goto(c, "probing") /\ UNCHANGED <<resolved, caps, sent>>
  <2> USE DEF RoutingInv, TypeOK, Goto
  <2>1. ~probing /\ \A d \in Callers : pc[d] # "probing"
    BY <1>5 DEF Elsewhere
  <2>2. pc' \in [Callers -> {"new", "probing", "routing", "starting", "done"} \cup Ways]
    BY <1>5
  <2>3. \A d \in Callers : pc'[d] = "probing" <=> d = c
    BY <1>1, <1>5, <2>1
  <2>4. \A d \in Callers : /\ pc'[d] = "starting" <=> pc[d] = "starting"
                           /\ pc'[d] \in {"routing", "starting", "stream"} => pc[d] = pc'[d]
    BY <1>1, <1>5
  <2>5. sinceProbe' \in {Never} \cup 0..RetryInterval
    BY <1>5
  <2>6. \A d \in Callers : pc'[d] \in {"routing", "starting", "stream"} => resolved' /\ caps'
    BY <1>5, <2>4
  <2> QED BY <1>1, <1>5, <2>2, <2>3, <2>4, <2>5, <2>6
<1> QED BY <1>2, <1>3, <1>4, <1>5 DEF LookUp

(* The producer's start: one caller runs it.                               *)
LEMMA StartKeeps ==
    ASSUME RoutingInv, NEW k \in Creates, StartProducer(k) \/ StartEnds(k)
    PROVE  RoutingInv'
<1> USE DEF RoutingInv, TypeOK, Goto, Callers
<1>1. UNCHANGED <<enabled, nano, resolved, probing, caps, dialer, sinceProbe, sent,
                  executed, outcome>>
  BY DEF StartProducer, StartEnds, environment, detection, creates
<1>2. CASE StartProducer(k)
  <2>1. pc[k] = "routing" /\ once = "fresh" /\ once' = "running" /\ prod' = prod
    BY <1>2 DEF StartProducer
  <2>2. pc' = [pc EXCEPT ![k] = "starting"]
    BY <1>2 DEF StartProducer
  <2>3. \A d \in Callers : /\ pc'[d] = "starting" <=> d = k
                           /\ pc'[d] = "probing" <=> pc[d] = "probing"
                           /\ pc'[d] \in {"routing", "starting", "stream"} => resolved /\ caps
    BY <2>1, <2>2
  <2> QED BY <1>1, <2>1, <2>2, <2>3
<1>3. CASE StartEnds(k)
  <2>1. pc[k] = "starting" /\ once' = "done" /\ prod' \in {"none", "live", "failed"}
    BY <1>3 DEF StartEnds
  <2>2. pc' = [pc EXCEPT ![k] = "routing"]
    BY <1>3 DEF StartEnds
  <2>3. \A d \in Callers : /\ pc'[d] # "starting"
                           /\ pc'[d] = "probing" <=> pc[d] = "probing"
                           /\ pc'[d] \in {"routing", "starting", "stream"} => resolved /\ caps
    BY <2>1, <2>2
  <2> QED BY <1>1, <2>1, <2>2, <2>3
<1> QED BY <1>2, <1>3

LEMMA CreateKeeps ==
    ASSUME RoutingInv, NEW k \in Creates, Uncarried(k) \/ UseProducer(k) \/ Answers(k)
    PROVE  RoutingInv'
<1> USE DEF RoutingInv, TypeOK, Callers, Ways
<1>1. UNCHANGED <<enabled, nano, resolved, probing, caps, dialer, sinceProbe, once, prod>>
  BY DEF Uncarried, UseProducer, Answers, StreamAnswers, RestAnswers, environment,
         detection, producer
<1>2. CASE Uncarried(k) \/ UseProducer(k)
  <2>1. pc[k] = "routing" /\ UNCHANGED <<executed, outcome>>
    BY <1>2 DEF Uncarried, UseProducer
  <2>2. PICK way \in Ways : Take(k, way)
    BY <1>2 DEF Uncarried, UseProducer
  <2> QED BY <1>1, <2>1, <2>2, StepAside, TakeSends DEF Take
<1>3. CASE Answers(k)
  <2>1. pc[k] \in Ways /\ Goto(k, "done") /\ UNCHANGED <<sent, executed>>
    BY <1>3 DEF Answers, StreamAnswers, RestAnswers, Producer!Answer
  <2>2. outcome' \in [Creates -> {"none", "ok", "error"}]
    BY <1>3 DEF Answers, StreamAnswers, RestAnswers, Producer!Answer
  <2> QED BY <1>1, <2>1, <2>2, StepAside
<1> QED BY <1>2, <1>3

LEMMA StepRouting == RoutingInv /\ [Next]_vars => RoutingInv'
<1> SUFFICES ASSUME RoutingInv, [Next]_vars PROVE RoutingInv'
  OBVIOUS
<1>1. ASSUME NEW k \in Creates, StreamExecutes(k) \/ RestExecutes(k) PROVE RoutingInv'
  <2>1. UNCHANGED <<enabled, nano, resolved, probing, caps, dialer, sinceProbe, once, prod,
                    pc, sent, outcome>>
    BY <1>1 DEF StreamExecutes, RestExecutes, Producer!Execute, environment, detection,
                producer
  <2>2. executed' \in [Creates -> {"no"} \cup Ways]
    BY <1>1 DEF StreamExecutes, RestExecutes, Producer!Execute, RoutingInv, TypeOK, Ways
  <2> QED BY <2>1, <2>2 DEF RoutingInv, TypeOK
<1>2. ASSUME NEW w \in Workers, Subscribe(w) \/ RunEnds(w) \/ RunAgain(w) PROVE RoutingInv'
  <2>1. UNCHANGED <<enabled, nano, resolved, probing, caps, dialer, sinceProbe, once, prod,
                    sent, executed, outcome>>
    BY <1>2 DEF Subscribe, RunEnds, RunAgain, environment, detection, producer, creates
  <2>2. pc[w] \notin {"probing", "starting"}
    BY <1>2 DEF Subscribe, RunEnds, RunAgain
  <2>3. PICK to \in {"new", "done", "rest", "stream"} :
            Goto(w, to) /\ (to = "stream" => pc[w] = "routing")
    BY <1>2 DEF Subscribe, RunEnds, RunAgain
  <2> QED BY <2>1, <2>2, <2>3, StepAside DEF Callers, Ways, RoutingInv, TypeOK
<1>3. CASE Tick
  BY <1>3 DEF Tick, Backoff, RoutingInv, TypeOK, environment, producer, creates
<1>4. CASE UNCHANGED vars
  BY <1>4 DEF vars, environment, detection, producer, creates, RoutingInv, TypeOK
<1> QED BY <1>1, <1>2, <1>3, <1>4, LookUpKeeps, ProbeKeeps, StartKeeps, CreateKeeps
        DEF Next, Route, Callers

(* The flags and the callers' steps agree: one caller at most probes, one  *)
(* at most dials, and nobody goes to the stream without a verdict.         *)
THEOREM TypeCorrect == Spec => []TypeOK
<1>1. RoutingInv => TypeOK
  BY DEF RoutingInv
<1> QED BY <1>1, InitRouting, StepRouting, PTL DEF Spec

-----------------------------------------------------------------------------
(* A verdict, once there, is never changed: who stores one probes, and     *)
(* nobody probes beside a verdict.                                         *)
THEOREM VerdictStays == Spec => VerdictIsFinal
<1>1. RoutingInv /\ [Next]_vars => [resolved => resolved' /\ caps' = caps]_vars
  <2> SUFFICES ASSUME RoutingInv, Next, resolved PROVE resolved' /\ caps' = caps
    OBVIOUS
  <2>1. ASSUME NEW c \in Callers, LookUp(c) PROVE resolved' /\ caps' = caps
    BY <2>1 DEF LookUp, detection
  <2>2. ASSUME NEW c \in Callers, ProbeEnds(c) PROVE FALSE
    BY <2>2 DEF ProbeEnds, ProbeFails, FullAnswer, CutAnswer, Store, RoutingInv, TypeOK
  <2> QED BY <2>1, <2>2
          DEF Next, Uncarried, Route, Answers, StartProducer, StartEnds, UseProducer,
              StreamAnswers, RestAnswers, StreamExecutes, RestExecutes, Subscribe,
              RunEnds, RunAgain, Tick, detection
<1> QED BY <1>1, InitRouting, StepRouting, PTL DEF Spec, VerdictIsFinal

-----------------------------------------------------------------------------
(* A probe is made only where FALCON is enabled, a stored capability is the*)
(* gateway's own, and what went to the stream found a producer that lives. *)
StreamInv ==
    /\ probing \/ (resolved /\ caps) => enabled
    /\ caps => nano
    /\ \A k \in Creates : <<k, "stream">> \in sent =>
          resolved /\ caps /\ once = "done" /\ prod = "live"

LEMMA StepStream == RoutingInv /\ StreamInv /\ [Next]_vars => StreamInv'
<1> SUFFICES ASSUME RoutingInv, StreamInv, [Next]_vars PROVE StreamInv'
  OBVIOUS
<1> USE DEF RoutingInv, TypeOK, StreamInv
<1>1. ASSUME NEW c \in Callers, LookUp(c) PROVE StreamInv'
  <2>1. CASE UNCHANGED detection
    BY <1>1, <2>1 DEF LookUp, Take, environment, detection, producer
  <2>2. CASE ~Elsewhere /\ ~resolved
    BY <1>1, <2>2 DEF LookUp, Elsewhere, Take, environment, detection, producer
  <2> QED BY <1>1, <2>1, <2>2 DEF LookUp, detection
<1>2. ASSUME NEW c \in Callers, ProbeEnds(c) PROVE StreamInv'
  <2>1. pc[c] = "probing" /\ UNCHANGED <<enabled, nano>>
    BY <1>2 DEF ProbeEnds, ProbeFails, FullAnswer, CutAnswer, Store, environment
  <2>2. enabled /\ ~resolved /\ probing' = FALSE
    <3>1. probing
      BY <2>1
    <3>2. probing' = FALSE
      BY <1>2, Zenon DEF ProbeEnds, ProbeFails, FullAnswer, CutAnswer, Store
    <3> QED BY <3>1, <3>2
  <2>3. caps' => nano
    BY <1>2 DEF ProbeEnds, ProbeFails, FullAnswer, CutAnswer, Store
  <2>4. \A k \in Creates : <<k, "stream">> \notin sent'
    <3>1. UNCHANGED sent \/ Take(c, "rest")
      BY <1>2, Zenon DEF ProbeEnds, ProbeFails, FullAnswer, CutAnswer, Store
    <3>2. \A k \in Creates : <<k, "stream">> \notin sent
      BY <2>2
    <3>3. \A k \in Creates : <<k, "stream">> \notin ({c} \cap Creates) \X {"rest"}
      OBVIOUS
    <3>4. sent' \subseteq sent \cup (({c} \cap Creates) \X {"rest"})
      BY <3>1 DEF Take
    <3> QED BY <3>2, <3>3, <3>4, Zenon
  <2> QED BY <2>1, <2>2, <2>3, <2>4
<1>3. ASSUME NEW k \in Creates, UseProducer(k) PROVE StreamInv'
  <2>1. pc[k] = "routing" /\ once = "done" /\ resolved /\ caps
    BY <1>3 DEF UseProducer, Callers
  <2> QED BY <1>3, <2>1 DEF UseProducer, Take, environment, detection, producer
<1>4. ASSUME NEW k \in Creates, Uncarried(k) PROVE StreamInv'
  BY <1>4 DEF Uncarried, Take, environment, detection, producer
<1>5. ASSUME NEW k \in Creates, StartProducer(k) \/ StartEnds(k) PROVE StreamInv'
  <2>1. once # "done"
    BY <1>5 DEF StartProducer, StartEnds, Callers
  <2> QED BY <1>5, <2>1 DEF StartProducer, StartEnds, environment, detection, creates
<1>6. CASE UNCHANGED <<environment, detection, producer, sent>>
  BY <1>6 DEF environment, detection, producer
<1>7. CASE Tick
  BY <1>7 DEF Tick, environment, producer, creates
<1>8. ASSUME NEW k \in Creates, Answers(k) \/ StreamExecutes(k) \/ RestExecutes(k) PROVE StreamInv'
  BY <1>6, <1>8 DEF Answers, StreamAnswers, RestAnswers, StreamExecutes, RestExecutes
<1>9. ASSUME NEW w \in Workers, Subscribe(w) \/ RunEnds(w) \/ RunAgain(w) PROVE StreamInv'
  BY <1>6, <1>9 DEF Subscribe, RunEnds, RunAgain, creates
<1>10. CASE UNCHANGED vars
  BY <1>6, <1>10 DEF vars, creates
<1> QED BY <1>1, <1>2, <1>3, <1>4, <1>5, <1>7, <1>8, <1>9, <1>10 DEF Next, Route

(* No verdict errs towards the stream: where there is none, or where it is *)
(* not wanted, no create is handed to it and no worker subscribes.         *)
THEOREM StreamIsNeverGuessed == Spec => []StreamOnlyIfThere
<1>1. Init => StreamInv
  BY DEF Init, StreamInv
<1>2. RoutingInv /\ StreamInv => StreamOnlyIfThere
  BY DEF RoutingInv, TypeOK, StreamInv, StreamOnlyIfThere, Callers
<1> QED BY <1>1, <1>2, InitRouting, StepRouting, StepStream, PTL DEF Spec

-----------------------------------------------------------------------------
(* What a create has behind it: no way before it is handed over, one way   *)
(* at most ever, and only that way executes it.                            *)
OneWay(k) ==
    /\ pc[k] \notin Ways \cup {"done"} => \A w \in Ways : <<k, w>> \notin sent
    /\ \A v, w \in Ways : <<k, v>> \in sent /\ <<k, w>> \in sent => v = w
    /\ executed[k] # "no" => <<k, executed[k]>> \in sent
    /\ pc[k] # "done" => outcome[k] = "none"

CreateInv == RoutingInv /\ \A k \in Creates : OneWay(k)

LEMMA TakeOnce ==
    ASSUME CreateInv, NEW c \in Callers, NEW way \in Ways, Take(c, way),
           pc[c] \notin Ways \cup {"done"}, UNCHANGED <<executed, outcome>>
    PROVE  \A k \in Creates : OneWay(k)'
<1> SUFFICES ASSUME NEW k \in Creates PROVE OneWay(k)'
  OBVIOUS
<1>1. OneWay(k)
  BY DEF CreateInv
<1>2. CASE k = c
  BY <1>1, <1>2 DEF OneWay, Take, Goto, Callers, Ways, CreateInv, RoutingInv, TypeOK
<1>3. CASE k # c
  BY <1>1, <1>3 DEF OneWay, Take, Goto, Callers, Ways, CreateInv, RoutingInv, TypeOK
<1> QED BY <1>2, <1>3

(* A step of a caller that is not handed over: nothing of it changes.      *)
LEMMA MoveOnly ==
    ASSUME CreateInv, NEW c \in Callers, NEW to \in {"routing", "probing", "starting"},
           Goto(c, to), c \in Creates => pc[c] \notin Ways \cup {"done"},
           UNCHANGED <<sent, executed, outcome>>
    PROVE  \A k \in Creates : OneWay(k)'
BY DEF OneWay, Goto, Callers, Ways, CreateInv, RoutingInv, TypeOK

LEMMA StepCreate == CreateInv /\ [Next]_vars => CreateInv'
<1> SUFFICES ASSUME CreateInv, [Next]_vars PROVE \A k \in Creates : OneWay(k)'
  BY StepRouting DEF CreateInv
<1>1. ASSUME NEW c \in Callers, LookUp(c) PROVE \A k \in Creates : OneWay(k)'
  <2>1. pc[c] = "new" /\ UNCHANGED <<executed, outcome>>
    BY <1>1 DEF LookUp
  <2>2. CASE Take(c, "rest")
    BY <2>1, <2>2, TakeOnce DEF Ways
  <2>3. CASE Goto(c, "routing") /\ UNCHANGED sent
    BY <2>1, <2>3, MoveOnly DEF Ways
  <2>4. CASE Goto(c, "probing") /\ UNCHANGED sent
    BY <2>1, <2>4, MoveOnly DEF Ways
  <2> QED BY <1>1, <2>2, <2>3, <2>4 DEF LookUp
<1>2. ASSUME NEW c \in Callers, ProbeEnds(c) PROVE \A k \in Creates : OneWay(k)'
  <2>1. pc[c] = "probing" /\ UNCHANGED <<executed, outcome>>
    BY <1>2 DEF ProbeEnds, ProbeFails, FullAnswer, CutAnswer, Store
  <2>2. CASE Take(c, "rest")
    BY <2>1, <2>2, TakeOnce DEF Ways
  <2>3. CASE Goto(c, "routing") /\ UNCHANGED sent
    BY <2>1, <2>3, MoveOnly DEF Ways
  <2> QED BY <1>2, <2>2, <2>3 DEF ProbeEnds, ProbeFails, FullAnswer, CutAnswer, Store
<1>3. ASSUME NEW k \in Creates, Uncarried(k) \/ UseProducer(k)
      PROVE  \A j \in Creates : OneWay(j)'
  <2>1. pc[k] = "routing" /\ UNCHANGED <<executed, outcome>>
    BY <1>3 DEF Uncarried, UseProducer
  <2>2. PICK way \in Ways : Take(k, way)
    BY <1>3 DEF Uncarried, UseProducer, Ways
  <2> QED BY <2>1, <2>2, TakeOnce DEF Callers, Ways
<1>4. ASSUME NEW k \in Creates, StartProducer(k) \/ StartEnds(k)
      PROVE  \A j \in Creates : OneWay(j)'
  <2>1. pc[k] \in {"routing", "starting"} /\ UNCHANGED <<sent, executed, outcome>>
    BY <1>4 DEF StartProducer, StartEnds, creates
  <2>2. PICK to \in {"routing", "starting"} : Goto(k, to)
    BY <1>4 DEF StartProducer, StartEnds
  <2> QED BY <2>1, <2>2, MoveOnly DEF Callers, Ways
<1>5. ASSUME NEW k \in Creates, Answers(k) PROVE \A j \in Creates : OneWay(j)'
  <2>1. Goto(k, "done") /\ pc[k] \in Ways /\ UNCHANGED <<sent, executed>>
    BY <1>5 DEF Answers, StreamAnswers, RestAnswers, Producer!Answer, Ways
  <2>2. \A j \in Creates : j # k => outcome'[j] = outcome[j]
    BY <1>5 DEF Answers, StreamAnswers, RestAnswers, Producer!Answer, CreateInv, RoutingInv,
                TypeOK
  <2> QED BY <2>1, <2>2 DEF OneWay, Goto, Callers, Ways, CreateInv, RoutingInv, TypeOK
<1>6. ASSUME NEW k \in Creates, StreamExecutes(k) \/ RestExecutes(k)
      PROVE  \A j \in Creates : OneWay(j)'
  <2>1. UNCHANGED <<pc, sent, outcome>>
    BY <1>6 DEF StreamExecutes, RestExecutes, Producer!Execute
  <2>2. PICK w \in Ways : <<k, w>> \in sent /\ executed' = [executed EXCEPT ![k] = w]
    BY <1>6 DEF StreamExecutes, RestExecutes, Producer!Execute, Ways
  <2> QED BY <2>1, <2>2 DEF OneWay, CreateInv, RoutingInv, TypeOK
<1>7. ASSUME NEW w \in Workers, Subscribe(w) \/ RunEnds(w) \/ RunAgain(w)
      PROVE  \A k \in Creates : OneWay(k)'
  <2>1. UNCHANGED <<sent, executed, outcome>> /\ \A k \in Creates : pc'[k] = pc[k]
    BY <1>7 DEF Subscribe, RunEnds, RunAgain, creates, Goto, CreateInv, RoutingInv, TypeOK,
                Callers
  <2> QED BY <2>1 DEF OneWay, CreateInv
<1>8. CASE Tick
  BY <1>8 DEF Tick, creates, OneWay, CreateInv
<1>9. CASE UNCHANGED vars
  BY <1>9 DEF vars, creates, OneWay, CreateInv
<1> QED BY <1>1, <1>2, <1>3, <1>4, <1>5, <1>6, <1>7, <1>8, <1>9 DEF Next, Route

(* Whatever probes, dials and the stream do: a create is carried by one    *)
(* way at most, and is told "ok" only when the gateway has it.             *)
THEOREM RoutingKeepsContract == Spec => KeepsContract
<1>1. Init => CreateInv /\ Contract!Init
  BY InitRouting DEF Init, CreateInv, OneWay, Contract!Init, Callers
<1>2. CreateInv /\ [Next]_vars => [Contract!Next]_<<outcome, executed>>
  <2> SUFFICES ASSUME CreateInv, [Next]_vars
               PROVE  Contract!Next \/ UNCHANGED <<outcome, executed>>
    OBVIOUS
  <2>1. ASSUME NEW k \in Creates, StreamAnswers(k) PROVE Contract!Next
    BY <2>1 DEF StreamAnswers, Producer!Answer, Contract!Next, Contract!Answer
  <2>2. ASSUME NEW k \in Creates, RestAnswers(k) PROVE Contract!Next
    <3>1. outcome[k] = "none"
      BY <2>2 DEF RestAnswers, CreateInv, OneWay
    <3>2. PICK told \in {"ok", "error"} :
              /\ told = "ok" => executed[k] # "no"
              /\ outcome' = [outcome EXCEPT ![k] = told]
      BY <2>2 DEF RestAnswers
    <3> QED BY <2>2, <3>1, <3>2 DEF RestAnswers, Contract!Next, Contract!Answer
  <2>3. ASSUME NEW k \in Creates, StreamExecutes(k) PROVE Contract!Next
    BY <2>3 DEF StreamExecutes, Producer!Execute, Contract!Next, Contract!Execute, Ways
  <2>4. ASSUME NEW k \in Creates, RestExecutes(k)
        PROVE  Contract!Next \/ UNCHANGED <<outcome, executed>>
    <3>1. executed[k] \in {"no", "rest"}
      BY <2>4 DEF RestExecutes, CreateInv, OneWay, RoutingInv, TypeOK, Ways
    <3>2. CASE executed[k] = "no"
      BY <2>4, <3>2 DEF RestExecutes, Contract!Next, Contract!Execute, Ways
    <3>3. CASE executed[k] = "rest"
      BY <2>4, <3>3 DEF RestExecutes, CreateInv, RoutingInv, TypeOK
    <3> QED BY <3>1, <3>2, <3>3
  <2>5. ASSUME NEW c \in Callers, LookUp(c) \/ ProbeEnds(c)
        PROVE  UNCHANGED <<outcome, executed>>
    BY <2>5 DEF LookUp, ProbeEnds, ProbeFails, FullAnswer, CutAnswer, Store
  <2>6. ASSUME NEW k \in Creates, Uncarried(k) \/ Route(k) PROVE UNCHANGED <<outcome, executed>>
    BY <2>6 DEF Uncarried, Route, StartProducer, StartEnds, UseProducer, creates
  <2>7. ASSUME NEW w \in Workers, Subscribe(w) \/ RunEnds(w) \/ RunAgain(w)
        PROVE  UNCHANGED <<outcome, executed>>
    BY <2>7 DEF Subscribe, RunEnds, RunAgain, creates
  <2>8. CASE Tick \/ UNCHANGED vars
    BY <2>8 DEF Tick, vars, creates
  <2> QED BY <2>1, <2>2, <2>3, <2>4, <2>5, <2>6, <2>7, <2>8 DEF Next, Answers
<1> QED BY <1>1, <1>2, StepCreate, PTL DEF Spec, KeepsContract, Contract!Spec

(* What follows for whoever creates: once executed, a create stays with    *)
(* its way, once told, its caller is told nothing else, and "ok" is true.  *)
ContractTyped ==
    /\ outcome \in [Creates -> {"none", "ok", "error"}]
    /\ executed \in [Creates -> Ways \cup {"no"}]

THEOREM CreatesHappenOnce == Spec => []Contract!OkIsTrue /\ Contract!NothingTwice
<1>0. "no" \notin Ways
  BY DEF Ways
<1>1. Contract!Init => ContractTyped /\ Contract!OkIsTrue
  BY DEF Contract!Init, ContractTyped, Contract!OkIsTrue
<1>2. ContractTyped /\ Contract!OkIsTrue /\ [Contract!Next]_<<outcome, executed>> =>
          ContractTyped' /\ Contract!OkIsTrue' /\ [Contract!Settled]_<<outcome, executed>>
  <2> SUFFICES ASSUME ContractTyped, Contract!OkIsTrue, [Contract!Next]_<<outcome, executed>>
               PROVE  ContractTyped' /\ Contract!OkIsTrue' /\ [Contract!Settled]_<<outcome, executed>>
    OBVIOUS
  <2> USE DEF ContractTyped, Contract!OkIsTrue, Contract!Settled
  <2>1. ASSUME NEW k \in Creates, Contract!Execute(k)
        PROVE  ContractTyped' /\ Contract!OkIsTrue' /\ Contract!Settled
    BY <1>0, <2>1 DEF Contract!Execute
  <2>2. ASSUME NEW k \in Creates, NEW told \in {"ok", "error"}, Contract!Answer(k, told)
        PROVE  ContractTyped' /\ Contract!OkIsTrue' /\ Contract!Settled
    BY <2>2 DEF Contract!Answer
  <2>3. CASE UNCHANGED <<outcome, executed>>
    BY <2>3
  <2> QED BY <2>1, <2>2, <2>3 DEF Contract!Next
<1>3. Contract!Spec => []Contract!OkIsTrue /\ Contract!NothingTwice
  BY <1>1, <1>2, PTL DEF Contract!Spec, Contract!NothingTwice
<1> QED BY <1>3, RoutingKeepsContract, PTL DEF KeepsContract
=============================================================================
