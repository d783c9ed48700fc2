--------------------------- MODULE FalconRouting ----------------------------
(***************************************************************************)
(* The choice between the command stream and REST (falcon.go, JobWorker.Run*)
(* of worker.go, Detect of internal/falcon/falcon.go): creates and workers *)
(* share the verdict of one topology probe, made outside falconMu, and     *)
(* creates share one producer, started under falconProdOnce.               *)
(*                                                                         *)
(* The producer is its contract, which FalconProducer implements.  A body  *)
(* the stream cannot carry is a choice of its own in each call.  The SDK's *)
(* clock goes forward.                                                     *)
(***************************************************************************)
EXTENDS Integers, FiniteSets

CONSTANTS
    Creates,        \* calls of CreateProcessInstance
    Workers,        \* job workers, each of which is run again and again
    RetryInterval   \* falconProbeRetryInterval

ASSUME RoutingAssumption ==
    /\ Creates \cap Workers = {}
    /\ RetryInterval \in Nat \ {0}

VARIABLES
    enabled,        \* FalconEnabled
    nano,           \* the gateway is a nanobpmn gateway
    resolved, probing, caps, dialer,
    sinceProbe,     \* age of falconLastProbe up to RetryInterval, or Never
    once, prod,     \* falconProdOnce and what it left
    pc,
    sent,           \* the ways each create was handed to
    executed,       \* the way in which the gateway got it
    outcome         \* what its caller was told

environment == <<enabled, nano>>
detection == <<resolved, probing, caps, dialer, sinceProbe>>
producer == <<once, prod>>
creates == <<sent, executed, outcome>>
vars == <<environment, detection, producer, pc, creates>>

Callers == Creates \cup Workers
Ways == {"stream", "rest"}
Never == -1

Producer == INSTANCE CreateContract
              WITH Ways <- {"stream"}, NoWay <- "no", answer <- outcome
Contract == INSTANCE CreateContract WITH NoWay <- "no", answer <- outcome

Init ==
    /\ enabled \in BOOLEAN /\ nano \in BOOLEAN
    /\ resolved = FALSE /\ probing = FALSE /\ caps = FALSE
    /\ dialer = FALSE /\ sinceProbe = Never
    /\ once = "fresh" /\ prod = "none"
    /\ pc = [c \in Callers |-> "new"]
    /\ sent = {}
    /\ executed = [k \in Creates |-> "no"]
    /\ outcome = [k \in Creates |-> "none"]

-----------------------------------------------------------------------------
(* falconCaps.                                                             *)

Goto(c, step) == pc' = [pc EXCEPT ![c] = step]

(* A create is handed over; a worker polls or is subscribed.               *)
Take(c, way) ==
    /\ Goto(c, way)
    /\ sent' = sent \cup ({c} \cap Creates) \X {way}

Backoff == sinceProbe \in 0..RetryInterval - 1

(* Fault: nobody looks whether a probe is under way.                       *)
ElsewhereWithoutProbing == ~enabled \/ (resolved /\ ~caps) \/ (~resolved /\ Backoff)
(* No stream, or none yet: another caller is probing, or one has failed    *)
(* to a short time ago.                                                    *)
Elsewhere ==
    \/ ~enabled
    \/ resolved /\ ~caps
    \/ ~resolved /\ (probing \/ Backoff)

(* Fault: a caller that is turned away restarts the interval.              *)
LookUpRestartsInterval(c) ==
    /\ pc[c] = "new"
    /\ \/ Elsewhere /\ Take(c, "rest") /\ UNCHANGED <<resolved, probing, dialer>>
          /\ sinceProbe' = IF Backoff THEN 0 ELSE sinceProbe
       \/ /\ enabled /\ resolved /\ caps
          /\ Goto(c, "routing") /\ UNCHANGED <<detection, sent>>
       \/ /\ ~Elsewhere /\ ~resolved
          /\ dialer' = TRUE /\ probing' = TRUE /\ sinceProbe' = 0
          /\ Goto(c, "probing") /\ UNCHANGED <<resolved, sent>>
    /\ UNCHANGED <<environment, caps, producer, executed, outcome>>

(* Fault: callers wait while another one probes.                           *)
LookUpWaits(c) ==
    /\ pc[c] = "new" /\ ~probing
    /\ \/ Elsewhere /\ Take(c, "rest") /\ UNCHANGED detection
       \/ /\ enabled /\ resolved /\ caps
          /\ Goto(c, "routing") /\ UNCHANGED <<detection, sent>>
       \/ /\ ~Elsewhere /\ ~resolved
          /\ dialer' = TRUE /\ probing' = TRUE /\ sinceProbe' = 0
          /\ Goto(c, "probing") /\ UNCHANGED <<resolved, caps, sent>>
    /\ UNCHANGED <<environment, producer, executed, outcome>>

(* Up to the probe, in one lock region.  A dialer that cannot be built is  *)
(* a verdict; one that was built is kept.                                  *)
LookUp(c) ==
    /\ pc[c] = "new"
    /\ \/ Elsewhere /\ Take(c, "rest") /\ UNCHANGED detection
       \/ /\ enabled /\ resolved /\ caps
          /\ Goto(c, "routing") /\ UNCHANGED <<detection, sent>>
       \/ /\ ~Elsewhere /\ ~resolved /\ ~dialer
          /\ resolved' = TRUE
          /\ Take(c, "rest") /\ UNCHANGED <<probing, caps, dialer, sinceProbe>>
       \/ /\ ~Elsewhere /\ ~resolved
          /\ dialer' = TRUE /\ probing' = TRUE /\ sinceProbe' = 0
          /\ Goto(c, "probing") /\ UNCHANGED <<resolved, caps, sent>>
    /\ UNCHANGED <<environment, producer, executed, outcome>>

(* Fault: a failed probe counts as one that is still under way.            *)
KeepProbing(c) ==
    /\ pc[c] = "probing"
    /\ Take(c, "rest")
    /\ UNCHANGED <<environment, detection, producer, executed, outcome>>

(* The second lock region, after a failed probe: no connection, no answer  *)
(* in time, the caller's context ended, or a status other than 2xx.        *)
ProbeFails(c) ==
    /\ pc[c] = "probing"
    /\ probing' = FALSE
    /\ Take(c, "rest")
    /\ UNCHANGED <<environment, resolved, caps, dialer, sinceProbe, producer,
                   executed, outcome>>

(* The second lock region, after an answer that shows the gateway or not.  *)
Store(c, found) ==
    /\ pc[c] = "probing"
    /\ probing' = FALSE /\ resolved' = TRUE /\ caps' = found
    /\ IF found THEN Goto(c, "routing") /\ UNCHANGED sent ELSE Take(c, "rest")
    /\ UNCHANGED <<environment, dialer, sinceProbe, producer, executed, outcome>>

FullAnswer(c) == Store(c, nano)
(* A 2xx answer ends before its body does (the context ends, too, or the   *)
(* connection breaks): it cannot be decoded and counts as stock Camunda.   *)
CutAnswer(c) == Store(c, FALSE)

ProbeEnds(c) == ProbeFails(c) \/ FullAnswer(c) \/ CutAnswer(c)

(* Time passes for the interval since the last probe.                      *)
Tick ==
    /\ Backoff
    /\ sinceProbe' = sinceProbe + 1
    /\ UNCHANGED <<environment, resolved, probing, caps, dialer, producer, pc, creates>>

-----------------------------------------------------------------------------
(* CreateProcessInstance after falconCaps has shown the stream.            *)

(* A field the stream cannot carry, or an unknown variant.                 *)
Uncarried(k) ==
    /\ k \in Creates /\ pc[k] = "routing"
    /\ Take(k, "rest")
    /\ UNCHANGED <<environment, detection, producer, executed, outcome>>

(* falconProducer: the first runs the start, the others wait for it.       *)
StartProducer(k) ==
    /\ k \in Creates /\ pc[k] = "routing" /\ once = "fresh"
    /\ once' = "running"
    /\ Goto(k, "starting")
    /\ UNCHANGED <<environment, detection, prod, creates>>

(* Fault: a failed start leaves falconProdOnce locked.                     *)
StartEndsOrHangs(k) ==
    /\ pc[k] = "starting"
    /\ \/ once' = "done" /\ prod' = "live"
       \/ UNCHANGED once /\ prod' = "failed"
    /\ Goto(k, "routing")
    /\ UNCHANGED <<environment, detection, creates>>

StartEnds(k) ==
    /\ pc[k] = "starting"
    /\ once' = "done" /\ prod' \in {"live", "failed"}
    /\ Goto(k, "routing")
    /\ UNCHANGED <<environment, detection, creates>>

(* A failed start stays for good.                                          *)
UseProducer(k) ==
    /\ k \in Creates /\ pc[k] = "routing" /\ once = "done"
    /\ Take(k, IF prod = "live" THEN "stream" ELSE "rest")
    /\ UNCHANGED <<environment, detection, producer, executed, outcome>>

(* Fault: a create that fails on the stream is sent by REST.               *)
StreamAnswersOrRest(k) ==
    /\ k \in Creates /\ pc[k] = "stream"
    /\ \/ Producer!Answer(k, "ok") /\ Goto(k, "done") /\ UNCHANGED sent
       \/ Take(k, "rest") /\ UNCHANGED <<executed, outcome>>
    /\ UNCHANGED <<environment, detection, producer>>

(* The producer's Create returns: no error of its leads to REST.           *)
StreamAnswers(k) ==
    /\ k \in Creates /\ pc[k] = "stream"
    /\ \E told \in {"ok", "error"} : Producer!Answer(k, told)
    /\ Goto(k, "done")
    /\ UNCHANGED <<environment, detection, producer, sent>>

RestAnswers(k) ==
    /\ k \in Creates /\ pc[k] = "rest"
    /\ \E told \in {"ok", "error"} :
         /\ told = "ok" => executed[k] = "rest"
         /\ outcome' = [outcome EXCEPT ![k] = told]
    /\ Goto(k, "done")
    /\ UNCHANGED <<environment, detection, producer, sent, executed>>

(* The gateway gets a create, whether or not its caller still waits; by    *)
(* REST perhaps again, when the retry transport repeats the request.       *)
StreamExecutes(k) ==
    /\ <<k, "stream">> \in sent
    /\ Producer!Execute(k)
    /\ UNCHANGED <<environment, detection, producer, pc, sent>>

RestExecutes(k) ==
    /\ <<k, "rest">> \in sent
    /\ executed' = [executed EXCEPT ![k] = "rest"]
    /\ UNCHANGED <<environment, detection, producer, pc, sent, outcome>>

-----------------------------------------------------------------------------
(* JobWorker.Run.                                                          *)

(* A refused subscription leads to polling; runFalcon ends with the        *)
(* context, and so does a Run whose context ended before.                  *)
Subscribe(w) ==
    /\ w \in Workers /\ pc[w] = "routing"
    /\ \E next \in {"stream", "rest", "done"} : Goto(w, next)
    /\ UNCHANGED <<environment, detection, producer, creates>>

(* The context ends, in the startup delay as well.                         *)
RunEnds(w) ==
    /\ w \in Workers /\ pc[w] \in {"new", "stream", "rest"}
    /\ Goto(w, "done")
    /\ UNCHANGED <<environment, detection, producer, creates>>

RunAgain(w) ==
    /\ w \in Workers /\ pc[w] = "done"
    /\ Goto(w, "new")
    /\ UNCHANGED <<environment, detection, producer, creates>>

-----------------------------------------------------------------------------
Route(k) == StartProducer(k) \/ StartEnds(k) \/ UseProducer(k)
Answers(k) == StreamAnswers(k) \/ RestAnswers(k)

Next ==
    \/ \E c \in Callers : LookUp(c) \/ ProbeEnds(c)
    \/ \E k \in Creates : \/ Uncarried(k) \/ Route(k) \/ Answers(k)
                          \/ StreamExecutes(k) \/ RestExecutes(k)
    \/ \E w \in Workers : Subscribe(w) \/ RunEnds(w) \/ RunAgain(w)
    \/ Tick

Spec == Init /\ [][Next]_vars

(* Callers are scheduled, the dial that starts the producer or subscribes  *)
(* a worker ends (falconDialTimeout), and time passes.  Nothing is said of *)
(* the end of a probe, of a create, which may wait for a credit or for the *)
(* answer by REST as long as its context lives, or of a worker's run: the  *)
(* properties name what they need of them.                                 *)
FairSpec ==
    /\ Spec
    /\ \A c \in Callers : WF_vars(LookUp(c))
    /\ \A k \in Creates : WF_vars(Route(k))
    /\ \A w \in Workers : WF_vars(Subscribe(w))
    /\ WF_vars(Tick)

(* Workers are run again and again, and not each time cancelled before     *)
(* they have looked.                                                       *)
WorkersKeepComing ==
    \A w \in Workers : /\ SF_vars(LookUp(w)) /\ WF_vars(RunAgain(w))
                       /\ WF_vars(pc[w] # "new" /\ RunEnds(w))

-----------------------------------------------------------------------------
(* The flags agree with what callers do: one caller probes while probing   *)
(* is set and none otherwise, one dials while falconProdOnce runs, and     *)
(* nobody is on the way to the stream without a verdict that shows it.     *)
TypeOK ==
    /\ {enabled, nano, resolved, probing, caps, dialer} \subseteq BOOLEAN
    /\ sinceProbe \in {Never} \cup 0..RetryInterval
    /\ once \in {"fresh", "running", "done"} /\ prod \in {"none", "live", "failed"}
    /\ pc \in [Callers -> {"new", "probing", "routing", "starting", "done"} \cup Ways]
    /\ sent \subseteq Creates \X Ways
    /\ executed \in [Creates -> {"no"} \cup Ways]
    /\ outcome \in [Creates -> {"none", "ok", "error"}]
    /\ probing <=> \E c \in Callers : pc[c] = "probing"
    /\ \A c, d \in Callers : pc[c] = "probing" /\ pc[d] = "probing" => c = d
    /\ (once = "running") <=> \E c \in Callers : pc[c] = "starting"
    /\ \A c, d \in Callers : pc[c] = "starting" /\ pc[d] = "starting" => c = d
    /\ \A c \in Callers : pc[c] \in {"routing", "starting", "stream"} => resolved /\ caps

(* "a definitive result ... is cached for the client's lifetime": no probe *)
(* that answers late, and no second one, changes a verdict.                *)
VerdictIsFinal == [][resolved => resolved' /\ caps' = caps]_vars

(* A create is handed to one way only, and "ok" is told of executed ones:  *)
(* no failure on the stream makes the call fall back to REST.              *)
KeepsContract == Contract!Spec

(* "so concurrent callers fall back to REST immediately": though the probe *)
(* may never end, no other caller waits for it.                            *)
NobodyWaitsForProbe == \A c \in Callers : pc[c] = "new" ~> pc[c] # "new"

(* The stream is used only where it is: verdicts err towards REST, and a   *)
(* create is handed to the stream only by a producer that has started.     *)
StreamOnlyIfThere ==
    /\ \A k \in Creates : <<k, "stream">> \in sent => enabled /\ nano /\ prod = "live"
    /\ \A w \in Workers : pc[w] = "stream" => enabled /\ nano

(* A create returns if the way that carries it answers and a probe of its  *)
(* own ends, whatever becomes of the others' probes and creates: also if   *)
(* it waits for another one to start the producer, and the start fails.    *)
CallsReturn ==
    \A k \in Creates :
        WF_vars(ProbeEnds(k)) /\ WF_vars(Answers(k)) => <>(pc[k] = "done")

(* "a transient probe failure is retried on a later call": if callers keep *)
(* coming and the gateway answers in full now and then, there is a verdict *)
(* in the end, however many are turned away within the interval after a    *)
(* failure.                                                                *)
DetectionSettles ==
    WorkersKeepComing /\ SF_vars(\E c \in Callers : FullAnswer(c)) =>
        <>(resolved \/ ~enabled)

(* "because a ctx-canceled probe is treated as transient, a brief first    *)
(* deadline never permanently forces REST" (falconCaps): a verdict that a  *)
(* probe has given shows the gateway as it is.                             *)
VerdictIsTrue == resolved /\ dialer => caps = nano
=============================================================================
