---------------------------- MODULE EventualPoll ----------------------------
(***************************************************************************)
(* Poll of poll.go on an EngineClock (WithPollClock): a poller looks for   *)
(* an entity that is not yet visible, and waits between looks on the clock *)
(* that other callers move.  What it calls is a read: it misses the entity *)
(* only if it was not visible when the read began.                         *)
(***************************************************************************)
EXTENDS EngineClock

CONSTANTS
    Pollers,        \* callers that only call Poll
    Timeout, Interval,
    MaxWake         \* bound: where others sleep to and deadlines lie

ASSUME PollAssumption ==
    /\ Pollers \subseteq Callers
    /\ Timeout \in Nat \ {0} /\ Interval \in Durations
    /\ MaxWake \in Nat

VARIABLES
    visible,        \* the entity has reached secondary storage
    phase,          \* each poller's step
    deadline,
    shown,          \* the entity was visible when the present look began
    result          \* what the latest Poll returned

poll == <<phase, deadline, shown, result>>
allVars == <<vars, visible, poll>>

PollInit ==
    /\ Init
    /\ visible = FALSE
    /\ phase = [p \in Pollers |-> "out"]
    /\ deadline = [p \in Pollers |-> 0]
    /\ shown = [p \in Pollers |-> FALSE]
    /\ result = [p \in Pollers |-> "none"]

Look(p) ==
    /\ phase' = [phase EXCEPT ![p] = "looking"]
    /\ shown' = [shown EXCEPT ![p] = visible]

(* Poll returns and forgets its deadline.                                  *)
Give(p, what) ==
    /\ phase' = [phase EXCEPT ![p] = "out"]
    /\ deadline' = [deadline EXCEPT ![p] = 0]
    /\ result' = [result EXCEPT ![p] = what]

Appear ==
    /\ ~visible /\ visible' = TRUE
    /\ UNCHANGED <<vars, poll>>

Poll(p) ==
    /\ phase[p] = "out" /\ Now + Timeout <= MaxWake
    /\ deadline' = [deadline EXCEPT ![p] = Now + Timeout]
    /\ result' = [result EXCEPT ![p] = "none"]
    /\ Look(p)
    /\ UNCHANGED <<vars, visible>>

(* The call succeeds, or fails in a way that is not retried.               *)
Found(p) ==
    /\ phase[p] = "looking"
    /\ \/ visible /\ Give(p, "found")
       \/ Give(p, "error")
    /\ UNCHANGED <<vars, visible, shown>>

Missed(p) ==
    /\ phase[p] = "looking" /\ ~shown[p]
    /\ phase' = [phase EXCEPT ![p] = "missed"]
    /\ UNCHANGED <<vars, visible, deadline, shown, result>>

(* The deadline is looked at after the call.                               *)
Judge(p) ==
    /\ phase[p] = "missed"
    /\ \/ Now >= deadline[p] /\ Give(p, "timeout")
       \/ /\ Now < deadline[p]
          /\ phase' = [phase EXCEPT ![p] = "waiting"]
          /\ UNCHANGED <<deadline, result>>
    /\ UNCHANGED <<vars, visible, shown>>

(* Sleep reads the clock once more.                                        *)
Wait(p) ==
    /\ phase[p] = "waiting"
    /\ Begin(p, "sleep", Interval, Now)
    /\ phase' = [phase EXCEPT ![p] = "asleep"]
    /\ UNCHANGED <<visible, deadline, shown, result>>

(* Fault: the deadline is looked at after the wait.                        *)
AsleepThenJudged(p) ==
    /\ phase[p] = "asleep"
    /\ \/ /\ EnterGate(p) \/ EngineExecutes(p) \/ Publish(p)
          /\ IF pc'[p] # "idle" THEN UNCHANGED poll
             ELSE /\ shown' = [shown EXCEPT ![p] = visible]
                  /\ \/ Now' >= deadline[p] /\ Give(p, "timeout")
                     \/ /\ Now' < deadline[p] /\ UNCHANGED <<deadline, result>>
                        /\ phase' = [phase EXCEPT ![p] = "looking"]
       \/ (Refused(p) \/ AnswerLost(p)) /\ Give(p, "error") /\ UNCHANGED shown
    /\ UNCHANGED visible

(* The wait ends with another look, or with its error.                     *)
Asleep(p) ==
    /\ phase[p] = "asleep"
    /\ \/ /\ EnterGate(p) \/ EngineExecutes(p) \/ Publish(p)
          /\ IF pc'[p] # "idle" THEN UNCHANGED poll
                                ELSE Look(p) /\ UNCHANGED <<deadline, result>>
       \/ (Refused(p) \/ AnswerLost(p)) /\ Give(p, "error") /\ UNCHANGED shown
    /\ UNCHANGED visible

PollStep(p) == Found(p) \/ Missed(p) \/ Judge(p) \/ Wait(p) \/ Asleep(p)

Others ==
    /\ \/ \E c \in Callers \ Pollers :
            (Sleep(c) /\ target'[c] <= MaxWake) \/ PinTo(c) \/ Reset(c) \/ Proceed(c)
       \/ Tick
    /\ UNCHANGED <<visible, poll>>

PollNext == Others \/ Appear \/ \E p \in Pollers : Poll(p) \/ PollStep(p)

PollSpec == PollInit /\ [][PollNext]_allVars

(* As for the clock, and pollers are scheduled.                            *)
PollFairSpec ==
    PollSpec /\ Fairness /\ \A p \in Pollers : WF_allVars(Judge(p) \/ Wait(p))

-----------------------------------------------------------------------------
PollTypeOK ==
    /\ TypeOK /\ visible \in BOOLEAN
    /\ phase \in [Pollers -> {"out", "looking", "missed", "waiting", "asleep"}]
    /\ deadline \in [Pollers -> Nat] /\ shown \in [Pollers -> BOOLEAN]
    /\ result \in [Pollers -> {"none", "found", "timeout", "error"}]
    /\ \A p \in Pollers : phase[p] = "asleep" <=> pc[p] # "idle"

(* An entity that became visible before the last wait ended is found: Poll *)
(* does not time out on it, though the wait went past the deadline.        *)
TimeoutMeansMissing ==
    \A p \in Pollers : result[p] = "timeout" => ~shown[p]

(* Every Poll whose looks end returns, unless the clock is set back to     *)
(* real time again and again or a request to the engine never ends:        *)
(* whatever others' waits do to the clock, whatever requests fail.         *)
PollReturns ==
    \A p \in Pollers :
        /\ WF_allVars(Found(p) \/ Missed(p)) /\ RequestsEnd
        /\ <>[](\A c \in Callers : op[c] # "reset")
        => (phase[p] # "out" ~> phase[p] = "out")
=============================================================================
