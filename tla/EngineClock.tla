---------------------------- MODULE EngineClock -----------------------------
(***************************************************************************)
(* EngineClock of engineclock.go: callers sleep on, pin and reset the      *)
(* engine's clock.  A request to the engine is made under the gate; the    *)
(* local reading is published under mu, and read by anyone at any time.    *)
(*                                                                         *)
(* Only the holder of the gate writes the reading, so locking the gate and *)
(* checking the reading under it are one step.  After is a Sleep on a      *)
(* goroutine of its own whose failure ends the program.                    *)
(***************************************************************************)
EXTENDS Integers, FiniteSets

CONSTANTS
    Callers,
    Durations,      \* what callers sleep for
    Instants,       \* what callers pin to
    MaxTime         \* bound: the last instant of real time

Live == -1
Nobody == "nobody"

ASSUME ClockAssumption ==
    /\ IsFiniteSet(Callers) /\ Nobody \notin Callers
    /\ Durations \subseteq Nat \ {0} /\ Instants \subseteq Nat
    /\ MaxTime \in Nat

VARIABLES
    pinned, at,     \* the local reading
    engine,         \* the instant the engine is pinned to, or Live
    live,           \* real time
    gate,           \* who holds the gate
    pc, op, target, \* each caller's step, operation and instant
    began, span,    \* the reading from which each sleep set out, its duration
    lost            \* the engine did what the client was told had failed

reading == <<pinned, at>>
callers == <<pc, op, target, began, span>>
vars == <<reading, engine, live, gate, callers, lost>>

Now == IF pinned THEN at ELSE live

Init ==
    /\ pinned = FALSE /\ at = 0 /\ engine = Live /\ live = 0
    /\ gate = Nobody
    /\ pc = [c \in Callers |-> "idle"]
    /\ op = [c \in Callers |-> "none"]
    /\ target = [c \in Callers |-> 0]
    /\ began = [c \in Callers |-> 0]
    /\ span = [c \in Callers |-> 0]
    /\ lost = FALSE

Begin(c, what, d, from) ==
    /\ pc[c] = "idle"
    /\ pc' = [pc EXCEPT ![c] = "gating"]
    /\ op' = [op EXCEPT ![c] = what]
    /\ target' = [target EXCEPT ![c] = from + d]
    /\ began' = [began EXCEPT ![c] = from]
    /\ span' = [span EXCEPT ![c] = d]
    /\ UNCHANGED <<reading, engine, live, gate, lost>>

(* Sleep fixes the instant to wake at before it waits for the gate.        *)
Sleep(c) == \E d \in Durations : Begin(c, "sleep", d, Now)
PinTo(c) == \E t \in Instants : Begin(c, "pin", t, 0)
Reset(c) == Begin(c, "reset", 0, 0)

(* Fault: a pin is always sent.                                            *)
NeverPast(c) == FALSE
(* The clock already sits at or past the instant.                          *)
AlreadyPast(c) == op[c] # "reset" /\ pinned /\ target[c] <= at

(* A caller that leaves forgets its locals.                                *)
Leave(c) ==
    /\ gate' = Nobody
    /\ pc' = [pc EXCEPT ![c] = "idle"]
    /\ op' = [op EXCEPT ![c] = "none"]
    /\ target' = [target EXCEPT ![c] = 0]
    /\ began' = [began EXCEPT ![c] = 0]
    /\ span' = [span EXCEPT ![c] = 0]

(* Fault: a sleep derives its instant when it has the gate.                *)
EnterGateSumming(c) ==
    /\ pc[c] = "gating" /\ gate = Nobody
    /\ gate' = c /\ pc' = [pc EXCEPT ![c] = "requesting"]
    /\ target' = [target EXCEPT ![c] = IF op[c] = "sleep" THEN Now + span[c] ELSE @]
    /\ UNCHANGED <<op, began, span, reading, engine, live, lost>>

EnterGate(c) ==
    /\ pc[c] = "gating" /\ gate = Nobody
    /\ \/ AlreadyPast(c) /\ Leave(c)
       \/ /\ ~AlreadyPast(c)
          /\ gate' = c /\ pc' = [pc EXCEPT ![c] = "requesting"]
          /\ UNCHANGED <<op, target, began, span>>
    /\ UNCHANGED <<reading, engine, live, lost>>

(* PinAt or ResetToLive is executed.                                       *)
EngineExecutes(c) ==
    /\ pc[c] = "requesting"
    /\ engine' = IF op[c] = "reset" THEN Live ELSE target[c]
    /\ pc' = [pc EXCEPT ![c] = "executed"]
    /\ UNCHANGED <<reading, live, gate, op, target, began, span, lost>>

(* Fault: a refused request keeps the gate.                                *)
RefusedKeepsGate(c) ==
    /\ pc[c] = "requesting"
    /\ pc' = [pc EXCEPT ![c] = "idle"]
    /\ UNCHANGED <<reading, engine, live, gate, op, target, began, span, lost>>

Refused(c) ==
    /\ pc[c] = "requesting"
    /\ Leave(c)
    /\ UNCHANGED <<reading, engine, live, lost>>

(* The request was executed and its answer lost: an error all the same.    *)
AnswerLost(c) ==
    /\ pc[c] = "executed"
    /\ Leave(c) /\ lost' = TRUE
    /\ UNCHANGED <<reading, engine, live>>

(* Fault: the reading is never moved back.                                 *)
PublishForward(c) ==
    /\ pc[c] = "executed"
    /\ pinned' = (op[c] # "reset")
    /\ at' = IF op[c] = "reset" THEN 0 ELSE IF target[c] >= Now THEN target[c] ELSE Now
    /\ lost' = FALSE
    /\ Leave(c)
    /\ UNCHANGED <<engine, live>>

(* The accepted instant is published, and the gate released.               *)
Publish(c) ==
    /\ pc[c] = "executed"
    /\ pinned' = (op[c] # "reset")
    /\ at' = target[c]
    /\ lost' = FALSE
    /\ Leave(c)
    /\ UNCHANGED <<engine, live>>

Tick ==
    /\ live < MaxTime
    /\ live' = live + 1
    /\ UNCHANGED <<reading, engine, gate, callers, lost>>

Exchange(c) == EngineExecutes(c) \/ Refused(c) \/ AnswerLost(c) \/ Publish(c)
Proceed(c) == EnterGate(c) \/ Exchange(c)

Next ==
    \/ \E c \in Callers : Sleep(c) \/ PinTo(c) \/ Reset(c) \/ Proceed(c)
    \/ Tick

Spec == Init /\ [][Next]_vars

(* Callers are scheduled, and sync.Mutex hands the gate to everyone who    *)
(* waits for it (its starvation mode).                                     *)
Fairness == \A c \in Callers : SF_vars(EnterGate(c))

(* Requests to the engine end; nothing but their contexts bounds them.     *)
RequestsEnd == \A c \in Callers : WF_vars(Exchange(c))

FairSpec == Spec /\ Fairness

-----------------------------------------------------------------------------
TypeOK ==
    /\ pinned \in BOOLEAN /\ at \in Nat /\ live \in 0..MaxTime
    /\ engine \in Nat \cup {Live}
    /\ gate \in Callers \cup {Nobody}
    /\ pc \in [Callers -> {"idle", "gating", "requesting", "executed"}]
    /\ op \in [Callers -> {"none", "sleep", "pin", "reset"}]
    /\ target \in [Callers -> Nat] /\ began \in [Callers -> Nat]
    /\ span \in [Callers -> Nat]
    /\ lost \in BOOLEAN
    /\ \A c \in Callers : pc[c] \in {"requesting", "executed"} <=> gate = c

(* "the SDK and the engine have to agree on the time" (PinTo): whenever no *)
(* request is being made, what the clock reports is what the engine has,   *)
(* unless the answer to the latest executed request was lost.              *)
ReadingsAgree ==
    gate = Nobody /\ ~lost =>
        /\ pinned = (engine # Live)
        /\ pinned => at = engine

(* Once pinned, the clock goes back only by a reset, however sleeps and    *)
(* pins that set out from older readings overtake each other.              *)
PinnedIsMonotone == [][pinned /\ pinned' => at' >= at]_vars

(* "waits that overlap settle at a single instant instead of summing"      *)
(* (EngineClock): a wait moves the clock to its own duration beyond the    *)
(* reading it began with, or leaves it alone.                              *)
WaitsDoNotSum ==
    [][\A c \in Callers :
          op[c] = "sleep" /\ reading' # reading /\ pc'[c] # pc[c] =>
              at' = began[c] + span[c]]_vars

(* "Waits never move the clock backwards" (PinTo), "even when the          *)
(* round-trip outlasts the advance it asked for" (engineclock_test.go).    *)
WaitsGoForward ==
    [][\A c \in Callers :
          op[c] = "sleep" /\ pc[c] = "executed" /\ pc'[c] = "idle" => Now' >= Now]_vars
=============================================================================
