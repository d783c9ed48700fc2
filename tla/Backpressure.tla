---------------------------- MODULE Backpressure ----------------------------
(***************************************************************************)
(* The adaptive backpressure gate: internal/backpressure (Manager) and the *)
(* transport that drives it for every request (internal/transport).        *)
(*                                                                         *)
(* A caller is a goroutine inside BackpressureTransport.RoundTrip.  Every  *)
(* action is one region under Manager.mu, or one step taken outside the    *)
(* lock (the backoff sleep, the wire exchange, the clock reading).         *)
(*                                                                         *)
(* The notify channel is not a variable: a caller captures it in the lock  *)
(* region that parks it, so "parked" means waiting on the open channel and *)
(* a broadcast, which closes it, turns every parked caller into a "woken"  *)
(* one.                                                                    *)
(***************************************************************************)
EXTENDS ResponseSignal, FiniteSets

CONSTANTS
    Callers,                \* goroutines that share one client
    Unlimited,              \* permitsMax == nil
    ObserveOnly,            \* TRUE in the Legacy profile
    InitialMax, Floor, SevereThreshold, MaxWaiters,
    RecoveryInterval, DecayQuiet, UnlimitedAfterHealthy,
    BackoffInitial, BackoffMax,
    MaxTime                 \* bound: the last instant the clock reaches

ASSUME CallersAssumption == IsFiniteSet(Callers)
ASSUME ProfileAssumption == ObserveOnly \in BOOLEAN
ASSUME CapAssumption ==
    /\ Unlimited \notin Int
    /\ Floor \in Nat \ {0}
    /\ InitialMax \in Nat
    /\ InitialMax >= Floor
ASSUME TuningAssumption ==
    /\ {SevereThreshold, MaxWaiters, BackoffInitial, BackoffMax} \subseteq Nat \ {0}
    /\ {RecoveryInterval, DecayQuiet, UnlimitedAfterHealthy, MaxTime} \subseteq Nat

VARIABLES
    severity, consecutive, lastEventAt, lastRecoverCheck, healthySince,
    permitsMax, permitsCurrent, waiters, backoff,
    pc,         \* where each caller is
    mode,       \* how its request passed the gate
    seen,       \* the clock reading it took before locking to record
    now

health == <<severity, consecutive, lastEventAt, lastRecoverCheck, healthySince>>
manager == <<health, permitsMax, permitsCurrent, backoff>>
vars == <<manager, waiters, pc, mode, seen, now>>

Never == -1     \* the zero time.Time
SoftFactor == 70
SevereFactor == 50

Severities == {"healthy", "soft", "severe"}
Instants == 0..MaxTime
Waiting == {"parked", "woken"}
Steps == {"idle", "top", "sleeping", "claim", "serving",
          "pressured", "healthy", "releasing"} \cup Waiting
Modes == {"none", "counted", "uncounted", "exempt"}

Smaller(a, b) == IF a <= b THEN a ELSE b
Larger(a, b) == IF a >= b THEN a ELSE b

(* math.Ceil(limit * percent / 100), never below the floor, never a raise. *)
Scale(limit, percent) ==
    Smaller(limit, Larger(Floor, (limit * percent + 99) \div 100))

(* math.Ceil(limit * 1.5). *)
Grow(limit) == (3 * limit + 1) \div 2

(* 0, then BackoffInitial doubling up to BackoffMax. *)
Escalate(delay) ==
    IF delay = 0 THEN BackoffInitial ELSE Smaller(2 * delay, BackoffMax)

Limited == permitsMax # Unlimited
Counted == {c \in Callers : mode[c] = "counted"}
Waiters == {c \in Callers : pc[c] \in Waiting}

(* Closing the notify channel wakes every caller that waits on it.         *)
Broadcast(at) ==
    [c \in Callers |-> IF at[c] = "parked" THEN "woken" ELSE at[c]]

Init ==
    /\ severity = "healthy" /\ consecutive = 0
    /\ lastEventAt = Never /\ lastRecoverCheck = Never /\ healthySince = Never
    /\ permitsMax = Unlimited /\ permitsCurrent = 0
    /\ waiters = 0 /\ backoff = 0
    /\ pc = [c \in Callers |-> "idle"]
    /\ mode = [c \in Callers |-> "none"]
    /\ seen = [c \in Callers |-> Never]
    /\ now = 0

-----------------------------------------------------------------------------
(* Acquire.                                                                *)

Granted(c, how) ==
    /\ pc' = [pc EXCEPT ![c] = "serving"]
    /\ mode' = [mode EXCEPT ![c] = how]

(* A drain operation (job completion, failure, error; user-task            *)
(* completion) skips the gate.                                             *)
SendExempt(c) ==
    /\ pc[c] = "idle"
    /\ Granted(c, "exempt")
    /\ UNCHANGED <<manager, waiters, seen, now>>

(* The first lock region of the Acquire loop.                              *)
AcquireTop(c) ==
    /\ pc[c] \in {"idle", "top"}
    /\ \/ /\ ObserveOnly \/ ~Limited
          /\ Granted(c, "uncounted")
       \/ /\ ~ObserveOnly /\ Limited
          /\ pc' = [pc EXCEPT ![c] = IF backoff > 0 THEN "sleeping" ELSE "claim"]
          /\ UNCHANGED mode
    /\ UNCHANGED <<manager, waiters, seen, now>>

BackoffElapsed(c) ==
    /\ pc[c] = "sleeping"
    /\ pc' = [pc EXCEPT ![c] = "claim"]
    /\ UNCHANGED <<manager, waiters, mode, seen, now>>

(* The second lock region: take a permit, fail on a full queue, or park.   *)
Claim(c) ==
    /\ pc[c] = "claim"
    /\ \/ /\ ~Limited
          /\ Granted(c, "uncounted")
          /\ UNCHANGED <<permitsCurrent, waiters>>
       \/ /\ Limited /\ permitsCurrent < permitsMax
          /\ permitsCurrent' = permitsCurrent + 1
          /\ Granted(c, "counted")
          /\ UNCHANGED waiters
       \/ /\ Limited /\ permitsCurrent >= permitsMax /\ waiters >= MaxWaiters
          /\ pc' = [pc EXCEPT ![c] = "idle"]
          /\ UNCHANGED <<permitsCurrent, waiters, mode>>
       \/ /\ Limited /\ permitsCurrent >= permitsMax /\ waiters < MaxWaiters
          /\ waiters' = waiters + 1
          /\ pc' = [pc EXCEPT ![c] = "parked"]
          /\ UNCHANGED <<permitsCurrent, mode>>
    /\ UNCHANGED <<health, permitsMax, backoff, seen, now>>

(* The notify channel was closed: leave the queue and start over.          *)
Resume(c) ==
    /\ pc[c] = "woken"
    /\ waiters' = waiters - 1
    /\ pc' = [pc EXCEPT ![c] = "top"]
    /\ UNCHANGED <<manager, mode, seen, now>>

(* Fault: a cancelled waiter stays counted.                                *)
CancelStillCounted(c) ==
    /\ pc[c] \in {"sleeping"} \cup Waiting
    /\ pc' = [pc EXCEPT ![c] = "idle"]
    /\ UNCHANGED <<manager, waiters, mode, seen, now>>

(* The request's context ends while it waits.  A woken caller whose        *)
(* context is done as well may take either select branch.                  *)
Cancel(c) ==
    /\ pc[c] \in {"sleeping"} \cup Waiting
    /\ waiters' = IF pc[c] \in Waiting THEN waiters - 1 ELSE waiters
    /\ pc' = [pc EXCEPT ![c] = "idle"]
    /\ UNCHANGED <<manager, mode, seen, now>>

-----------------------------------------------------------------------------
(* RoundTrip below the gate, and what it reports to the manager.           *)

(* Leaving the transport: a gated request still has its permit to release. *)
Left(c) == [pc EXCEPT ![c] = IF mode[c] = "exempt" THEN "idle" ELSE "releasing"]

Leave(c, at) ==
    /\ pc' = at
    /\ mode' = [mode EXCEPT ![c] = IF @ = "exempt" THEN "none" ELSE @]

(* The base transport failed: no signal.                                   *)
WireError(c) ==
    /\ pc[c] = "serving"
    /\ Leave(c, Left(c))
    /\ UNCHANGED <<manager, waiters, seen, now>>

(* A response came back.  A signal reads the clock before it takes the     *)
(* lock, so the reading can be old by the time it is applied.              *)
WireReply(c) ==
    /\ pc[c] = "serving"
    /\ \E status \in Statuses, body \in Bodies :
         LET signal == Observe(status, body)
         IN  \/ /\ signal = "neutral"
                /\ Leave(c, Left(c))
                /\ UNCHANGED seen
             \/ /\ signal # "neutral"
                /\ pc' = [pc EXCEPT ![c] = IF signal = "pressure" THEN "pressured"
                                                               ELSE "healthy"]
                /\ seen' = [seen EXCEPT ![c] = now]
                /\ UNCHANGED mode
    /\ UNCHANGED <<manager, waiters, now>>

(* The first signal boots the cap.                                         *)
Boot == IF ObserveOnly \/ Limited THEN permitsMax ELSE InitialMax

(* The delay once the cap is limit and the severity level.                 *)
Delay(limit, level) ==
    IF ~ObserveOnly /\ limit <= Floor /\ level = "severe" THEN Escalate(backoff) ELSE backoff

(* consecutive saturates at SevereThreshold: nothing tells more apart.     *)
RecordBackpressure(c) ==
    LET severe == consecutive' >= SevereThreshold
    IN  /\ pc[c] = "pressured"
        /\ lastEventAt' = seen[c]
        /\ consecutive' = Smaller(consecutive + 1, SevereThreshold)
        /\ healthySince' = Never
        /\ severity' = IF severe THEN "severe"
                       ELSE IF severity = "healthy" THEN "soft" ELSE severity
        /\ permitsCurrent' = IF ObserveOnly \/ Limited THEN permitsCurrent
                             ELSE Smaller(permitsCurrent, InitialMax)
        /\ permitsMax' = IF ObserveOnly THEN Boot
                         ELSE Scale(Boot, IF severe THEN SevereFactor ELSE SoftFactor)
        /\ backoff' = Delay(permitsMax', severity')
        /\ Leave(c, Left(c))
        /\ seen' = [seen EXCEPT ![c] = Never]
        /\ UNCHANGED <<lastRecoverCheck, waiters, now>>

(* Decay of the severity, one level per recovery step, once it is quiet.   *)
Decay(t) ==
    LET quiet == t - lastEventAt > DecayQuiet
    IN  /\ severity' = IF ~quiet \/ severity = "healthy" THEN severity
                       ELSE IF severity = "severe" THEN "soft" ELSE "healthy"
        /\ healthySince' = IF quiet /\ severity = "soft" THEN t ELSE healthySince
        /\ consecutive' = IF quiet /\ severity' = "healthy" THEN 0 ELSE consecutive

(* Phase 1: one more permit, up to InitialMax, while not yet healthy.      *)
AdditiveRecovery(c) ==
    /\ severity' # "healthy"
    /\ \/ /\ permitsMax < InitialMax
          /\ permitsMax' = permitsMax + 1
          /\ Leave(c, Broadcast(Left(c)))
       \/ /\ permitsMax >= InitialMax
          /\ permitsMax' = permitsMax
          /\ Leave(c, Left(c))
    /\ UNCHANGED permitsCurrent

(* Fault: the gate is lifted as soon as severity is healthy.               *)
LiftGateEarly(c, t) ==
    /\ severity' = "healthy"
    /\ permitsMax' = Unlimited
    /\ permitsCurrent' = 0
    /\ Leave(c, Broadcast(Left(c)))

(* Fault: lifting the gate keeps the permit count.                         *)
LiftGateKeepsCount(c, t) ==
    /\ severity' = "healthy"
    /\ healthySince' # Never /\ t - healthySince' >= UnlimitedAfterHealthy
    /\ permitsMax' = Unlimited
    /\ Leave(c, Broadcast(Left(c)))
    /\ UNCHANGED permitsCurrent

(* Phase 3: healthy for long enough, so the gate is lifted.                *)
LiftGate(c, t) ==
    /\ severity' = "healthy"
    /\ healthySince' # Never /\ t - healthySince' >= UnlimitedAfterHealthy
    /\ permitsMax' = Unlimited
    /\ permitsCurrent' = 0
    /\ Leave(c, Broadcast(Left(c)))

(* Phase 2: multiplicative growth, without a ceiling, while healthy.       *)
MultiplicativeGrowth(c, t) ==
    /\ severity' = "healthy"
    /\ healthySince' = Never \/ t - healthySince' < UnlimitedAfterHealthy
    /\ permitsMax' = Grow(permitsMax)
    /\ Leave(c, Broadcast(Left(c)))
    /\ UNCHANGED permitsCurrent

RecoveryDue(t) ==
    /\ ~ObserveOnly /\ Limited
    /\ lastRecoverCheck = Never \/ t - lastRecoverCheck >= RecoveryInterval

RecordHealthyHint(c) ==
    /\ pc[c] = "healthy"
    /\ backoff' = 0
    /\ \/ /\ RecoveryDue(seen[c])
          /\ lastRecoverCheck' = seen[c]
          /\ Decay(seen[c])
          /\ \/ AdditiveRecovery(c)
             \/ LiftGate(c, seen[c])
             \/ MultiplicativeGrowth(c, seen[c])
          /\ UNCHANGED lastEventAt
       \/ /\ ~RecoveryDue(seen[c])
          /\ Leave(c, Left(c))
          /\ UNCHANGED <<health, permitsMax, permitsCurrent>>
    /\ seen' = [seen EXCEPT ![c] = Never]
    /\ UNCHANGED <<waiters, now>>

(* Fault: the count may go below zero.                                     *)
ReleaseUnguarded(c) ==
    /\ pc[c] = "releasing"
    /\ permitsCurrent' = IF ObserveOnly \/ ~Limited THEN permitsCurrent
                                                   ELSE permitsCurrent - 1
    /\ pc' = Broadcast([pc EXCEPT ![c] = "idle"])
    /\ mode' = [mode EXCEPT ![c] = "none"]
    /\ UNCHANGED <<health, permitsMax, backoff, waiters, seen, now>>

(* Fault: Release does not broadcast.                                      *)
ReleaseSilently(c) ==
    /\ pc[c] = "releasing"
    /\ permitsCurrent' = IF ObserveOnly \/ ~Limited THEN permitsCurrent
                                                   ELSE Larger(permitsCurrent - 1, 0)
    /\ pc' = [pc EXCEPT ![c] = "idle"]
    /\ mode' = [mode EXCEPT ![c] = "none"]
    /\ UNCHANGED <<health, permitsMax, backoff, waiters, seen, now>>

(* The deferred Release of a gated request, whether or not its Acquire     *)
(* counted it.                                                             *)
Release(c) ==
    /\ pc[c] = "releasing"
    /\ \/ /\ ObserveOnly \/ ~Limited
          /\ pc' = [pc EXCEPT ![c] = "idle"]
          /\ UNCHANGED permitsCurrent
       \/ /\ ~ObserveOnly /\ Limited
          /\ permitsCurrent' = Larger(permitsCurrent - 1, 0)
          /\ pc' = Broadcast([pc EXCEPT ![c] = "idle"])
    /\ mode' = [mode EXCEPT ![c] = "none"]
    /\ UNCHANGED <<health, permitsMax, backoff, waiters, seen, now>>

Tick ==
    /\ now < MaxTime
    /\ now' = now + 1
    /\ UNCHANGED <<manager, waiters, pc, mode, seen>>

ExchangeEnds(c) == WireReply(c) \/ WireError(c)

Advance(c) ==
    \/ Claim(c) \/ Resume(c) \/ BackoffElapsed(c)
    \/ RecordBackpressure(c) \/ RecordHealthyHint(c) \/ Release(c)
    \/ pc[c] = "top" /\ AcquireTop(c)

Next ==
    \/ \E c \in Callers :
         \/ SendExempt(c) \/ AcquireTop(c) \/ BackoffElapsed(c) \/ Claim(c)
         \/ Resume(c) \/ Cancel(c) \/ WireError(c) \/ WireReply(c)
         \/ RecordBackpressure(c) \/ RecordHealthyHint(c) \/ Release(c)
    \/ Tick

Spec == Init /\ [][Next]_vars

(* A goroutine that is not waiting on another one is always scheduled, and *)
(* a backoff sleep ends.  No fairness on starting a request, on cancelling *)
(* one, on the clock, or on the end of an exchange, which the http.Client  *)
(* of the SDK does not bound: only the request's context might.            *)
FairSpec == Spec /\ \A c \in Callers : WF_vars(Advance(c))

-----------------------------------------------------------------------------
TypeOK ==
    /\ severity \in Severities /\ consecutive \in 0..SevereThreshold
    /\ {lastEventAt, lastRecoverCheck, healthySince} \subseteq Instants \cup {Never}
    /\ permitsMax \in {Unlimited} \cup {n \in Nat : n >= Floor}
    /\ permitsCurrent \in Nat /\ waiters \in Int /\ backoff \in Nat
    /\ pc \in [Callers -> Steps]
    /\ mode \in [Callers -> Modes]
    /\ seen \in [Callers -> Instants \cup {Never}]
    /\ now \in Instants

(* No permit is ever lost: the manager never counts more permits in use    *)
(* than there are requests that took one and have yet to release it, and   *)
(* none at all while the gate is lifted.  A leaked permit would narrow the *)
(* gate for good, and at the floor close it (Acquire, Release, the         *)
(* phase 3 reset and the boot clamp together).                             *)
NoPermitLeak ==
    /\ permitsCurrent <= Cardinality(Counted)
    /\ ~Limited => permitsCurrent = 0

(* No lost wake-up: whoever is parked on the open notify channel is there  *)
(* because no permit is free, whatever shrinking, growing, lifting and     *)
(* releasing happened since it parked.                                     *)
NoLostWakeup ==
    (\E c \in Callers : pc[c] = "parked") =>
        Limited /\ permitsCurrent >= permitsMax

(* The waiter count, which decides ErrQueueFull, is the number of          *)
(* goroutines between their waiters++ and waiters--, and never exceeds     *)
(* maxWaiters.                                                             *)
WaitersCounted ==
    /\ waiters = Cardinality(Waiters)
    /\ waiters <= MaxWaiters

(* A request is delayed by a backoff only while the manager is severe and  *)
(* at its floor: no recovery step leaves a stale delay behind.             *)
BackoffOnlyAtFloor ==
    backoff > 0 => permitsMax = Floor /\ severity = "severe"

(* The gate is lifted only after a quiet period followed by a healthy      *)
(* period, both measured from the last recorded signal, even when the      *)
(* recording callers apply clock readings out of order (maybeRecover).     *)
LiftedOnlyAfterCooldown ==
    [][Limited /\ permitsMax' = Unlimited =>
          now - lastEventAt > DecayQuiet + UnlimitedAfterHealthy]_vars

(* The Legacy profile observes but never gates: nobody waits, sleeps or is *)
(* capped, and recorded pressure is still visible as severity.             *)
LegacyNeverGates ==
    ObserveOnly =>
        /\ ~Limited /\ permitsCurrent = 0
        /\ \A c \in Callers : pc[c] \notin {"sleeping", "claim"} \cup Waiting
        /\ consecutive > 0 => severity # "healthy"

(* A parked caller is always eventually woken if the exchanges of others   *)
(* end: each Release of a counted request closes the notify channel, and   *)
(* nothing between its answer and its Release can keep it.                 *)
ParkedIsWoken ==
    (\A c \in Callers : WF_vars(ExchangeEnds(c))) =>
        \A c \in Callers : pc[c] = "parked" ~> pc[c] # "parked"
=============================================================================
