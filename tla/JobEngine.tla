----------------------------- MODULE JobEngine ------------------------------
(***************************************************************************)
(* What the polling and streaming job workers share: the engine as they    *)
(* use it (job activation, lock timeouts, leases, commands) and the life   *)
(* of a handler goroutine from its start to the end of its acknowledgement.*)
(*                                                                         *)
(* An activation <<j, n>> is the n-th hand-out of job j.  The engine is    *)
(* external.  A command with a lease token is accepted only from the       *)
(* newest activation of its job; one without a token from any.             *)
(***************************************************************************)
EXTENDS Integers, FiniteSets

CONSTANTS
    Jobs,
    MaxActivations, \* bound: times a job is handed out
    Outages         \* bound: whether the engine can become unreachable for long

ASSUME EngineAssumption ==
    /\ IsFiniteSet(Jobs)
    /\ MaxActivations \in Nat /\ Outages \in BOOLEAN

VARIABLES
    withLease,      \* the worker asked for leases
    reachable,      \* requests reach the engine
    handedOut,      \* times each job was activated
    locked,         \* jobs whose activation has not timed out
    settled,        \* jobs completed or ended by a BPMN error
    leased,         \* activations in work that carry a lease token
    task            \* what the worker does with each activation

engine == <<reachable, handedOut, locked, settled, leased>>

Activations == Jobs \X (1..MaxActivations)
Statuses == {"none", "sent", "held", "batched", "handling", "completing", "failing",
             "over"}

Tasks(statuses) == {a \in Activations : task[a] \in statuses}
Handling == Tasks({"handling", "completing", "failing"})
Become(a, status) == task' = [task EXCEPT ![a] = status]

EngineInit ==
    /\ withLease \in BOOLEAN
    /\ reachable = TRUE
    /\ handedOut = [j \in Jobs |-> 0]
    /\ locked = {} /\ settled = {} /\ leased = {}
    /\ task = [a \in Activations |-> "none"]

Activatable == {j \in Jobs \ (locked \cup settled) : handedOut[j] < MaxActivations}
NextOf(j) == <<j, handedOut[j] + 1>>

(* The engine hands out jobs, some with a token if leases were asked for   *)
(* (a cluster may mix versions).                                           *)
Activate(jobs, tokens, status) ==
    /\ handedOut' = [j \in Jobs |-> IF j \in jobs THEN handedOut[j] + 1 ELSE handedOut[j]]
    /\ locked' = locked \cup jobs
    /\ leased' = leased \cup {NextOf(j) : j \in tokens}
    /\ task' = [a \in Activations |->
                  IF \E j \in jobs : a = NextOf(j) THEN status ELSE task[a]]
    /\ UNCHANGED <<withLease, reachable, settled>>

(* The engine hands out jobs and nobody handles them: they stay locked.    *)
ActivateInVain(jobs) == Activate(jobs, {}, "over")

(* Fault: only some job of the answer is asked for its token.              *)
SomeLeasePresent(jobs, tokens) == ~withLease \/ jobs = {} \/ tokens # {}

(* requireLeasePresence for a whole activation answer.                     *)
LeasePresent(jobs, tokens) == ~withLease \/ tokens = jobs

LockExpires(j) ==
    /\ j \in locked \ settled
    /\ locked' = locked \ {j}
    /\ UNCHANGED <<withLease, reachable, handedOut, settled, leased, task>>

ConnectivityChanges ==
    /\ Outages
    /\ reachable' = ~reachable
    /\ UNCHANGED <<withLease, handedOut, locked, settled, leased, task>>

EngineStep == ConnectivityChanges \/ \E j \in Jobs : LockExpires(j)

-----------------------------------------------------------------------------
(* The handler goroutine.                                                  *)

HandlerReturns(a) ==
    /\ task[a] = "handling"
    /\ \E outcome \in {"completing", "failing"} : Become(a, outcome)
    /\ UNCHANGED <<withLease, engine>>

(* Every command sends the token its activation came with.                 *)
Fenced(a) == a \in leased => a[2] = handedOut[a[1]]

Over(tasks) ==
    /\ task' = [a \in Activations |-> IF a \in tasks THEN "over" ELSE task[a]]
    /\ leased' = leased \ tasks

(* Fault: the acknowledgement waits for an answer without a bound.         *)
AcknowledgeUnbounded(a) ==
    /\ task[a] \in {"completing", "failing"} /\ reachable
    /\ Over({a})
    /\ UNCHANGED <<withLease, reachable, handedOut, locked, settled>>

(* restAck, or the gRPC commands: the engine executes the command, or the  *)
(* 30 s of the acknowledgement, which outlives Run's context, run out.     *)
Acknowledge(a) ==
    /\ task[a] \in {"completing", "failing"}
    /\ \/ /\ reachable /\ a[1] \notin settled /\ Fenced(a)
          /\ \/ task[a] = "completing" /\ settled' = settled \cup {a[1]} /\ UNCHANGED locked
             \/ task[a] = "failing" /\ locked' = locked \ {a[1]} /\ UNCHANGED settled
       \/ UNCHANGED <<locked, settled>>
    /\ Over({a})
    /\ UNCHANGED <<withLease, reachable, handedOut>>

-----------------------------------------------------------------------------
EngineTypeOK ==
    /\ {withLease, reachable} \subseteq BOOLEAN
    /\ handedOut \in [Jobs -> 0..MaxActivations]
    /\ locked \subseteq Jobs /\ settled \subseteq Jobs
    /\ leased \subseteq Activations
    /\ task \in [Activations -> Statuses]

(* What is done for an activation that was superseded leaves its job alone.*)
Fencing ==
    withLease =>
        \A a \in Tasks({"completing", "failing"}) :
            task'[a] = "over" /\ <<locked, settled>>' # <<locked, settled>> =>
                a[2] = handedOut[a[1]]

(* The lease fences a job against a superseded activation: what the worker *)
(* does late, after the job timed out and was handed out again, cannot     *)
(* settle it or hand it out once more, whichever command it sends: each    *)
(* sends the token, and "a job arriving without a token fails the          *)
(* activation with ErrLeaseNotHonored" (WithJobLease).                     *)
SupersededIsFenced == [][Fencing]_<<engine, task>>
=============================================================================
