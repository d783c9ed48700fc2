--------------------------- MODULE RestJobWorker ----------------------------
(***************************************************************************)
(* JobWorker.runRESTPoll of worker.go: one loop that activates as many     *)
(* jobs as it has free slots and starts a handler goroutine for each, with *)
(* an atomic in-flight counter between them.                               *)
(*                                                                         *)
(* Adding a batch to inFlight is one step: only the loop adds, and reads,  *)
(* so the handlers cannot tell.  A handler's deferred calls run with the   *)
(* end of its acknowledgement.                                             *)
(***************************************************************************)
EXTENDS JobEngine

CONSTANT MaxConcurrent

ASSUME ConcurrencyAssumption == MaxConcurrent \in Nat \ {0}

VARIABLES
    loop,           \* where Run is
    cancelled,      \* Run's context
    inFlight,
    free            \* the slots computed before the activation request, else 0

run == <<loop, cancelled, inFlight, free>>
vars == <<withLease, engine, task, run>>

Init ==
    /\ EngineInit
    /\ loop = "starting" /\ cancelled = FALSE /\ inFlight = 0 /\ free = 0

Goto(step) == loop' = step

(* waitStartup: a context that ends during a delay ends Run; without a     *)
(* delay nobody looks at it before the loop does.                          *)
Started ==
    /\ loop = "starting"
    /\ \/ Goto("top")
       \/ cancelled /\ Goto("returned")
    /\ UNCHANGED <<withLease, engine, task, cancelled, inFlight, free>>

Top ==
    /\ loop = "top"
    /\ free' = IF cancelled THEN 0 ELSE MaxConcurrent - inFlight
    /\ Goto(IF cancelled THEN "draining" ELSE IF free' <= 0 THEN "pacing" ELSE "activating")
    /\ UNCHANGED <<withLease, engine, task, cancelled, inFlight>>

(* Fault: the request asks for a full window of jobs.                      *)
RequestAll(jobs) == Cardinality(jobs) <= MaxConcurrent
(* The activation request asks for free jobs.                              *)
Request(jobs) == Cardinality(jobs) <= free

(* The answer arrives with jobs that can all be handled.                   *)
Dispatch ==
    /\ loop = "activating" /\ reachable
    /\ \E jobs \in SUBSET Activatable, tokens \in SUBSET Jobs :
         /\ Request(jobs) /\ tokens \subseteq jobs /\ LeasePresent(jobs, tokens)
         /\ Activate(jobs, IF withLease THEN tokens ELSE {}, "handling")
         /\ inFlight' = inFlight + Cardinality(jobs)
         /\ Goto(IF jobs = {} THEN "pacing" ELSE "top")
    /\ free' = 0
    /\ UNCHANGED cancelled

(* ActivateJobs fails, or its answer is rejected as a whole or lost on the *)
(* way: the jobs stay locked.                                              *)
ActivationFails ==
    /\ loop = "activating"
    /\ \/ /\ reachable
          /\ \E jobs \in SUBSET Activatable : Request(jobs) /\ ActivateInVain(jobs)
       \/ UNCHANGED <<withLease, engine, task>>
    /\ Goto(IF cancelled THEN "draining" ELSE "pacing")
    /\ free' = 0
    /\ UNCHANGED <<cancelled, inFlight>>

(* sleepCtx, at capacity, without jobs or after an error.                  *)
Pace ==
    /\ loop = "pacing"
    /\ Goto(IF cancelled THEN "draining" ELSE "top")
    /\ UNCHANGED <<withLease, engine, task, cancelled, inFlight, free>>

(* Fault: the slot of a failed job is not freed.                           *)
HandleLeakingFailures(a) ==
    \/ HandlerReturns(a) /\ UNCHANGED run
    \/ /\ Acknowledge(a)
       /\ inFlight' = IF task[a] = "failing" THEN inFlight ELSE inFlight - 1
       /\ UNCHANGED <<loop, cancelled, free>>

(* The slot is freed when the acknowledgement has ended.                   *)
Handle(a) ==
    \/ HandlerReturns(a) /\ UNCHANGED run
    \/ Acknowledge(a) /\ inFlight' = inFlight - 1 /\ UNCHANGED <<loop, cancelled, free>>

(* wg.Wait, then Run returns.                                              *)
Return ==
    /\ loop = "draining" /\ Handling = {}
    /\ Goto("returned")
    /\ UNCHANGED <<withLease, engine, task, cancelled, inFlight, free>>

Cancel ==
    /\ ~cancelled
    /\ cancelled' = TRUE
    /\ UNCHANGED <<withLease, engine, task, loop, inFlight, free>>

Run == Started \/ Top \/ Dispatch \/ ActivationFails \/ Pace \/ Return

Next ==
    \/ Run \/ Cancel
    \/ \E a \in Activations : Handle(a)
    \/ EngineStep /\ UNCHANGED run

Spec == Init /\ [][Next]_vars

(* The loop and the handlers are scheduled, handlers return, and their     *)
(* acknowledgements end (the 30 s).  An activation request has no timeout, *)
(* and is sure to end only when Run's context has.                         *)
FairSpec ==
    /\ Spec
    /\ WF_vars(loop # "activating" /\ Run)
    /\ WF_vars(cancelled /\ ActivationFails)
    /\ WF_vars(\E a \in Activations : Handle(a))

-----------------------------------------------------------------------------
TypeOK ==
    /\ EngineTypeOK
    /\ loop \in {"starting", "top", "pacing", "activating", "draining", "returned"}
    /\ cancelled \in BOOLEAN
    /\ inFlight \in 0..MaxConcurrent /\ free \in 0..MaxConcurrent

(* The worker keeps the contract of WorkerContract.tla: it never runs more *)
(* handlers than WithMaxConcurrentJobs, although the free slots are counted*)
(* before the long poll, and Run returns only after every handler has      *)
(* acknowledged or tried for its 30 s.                                     *)
Contract == INSTANCE WorkerContract WITH
    Work <- Activations, Limit <- MaxConcurrent,
    active <- Handling, stopped <- (loop = "returned")
KeepsContract == Contract!Spec

(* A cancelled Run returns, even while the engine cannot be reached.       *)
RunReturns == cancelled ~> loop = "returned"

(* A slot is always given back: a worker that is at capacity asks for jobs *)
(* again sooner or later.                                                  *)
AsksAgain == loop = "pacing" ~> (loop = "activating" \/ cancelled)
=============================================================================
