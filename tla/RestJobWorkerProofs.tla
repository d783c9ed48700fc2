------------------------ MODULE RestJobWorkerProofs -------------------------
(***************************************************************************)
(* Proofs about RestJobWorker for any number of jobs and slots.  The       *)
(* contract is not inductive: that a batch fits needs the free slots,      *)
(* counted before the request, to be free still when its answer comes, and *)
(* that it does not disturb running handlers needs activations to be new.  *)
(* The fence needs every handler to hold the token of its job.             *)
(***************************************************************************)
EXTENDS RestJobWorker, FiniteSetTheorems, TLAPS

USE EngineAssumption, ConcurrencyAssumption

(* An activation that was not handed out is nobody's task.                 *)
FreshUnused ==
    \A a \in Activations : a[2] > handedOut[a[1]] => task[a] = "none"

(* Every handler has the token of its job, if the worker asked for leases. *)
HandlersAreLeased == withLease => Handling \subseteq leased

(* What is true of the tasks after every step.                             *)
TasksInv == EngineTypeOK /\ FreshUnused /\ HandlersAreLeased

(* Every handler has its slot, and the slots counted as free are free.     *)
SlotsCounted ==
    /\ Cardinality(Handling) <= inFlight
    /\ inFlight + free <= MaxConcurrent

(* Nothing runs before the loop has started or after Run has returned.     *)
QuietOutside == loop \in {"starting", "returned"} => Handling = {}

Inv == TypeOK /\ FreshUnused /\ HandlersAreLeased /\ SlotsCounted /\ QuietOutside

-----------------------------------------------------------------------------
LEMMA HandlingFinite ==
    /\ IsFiniteSet(Activations)
    /\ IsFiniteSet(Handling) /\ Cardinality(Handling) \in Nat
    /\ IsFiniteSet(Handling)' /\ Cardinality(Handling)' \in Nat
<1>1. IsFiniteSet(1..MaxActivations)
  BY FS_Interval
<1>2. IsFiniteSet(Activations)
  BY <1>1, FS_Product DEF Activations
<1> QED  BY <1>2, FS_Subset, FS_CardinalityType DEF Handling, Tasks

Batch(jobs) == {NextOf(j) : j \in jobs}

(* There are as many new activations as jobs.                              *)
LEMMA BatchCardinality ==
    ASSUME NEW jobs \in SUBSET Jobs
    PROVE  IsFiniteSet(Batch(jobs)) /\ Cardinality(Batch(jobs)) <= Cardinality(jobs)
<1> DEFINE f == [j \in jobs |-> NextOf(j)]
<1>1. f \in Surjection(jobs, Batch(jobs))
  BY DEF Batch, Surjection
<1>2. IsFiniteSet(jobs)
  BY FS_Subset
<1> HIDE DEF f
<1> QED  BY <1>1, <1>2, FS_Surjection

(* What the engine's answer does to the state.                             *)
LEMMA ActivateEffect ==
    ASSUME TasksInv, NEW jobs \in SUBSET Activatable,
           NEW tokens \in SUBSET jobs, NEW status \in Statuses,
           Activate(jobs, tokens, status), status \in {"handling", "over"},
           status = "handling" /\ withLease => tokens = jobs
    PROVE  /\ TasksInv'
           /\ Batch(jobs) \subseteq Activations /\ Batch(jobs) \cap Handling = {}
           /\ status = "handling" => Handling' = Handling \cup Batch(jobs)
           /\ status = "over" => Handling' = Handling
<1> USE DEF TasksInv, EngineTypeOK, Activate, NextOf
<1>1. jobs \subseteq Jobs /\ \A j \in jobs : handedOut[j] \in Nat /\ handedOut[j] < MaxActivations
  BY DEF Activatable
<1>2. Batch(jobs) \subseteq Activations
  BY <1>1 DEF Batch, Activations
<1>3. task' = [a \in Activations |-> IF a \in Batch(jobs) THEN status ELSE task[a]]
  BY DEF Batch
<1>4. \A a \in Batch(jobs) : task[a] = "none"
  BY <1>1, <1>2 DEF Batch, FreshUnused
<1>5. EngineTypeOK'
  <2>1. handedOut' \in [Jobs -> 0..MaxActivations]
    BY <1>1
  <2>2. leased' \subseteq Activations
    BY <1>1 DEF Activations
  <2>3. task' \in [Activations -> Statuses]
    BY <1>3
  <2>4. locked' \subseteq Jobs /\ settled' \subseteq Jobs /\ {withLease, reachable}' \subseteq BOOLEAN
    BY <1>1
  <2> QED  BY <2>1, <2>2, <2>3, <2>4
<1>6. FreshUnused'
  <2> SUFFICES ASSUME NEW a \in Activations, a[2] > handedOut'[a[1]] PROVE task'[a] = "none"
    BY DEF FreshUnused
  <2>1. a[1] \in Jobs /\ a[2] \in Nat
    BY DEF Activations
  <2>2. handedOut'[a[1]] = IF a[1] \in jobs THEN handedOut[a[1]] + 1 ELSE handedOut[a[1]]
    BY <2>1
  <2>3. a \notin Batch(jobs)
    BY <1>1, <2>1, <2>2 DEF Batch
  <2>4. a[2] > handedOut[a[1]]
    BY <2>1, <2>2
  <2> QED  BY <1>3, <2>3, <2>4 DEF FreshUnused
<1>7. Batch(jobs) \cap Handling = {}
  BY <1>4 DEF Handling, Tasks
<1>8. status = "handling" => Handling' = Handling \cup Batch(jobs)
  BY <1>2, <1>3 DEF Handling, Tasks
<1>9. status = "over" => Handling' = Handling
  BY <1>2, <1>3, <1>7 DEF Handling, Tasks
<1>10. HandlersAreLeased'
  <2>1. leased \subseteq leased' /\ (withLease /\ status = "handling" => Batch(jobs) \subseteq leased')
        /\ withLease' = withLease
    BY DEF Batch
  <2> HIDE DEF TasksInv, Activate
  <2>2. HandlersAreLeased
    BY DEF TasksInv
  <2> QED  BY <1>8, <1>9, <2>1, <2>2 DEF HandlersAreLeased
<1> QED  BY <1>2, <1>5, <1>6, <1>7, <1>8, <1>9, <1>10

(* What an acknowledgement does to the state.                              *)
LEMMA AcknowledgeEffect ==
    ASSUME TasksInv, NEW a \in Activations, Acknowledge(a)
    PROVE  TasksInv' /\ a \in Handling /\ Handling' = Handling \ {a}
<1> USE DEF TasksInv, EngineTypeOK, Acknowledge, Over
<1>1. task' = [b \in Activations |-> IF b = a THEN "over" ELSE task[b]]
  OBVIOUS
<1>2. task' \in [Activations -> Statuses]
  BY <1>1 DEF Statuses
<1>3. a[1] \in Jobs
  BY DEF Activations
<1>4. locked' \subseteq Jobs /\ settled' \subseteq Jobs
  BY <1>3
<1>5. EngineTypeOK'
  BY <1>2, <1>4
<1>6. a \in Handling /\ Handling' = Handling \ {a}
  BY <1>1 DEF Handling, Tasks
<1>7. FreshUnused'
  BY <1>1, <1>6 DEF FreshUnused, Handling, Tasks
<1>8. HandlersAreLeased'
  BY <1>6 DEF HandlersAreLeased
<1> QED  BY <1>5, <1>6, <1>7, <1>8

(* What the end of a handler function does to the state.                   *)
LEMMA HandlerReturnsEffect ==
    ASSUME TasksInv, NEW a \in Activations, HandlerReturns(a)
    PROVE  TasksInv' /\ Handling' = Handling
<1>1. PICK outcome \in {"completing", "failing"} : task' = [task EXCEPT ![a] = outcome]
  BY DEF HandlerReturns, Become
<1>2. task' \in [Activations -> Statuses]
  BY <1>1 DEF TasksInv, EngineTypeOK, Statuses
<1>3. Handling' = Handling
  BY <1>1 DEF TasksInv, EngineTypeOK, HandlerReturns, Handling, Tasks
<1> QED  BY <1>1, <1>2, <1>3 DEF HandlerReturns, TasksInv, EngineTypeOK, FreshUnused,
                                 HandlersAreLeased, Handling, Tasks, engine

-----------------------------------------------------------------------------
(* Every step keeps the invariant and is a step of the contract.           *)
LEMMA InvStep == Inv /\ [Next]_vars => Inv' /\ [Contract!Next]_(Contract!vars)
<1> SUFFICES ASSUME Inv, [Next]_vars PROVE Inv' /\ [Contract!Next]_(Contract!vars)
  OBVIOUS
<1> DEFINE Goal == Inv' /\ [Contract!Next]_(Contract!vars)
<1> USE DEF Inv, TypeOK, TasksInv
<1>0. /\ MaxConcurrent \in Nat \ {0} /\ inFlight \in Nat /\ free \in Nat
      /\ Cardinality(Handling) \in Nat
  BY HandlingFinite
<1>1. ASSUME UNCHANGED <<withLease, engine, task>>
      PROVE  TasksInv' /\ Handling' = Handling
  BY <1>1 DEF engine, EngineTypeOK, FreshUnused, HandlersAreLeased, Handling, Tasks
<1>2. CASE Started \/ Top \/ Pace
  <2>1. TasksInv' /\ Handling' = Handling
    BY <1>1, <1>2 DEF Started, Top, Pace
  <2>2. /\ loop' \in {"starting", "top", "pacing", "activating", "draining", "returned"}
        /\ inFlight' = inFlight /\ free' \in 0..MaxConcurrent
        /\ inFlight + free' <= MaxConcurrent /\ cancelled' = cancelled
    BY <1>0, <1>2 DEF Started, Top, Pace, Goto, SlotsCounted
  <2>3. /\ loop' \in {"starting", "returned"} => Handling = {}
        /\ (loop' = "returned") = (loop = "returned") \/ Handling = {}
    BY <1>2 DEF Started, Top, Pace, Goto, QuietOutside
  <2>4. Inv'
    BY <2>1, <2>2, <2>3 DEF SlotsCounted, QuietOutside
  <2>5. [Contract!Next]_(Contract!vars)
    BY <1>2, <2>1, <2>3 DEF Started, Top, Pace, Goto, Contract!Next, Contract!vars, Contract!Stop
  <2> QED  BY <2>4, <2>5
<1>3. CASE Dispatch
  <2>1. PICK jobs \in SUBSET Activatable, tokens \in SUBSET Jobs :
          /\ Cardinality(jobs) <= free /\ tokens \subseteq jobs /\ LeasePresent(jobs, tokens)
          /\ Activate(jobs, IF withLease THEN tokens ELSE {}, "handling")
          /\ inFlight' = inFlight + Cardinality(jobs)
          /\ loop' = IF jobs = {} THEN "pacing" ELSE "top"
    BY <1>3 DEF Dispatch, Request, Goto
  <2>2. /\ TasksInv' /\ Handling' = Handling \cup Batch(jobs)
        /\ Batch(jobs) \subseteq Activations
    <3>1. withLease => tokens = jobs
      BY <1>3, <2>1 DEF Dispatch, LeasePresent
    <3> HIDE DEF TasksInv
    <3>2. TasksInv
      BY DEF TasksInv
    <3> QED  BY <2>1, <3>1, <3>2, ActivateEffect DEF Statuses
  <2>3. jobs \in SUBSET Jobs /\ IsFiniteSet(jobs) /\ Cardinality(jobs) \in Nat
    BY FS_Subset, FS_CardinalityType DEF Activatable
  <2>4. /\ IsFiniteSet(Batch(jobs)) /\ Cardinality(Batch(jobs)) \in Nat
        /\ Cardinality(Batch(jobs)) <= Cardinality(jobs)
    BY <2>3, BatchCardinality, FS_CardinalityType
  <2>5. Cardinality(Handling \cup Batch(jobs)) <= Cardinality(Handling) + Cardinality(jobs)
    <3>1. /\ IsFiniteSet(Handling \cap Batch(jobs))
          /\ Cardinality(Handling \cap Batch(jobs)) \in Nat
      BY <2>4, FS_Subset, FS_CardinalityType
    <3>2. Cardinality(Handling \cup Batch(jobs)) =
            Cardinality(Handling) + Cardinality(Batch(jobs)) - Cardinality(Handling \cap Batch(jobs))
      BY <2>4, HandlingFinite, FS_Union, Zenon
    <3> QED  BY <1>0, <2>3, <2>4, <3>1, <3>2
  <2>6. /\ Cardinality(Handling') <= inFlight' /\ inFlight' <= MaxConcurrent /\ inFlight' \in Nat
        /\ Cardinality(Handling') \in Nat
    BY <1>0, <2>1, <2>2, <2>3, <2>5, HandlingFinite DEF SlotsCounted
  <2>7. free' = 0 /\ cancelled' = cancelled /\ loop = "activating"
        /\ loop' \in {"pacing", "top"}
    BY <1>3, <2>1 DEF Dispatch
  <2>8. Inv'
    <3>1. inFlight' \in 0..MaxConcurrent /\ free' \in 0..MaxConcurrent
      BY <1>0, <2>6, <2>7
    <3>2. TypeOK'
      BY <2>2, <2>7, <3>1
    <3>3. SlotsCounted'
      <4>1. \A m \in Nat, n \in Nat : m <= n => m + 0 <= n
        OBVIOUS
      <4>2. inFlight' + 0 <= MaxConcurrent
        BY <1>0, <2>6, <4>1
      <4>3. inFlight' + free' <= MaxConcurrent
        BY <2>7, <4>2
      <4> QED  BY <2>6, <4>3 DEF SlotsCounted
    <3>4. QuietOutside'
      BY <2>7 DEF QuietOutside
    <3> QED  BY <2>2, <3>2, <3>3, <3>4
  <2>9. Contract!Begin(Batch(jobs))
    <3>1. Cardinality(Handling \cup Batch(jobs)) <= MaxConcurrent
      BY <1>0, <2>2, <2>6
    <3> QED  BY <2>2, <2>7, <3>1 DEF Contract!Begin, Contract!Cardinality, Cardinality
  <2> QED  BY <2>2, <2>8, <2>9 DEF Contract!Next
<1>4. CASE ActivationFails
  <2>1. TasksInv' /\ Handling' = Handling
    <3>1. CASE UNCHANGED <<withLease, engine, task>>
      BY <1>1, <3>1
    <3>2. CASE \E jobs \in SUBSET Activatable : Activate(jobs, {}, "over")
      BY <3>2, ActivateEffect DEF Statuses
    <3> QED  BY <1>4, <3>1, <3>2 DEF ActivationFails, ActivateInVain
  <2>2. /\ free' = 0 /\ inFlight' = inFlight /\ cancelled' = cancelled
        /\ loop = "activating" /\ loop' \in {"draining", "pacing"}
    BY <1>4 DEF ActivationFails, Goto
  <2>3. Inv'
    BY <1>0, <2>1, <2>2 DEF SlotsCounted, QuietOutside
  <2> QED  BY <2>1, <2>2, <2>3 DEF Contract!vars
<1>5. CASE Return
  <2>1. TasksInv' /\ Handling' = Handling
    BY <1>1, <1>5 DEF Return
  <2>2. Handling = {} /\ loop' = "returned" /\ UNCHANGED <<cancelled, inFlight, free>>
    BY <1>5 DEF Return, Goto
  <2>3. Inv'
    BY <2>1, <2>2 DEF SlotsCounted, QuietOutside
  <2> QED  BY <2>1, <2>2, <2>3 DEF Contract!Next, Contract!Stop
<1>6. CASE Cancel
  <2>1. TasksInv' /\ Handling' = Handling
    BY <1>1, <1>6 DEF Cancel
  <2> QED  BY <1>6, <2>1 DEF Cancel, SlotsCounted, QuietOutside, Contract!vars
<1>7. ASSUME NEW a \in Activations, Handle(a) PROVE Goal
  <2>1. CASE HandlerReturns(a) /\ UNCHANGED run
    <3>1. TasksInv' /\ Handling' = Handling
      BY <2>1, HandlerReturnsEffect
    <3> QED  BY <2>1, <3>1 DEF run, SlotsCounted, QuietOutside, Contract!vars
  <2>2. CASE Acknowledge(a) /\ inFlight' = inFlight - 1 /\ UNCHANGED <<loop, cancelled, free>>
    <3>1. TasksInv' /\ a \in Handling /\ Handling' = Handling \ {a}
      BY <2>2, AcknowledgeEffect
    <3>2. Cardinality(Handling') = Cardinality(Handling) - 1 /\ Cardinality(Handling') \in Nat
      BY <3>1, HandlingFinite, FS_RemoveElement
    <3>3. Inv'
      BY <1>0, <2>2, <3>1, <3>2 DEF SlotsCounted, QuietOutside
    <3>4. Contract!End(a)
      BY <2>2, <3>1 DEF Contract!End
    <3> QED  BY <3>1, <3>3, <3>4 DEF Contract!Next
  <2> QED  BY <1>7, <2>1, <2>2 DEF Handle
<1>8. CASE EngineStep /\ UNCHANGED run
  <2>1. TasksInv' /\ Handling' = Handling
    <3>1. UNCHANGED <<withLease, handedOut, leased, task>> /\ reachable' \in BOOLEAN
          /\ locked' \subseteq Jobs /\ settled' = settled
      BY <1>8 DEF EngineStep, ConnectivityChanges, LockExpires, EngineTypeOK
    <3>2. Handling' = Handling
      BY <3>1 DEF Handling, Tasks
    <3> QED  BY <3>1, <3>2 DEF EngineTypeOK, FreshUnused, HandlersAreLeased
  <2> QED  BY <1>8, <2>1 DEF run, SlotsCounted, QuietOutside, Contract!vars
<1>9. CASE UNCHANGED vars
  <2>1. TasksInv' /\ Handling' = Handling
    BY <1>1, <1>9 DEF vars
  <2> QED  BY <1>9, <2>1 DEF vars, run, SlotsCounted, QuietOutside, Contract!vars
<1> QED  BY <1>2, <1>3, <1>4, <1>5, <1>6, <1>7, <1>8, <1>9 DEF Next, Run

LEMMA InvInit == Init => Inv /\ Contract!Init
<1> SUFFICES ASSUME Init PROVE Inv /\ Contract!Init
  OBVIOUS
<1>1. Handling = {}
  BY DEF Init, EngineInit, Handling, Tasks
<1>2. Cardinality(Handling) = 0
  BY <1>1, FS_EmptySet
<1>3. EngineTypeOK
  <2>1. handedOut \in [Jobs -> 0..MaxActivations] /\ task \in [Activations -> Statuses]
    BY DEF Init, EngineInit, Statuses
  <2>2. {withLease, reachable} \subseteq BOOLEAN
    BY DEF Init, EngineInit
  <2> QED  BY <2>1, <2>2 DEF Init, EngineInit, EngineTypeOK
<1>4. TypeOK
  <2>1. 0 \in 0..MaxConcurrent
    OBVIOUS
  <2> QED  BY <1>3, <2>1 DEF Init, TypeOK
<1> QED  BY <1>1, <1>2, <1>4 DEF Init, EngineInit, Inv, FreshUnused, HandlersAreLeased, SlotsCounted, QuietOutside,
                                 Contract!Init

(* Only the acknowledgement of an activation ends it, and it is fenced     *)
(* because its batch was dispatched with all its tokens.                   *)
LEMMA FenceStep == Inv /\ [Next]_vars => [Fencing]_<<engine, task>>
<1> SUFFICES ASSUME Inv, [Next]_vars, withLease,
                    NEW a \in Tasks({"completing", "failing"}), task'[a] = "over",
                    <<locked, settled>>' # <<locked, settled>>
             PROVE  a[2] = handedOut[a[1]]
  BY Zenon DEF Fencing
<1>1. TasksInv /\ a \in Handling /\ a \in leased /\ a \in Activations
  BY DEF Inv, TypeOK, TasksInv, HandlersAreLeased, Handling, Tasks
<1>2. a \notin Handling'
  BY DEF Handling, Tasks
<1>3. ASSUME NEW jobs \in SUBSET Activatable, NEW tokens \in SUBSET jobs,
             NEW status \in {"handling", "over"}, Activate(jobs, tokens, status),
             status = "handling" /\ withLease => tokens = jobs
      PROVE  FALSE
  BY <1>1, <1>2, <1>3, ActivateEffect DEF Statuses
<1>4. CASE Run \/ Cancel
  <2>1. CASE Dispatch
    BY <1>3, <2>1 DEF Dispatch, LeasePresent
  <2>2. CASE ActivationFails
    <3>1. CASE UNCHANGED <<withLease, engine, task>>
      BY <3>1 DEF engine
    <3>2. CASE \E jobs \in SUBSET Activatable : Activate(jobs, {}, "over")
      BY <1>3, <3>2
    <3> QED  BY <2>2, <3>1, <3>2 DEF ActivationFails, ActivateInVain
  <2>3. CASE Started \/ Top \/ Pace \/ Return \/ Cancel
    BY <2>3 DEF Started, Top, Pace, Return, Cancel, engine
  <2> QED  BY <1>4, <2>1, <2>2, <2>3 DEF Run
<1>5. ASSUME NEW b \in Activations, Handle(b) PROVE a[2] = handedOut[a[1]]
  <2>1. Acknowledge(b)
    BY <1>5 DEF Handle, HandlerReturns, engine
  <2>2. a = b
    BY <1>1, <1>2, <2>1 DEF Acknowledge, Over, Handling, Tasks
  <2> QED  BY <1>1, <2>1, <2>2 DEF Acknowledge, Fenced
<1>6. CASE EngineStep
  BY <1>1, <1>2, <1>6 DEF EngineStep, ConnectivityChanges, LockExpires, Handling, Tasks
<1>7. CASE UNCHANGED vars
  BY <1>7 DEF vars, engine
<1> QED  BY <1>4, <1>5, <1>6, <1>7, Zenon DEF Next

-----------------------------------------------------------------------------
(* The types of the polling worker: above all, the in-flight counter never *)
(* goes below zero or above the limit, whatever the handlers do.           *)
THEOREM TypeCorrect == Spec => []TypeOK
<1>1. Inv => TypeOK
  BY DEF Inv
<1> QED  BY <1>1, InvInit, InvStep, PTL DEF Spec

(* The polling worker implements the worker contract, for any number of    *)
(* jobs and any limit: it never runs more handlers than allowed, starts    *)
(* none once Run has returned, and returns only when all have ended.       *)
THEOREM PollingKeepsContract == Spec => KeepsContract
BY InvInit, InvStep, PTL DEF Spec, KeepsContract, Contract!Spec

(* A worker that asked for leases never settles or releases a job that was *)
(* handed out again in the meantime, however late its handler ends.        *)
THEOREM LateAcknowledgementsAreFenced == Spec => SupersededIsFenced
BY InvInit, InvStep, FenceStep, PTL DEF Spec, SupersededIsFenced

(* In plain words: never more handlers than slots, none when Run is back.  *)
THEOREM HandlersAreCapped == Spec => []Contract!Honoured
<1>1. Inv => Contract!Honoured
  BY HandlingFinite DEF Inv, TypeOK, SlotsCounted, QuietOutside,
                        Contract!Honoured, Contract!Cardinality, Cardinality
<1> QED  BY <1>1, InvInit, InvStep, PTL DEF Spec
=============================================================================
