----------------------- MODULE StreamJobWorkerProofs ------------------------
(***************************************************************************)
(* Proofs about StreamJobWorker for any number of jobs and slots.  The     *)
(* stream loop and the sidecar poll know nothing of each other, so the     *)
(* contract rests on what only their common state says: a token in the     *)
(* semaphore for every handler, no sidecar once Run has returned, and a    *)
(* lease token for all that either of them has let through.                *)
(***************************************************************************)
EXTENDS StreamJobWorker, FiniteSetTheorems, TLAPS

USE EngineAssumption, StreamAssumption

(* An activation that was not handed out is nobody's task.                 *)
FreshUnused ==
    \A a \in Activations : a[2] > handedOut[a[1]] => task[a] = "none"

(* The semaphore holds one token for every handler.                        *)
TokensAreHandlers == slots = Cardinality(Handling)

(* Recv returns the next job after the one that is held has a slot.        *)
OneHeld == \A a, b \in Tasks({"held"}) : a = b

(* Nothing that could start a handler runs after Run has returned.         *)
QuietOutside == loop = "returned" => Handling = {} /\ sidecar = "ended"

(* Whatever was let through carries its token, if leases were asked for.   *)
Admitted == Tasks({"held", "batched"}) \cup Handling
AdmittedAreLeased == withLease => Admitted \subseteq leased

Inv ==
    /\ TypeOK /\ FreshUnused /\ TokensAreHandlers /\ OneHeld /\ OneStream
    /\ QuietOutside /\ AdmittedAreLeased

(* What is true of the tasks after every step.                             *)
TasksInv == EngineTypeOK /\ FreshUnused /\ AdmittedAreLeased

-----------------------------------------------------------------------------
LEMMA HandlingFinite ==
    /\ IsFiniteSet(Handling) /\ Cardinality(Handling) \in Nat
    /\ IsFiniteSet(Handling)' /\ Cardinality(Handling)' \in Nat
<1>1. IsFiniteSet(1..MaxActivations)
  BY FS_Interval
<1>2. IsFiniteSet(Activations)
  BY <1>1, FS_Product DEF Activations
<1> QED  BY <1>2, FS_Subset, FS_CardinalityType DEF Handling, Tasks

(* A hand-out touches no task that is in work.                             *)
LEMMA ActivateEffect ==
    ASSUME TasksInv, NEW jobs \in SUBSET Activatable,
           NEW tokens \in SUBSET jobs, NEW status \in {"sent", "batched", "over"},
           Activate(jobs, tokens, status), status = "batched" /\ withLease => tokens = jobs
    PROVE  TasksInv' /\ Handling' = Handling /\ Tasks({"held"})' = Tasks({"held"})
<1> DEFINE Batch == {NextOf(j) : j \in jobs}
<1> USE DEF TasksInv, EngineTypeOK, Activate, NextOf
<1>1. jobs \subseteq Jobs /\ \A j \in jobs : handedOut[j] \in Nat /\ handedOut[j] < MaxActivations
  BY DEF Activatable
<1>2. Batch \subseteq Activations
  BY <1>1 DEF Activations
<1>3. task' = [a \in Activations |-> IF a \in Batch THEN status ELSE task[a]]
  OBVIOUS
<1>4. \A a \in Batch : task[a] = "none"
  BY <1>1, <1>2 DEF FreshUnused
<1>5. EngineTypeOK'
  <2>1. handedOut' \in [Jobs -> 0..MaxActivations]
    BY <1>1
  <2>2. leased' \subseteq Activations
    BY <1>1 DEF Activations
  <2>3. task' \in [Activations -> Statuses]
    BY <1>3 DEF Statuses
  <2>4. locked' \subseteq Jobs /\ settled' \subseteq Jobs /\ {withLease, reachable}' \subseteq BOOLEAN
    BY <1>1
  <2> QED  BY <2>1, <2>2, <2>3, <2>4
<1>6. FreshUnused'
  <2> SUFFICES ASSUME NEW a \in Activations, a[2] > handedOut'[a[1]] PROVE task'[a] = "none"
    BY DEF FreshUnused
  <2>1. a[1] \in Jobs /\ a[2] \in Nat
    BY DEF Activations
  <2>2. handedOut'[a[1]] = IF a[1] \in jobs THEN handedOut[a[1]] + 1 ELSE handedOut[a[1]]
    BY <2>1
  <2>3. a \notin Batch
    BY <1>1, <2>1, <2>2
  <2>4. a[2] > handedOut[a[1]]
    BY <2>1, <2>2
  <2> QED  BY <1>3, <2>3, <2>4 DEF FreshUnused
<1>7. Handling' = Handling /\ Tasks({"held"})' = Tasks({"held"})
  BY <1>2, <1>3, <1>4 DEF Handling, Tasks
<1>8. Tasks({"batched"})' \subseteq Tasks({"batched"}) \cup (IF status = "batched" THEN Batch ELSE {})
  BY <1>2, <1>3 DEF Tasks
<1>9. AdmittedAreLeased'
  <2>1. Admitted = Tasks({"held"}) \cup Tasks({"batched"}) \cup Handling
        /\ Admitted' = Tasks({"held"})' \cup Tasks({"batched"})' \cup Handling'
    BY DEF Admitted, Tasks
  <2>2. leased \subseteq leased' /\ (withLease /\ status = "batched" => Batch \subseteq leased')
        /\ withLease' = withLease
    OBVIOUS
  <2> HIDE DEF Batch, TasksInv, Activate
  <2>3. AdmittedAreLeased
    BY DEF TasksInv
  <2> QED  BY <1>7, <1>8, <2>1, <2>2, <2>3 DEF AdmittedAreLeased
<1> QED  BY <1>5, <1>6, <1>7, <1>9

(* A task that changes hands keeps its token.                              *)
LEMMA BecomeEffect ==
    ASSUME TasksInv, NEW a \in Activations, NEW status \in Statuses \ {"none"},
           Become(a, status), task[a] # "none",
           withLease /\ status \in {"held", "batched", "handling", "completing", "failing"}
               => a \in leased,
           UNCHANGED <<withLease, engine>>
    PROVE  TasksInv' /\ task' = [b \in Activations |-> IF b = a THEN status ELSE task[b]]
<1> USE DEF TasksInv, EngineTypeOK, Become, engine
<1>1. task' = [b \in Activations |-> IF b = a THEN status ELSE task[b]]
  OBVIOUS
<1>2. EngineTypeOK'
  BY <1>1
<1>3. FreshUnused'
  BY <1>1 DEF FreshUnused
<1>4. AdmittedAreLeased'
  BY <1>1 DEF AdmittedAreLeased, Admitted, Handling, Tasks
<1> QED  BY <1>1, <1>2, <1>3, <1>4

(* What is given up, or acknowledged, gives its token back.                *)
LEMMA OverEffect ==
    ASSUME TasksInv, NEW tasks \in SUBSET Activations, Over(tasks),
           \A a \in tasks : task[a] # "none",
           withLease' = withLease, reachable' = reachable, handedOut' = handedOut,
           locked' \subseteq Jobs, settled' \subseteq Jobs
    PROVE  /\ TasksInv' /\ Handling' = Handling \ tasks
           /\ Tasks({"held"})' = Tasks({"held"}) \ tasks
<1> USE DEF TasksInv, EngineTypeOK, Over
<1>1. task' = [b \in Activations |-> IF b \in tasks THEN "over" ELSE task[b]]
  OBVIOUS
<1>2. task' \in [Activations -> Statuses]
  BY <1>1 DEF Statuses
<1>3. EngineTypeOK'
  BY <1>2
<1>4. FreshUnused'
  BY <1>1 DEF FreshUnused
<1>5. Handling' = Handling \ tasks /\ Tasks({"held"})' = Tasks({"held"}) \ tasks
      /\ Tasks({"batched"})' = Tasks({"batched"}) \ tasks
  BY <1>1 DEF Handling, Tasks
<1>6. Admitted' = Admitted \ tasks
  BY <1>1 DEF Admitted, Handling, Tasks
<1>7. AdmittedAreLeased'
  BY <1>6 DEF AdmittedAreLeased
<1> QED  BY <1>3, <1>4, <1>5, <1>7

(* A task nobody handles can be given up with the stream.                  *)
LEMMA LeaveEffect ==
    ASSUME Inv, NEW given \in SUBSET Tasks({"sent", "held"}), Streaming, LeaveStream(given),
           UNCHANGED engineKeeps
    PROVE  /\ TasksInv' /\ Handling' = Handling
           /\ Tasks({"held"})' = Tasks({"held"}) \ given
           /\ open' = 0 /\ loop' \in {"pausing", "draining"}
<1> DEFINE gone == Tasks({"sent"}) \cup given
<1>1. gone \in SUBSET Activations /\ gone \cap Handling = {}
      /\ \A a \in gone : task[a] # "none"
  BY DEF Tasks, Handling
<1>2. Over(gone) /\ withLease' = withLease /\ reachable' = reachable /\ handedOut' = handedOut
      /\ locked' = locked /\ settled' = settled
  BY DEF LeaveStream, engineKeeps
<1>3. TasksInv /\ locked \subseteq Jobs /\ settled \subseteq Jobs
  BY DEF Inv, TasksInv, TypeOK, EngineTypeOK
<1>4. Tasks({"held"}) \ gone = Tasks({"held"}) \ given
  BY DEF Tasks
<1>5. open' = 0 /\ loop' \in {"pausing", "draining"}
  BY DEF LeaveStream, Inv, OneStream
<1> HIDE DEF gone
<1> QED  BY <1>1, <1>2, <1>3, <1>4, <1>5, OverEffect

(* A semaphore token and a new handler.                                    *)
LEMMA BeginEffect ==
    ASSUME Inv, NEW a \in Tasks({"held", "batched"}), Become(a, "handling"), SlotFree,
           slots' = slots + 1, UNCHANGED <<withLease, engine>>
    PROVE  /\ TasksInv' /\ TokensAreHandlers' /\ Handling' = Handling \cup {a}
           /\ slots' \in 0..MaxConcurrent /\ Cardinality(Handling \cup {a}) <= MaxConcurrent
           /\ Tasks({"held"})' = Tasks({"held"}) \ {a}
<1>1. TasksInv /\ a \in Activations /\ task[a] \in {"held", "batched"}
      /\ (withLease => a \in leased)
  BY DEF Inv, TypeOK, TasksInv, AdmittedAreLeased, Admitted, Tasks
<1>2. TasksInv' /\ task' = [b \in Activations |-> IF b = a THEN "handling" ELSE task[b]]
  BY <1>1, BecomeEffect DEF Statuses
<1>3. Handling' = Handling \cup {a} /\ a \notin Handling
      /\ Tasks({"held"})' = Tasks({"held"}) \ {a}
  BY <1>1, <1>2 DEF Handling, Tasks
<1>4. Cardinality(Handling \cup {a}) = Cardinality(Handling) + 1
  BY <1>3, HandlingFinite, FS_AddElement
<1>5. slots \in Nat /\ slots < MaxConcurrent /\ slots = Cardinality(Handling)
  BY DEF Inv, TypeOK, SlotFree, TokensAreHandlers
<1> QED  BY <1>2, <1>3, <1>4, <1>5 DEF TokensAreHandlers

-----------------------------------------------------------------------------
(* Every step keeps the invariant and is a step of the contract.           *)
LEMMA InvStep == Inv /\ [Next]_vars => Inv' /\ [Contract!Next]_(Contract!vars)
<1> SUFFICES ASSUME Inv, [Next]_vars PROVE Inv' /\ [Contract!Next]_(Contract!vars)
  OBVIOUS
<1> DEFINE Goal == Inv' /\ [Contract!Next]_(Contract!vars)
           HeldSame == Tasks({"held"})' = Tasks({"held"})
           Loops == {"opening", "receiving", "holding", "pausing", "draining", "returned"}
<1>0. TasksInv /\ open \in 0..MaxStreams /\ slots \in 0..MaxConcurrent /\ loop \in Loops
      /\ cancelled \in BOOLEAN /\ (loop = "holding") = (Tasks({"held"}) # {})
      /\ sidecar \in {"polling", "dispatching", "pausing", "ended"}
      /\ TokensAreHandlers /\ OneHeld /\ OneStream /\ QuietOutside
  BY DEF Inv, TypeOK, TasksInv
<1> USE <1>0
<1>1. ASSUME UNCHANGED <<withLease, engine, task>>
      PROVE  TasksInv' /\ Handling' = Handling /\ HeldSame
  BY <1>1 DEF engine, TasksInv, EngineTypeOK, FreshUnused, AdmittedAreLeased, Admitted,
              Handling, Tasks
(* The steps that start and end no handler, with what they must respect.   *)
<1>2. ASSUME TasksInv', Handling' = Handling, slots' = slots, cancelled' \in BOOLEAN,
             sidecar' \in {"polling", "dispatching", "pausing", "ended"},
             loop' \in Loops, (loop' = "holding") = (Tasks({"held"})' # {}),
             OneHeld', OneStream', sidecar = "ended" => sidecar' = "ended",
             (loop' = "returned") = (loop = "returned")
      PROVE  Goal
  <2>1. open' \in 0..MaxStreams
    BY <1>2 DEF OneStream
  <2>2. TypeOK'
    BY <1>2, <2>1 DEF TypeOK, TasksInv
  <2>3. TokensAreHandlers' /\ QuietOutside'
    BY <1>2 DEF TokensAreHandlers, QuietOutside
  <2> QED  BY <1>2, <2>2, <2>3 DEF Inv, TasksInv, Contract!vars
(* The steps of the sidecar and the engine that leave the loop alone.      *)
<1>3. ASSUME TasksInv', Handling' = Handling, HeldSame,
             UNCHANGED <<cancelled, loop, open, slots>>,
             sidecar' \in {"polling", "dispatching", "pausing", "ended"},
             sidecar = "ended" => sidecar' = "ended"
      PROVE  Goal
  <2>1. OneHeld' /\ OneStream'
    BY <1>3 DEF OneHeld, OneStream, Streaming
  <2> QED  BY <1>2, <1>3, <2>1
<1>4. CASE Open \/ Reconnect
  <2>1. TasksInv' /\ Handling' = Handling /\ HeldSame
    BY <1>1, <1>4 DEF Open, Reconnect
  <2>2. OneHeld'
    BY <2>1 DEF OneHeld
  <2>3. /\ slots' = slots /\ cancelled' = cancelled /\ sidecar' = sidecar
        /\ loop' \in {"opening", "receiving", "pausing", "draining"}
        /\ loop \notin {"holding", "returned"}
    BY <1>4 DEF Open, Reconnect
  <2>4. OneStream'
    BY <1>4 DEF Open, Reconnect, OneStream, Streaming
  <2> QED  BY <1>2, <2>1, <2>2, <2>3, <2>4
<1>5. CASE Return
  <2>1. TasksInv' /\ Handling' = Handling /\ HeldSame
    BY <1>1, <1>5 DEF Return
  <2>2. loop = "draining" /\ loop' = "returned" /\ sidecar = "ended" /\ Handling = {}
        /\ UNCHANGED <<cancelled, open, slots, sidecar>>
    BY <1>5 DEF Return
  <2>3. OneHeld' /\ OneStream' /\ TokensAreHandlers' /\ QuietOutside'
    BY <2>1, <2>2 DEF OneHeld, OneStream, Streaming, TokensAreHandlers, QuietOutside
  <2>4. TypeOK'
    BY <2>1, <2>2 DEF TypeOK, TasksInv
  <2> QED  BY <2>1, <2>2, <2>3, <2>4 DEF Inv, TasksInv, Contract!Next, Contract!Stop
<1>6. ASSUME NEW a \in Activations, Receive(a) PROVE Goal
  <2>1. /\ loop = "receiving" /\ Streaming /\ task[a] = "sent" /\ Tasks({"held"}) = {}
        /\ UNCHANGED <<engineKeeps, cancelled, slots, sidecar>>
    BY <1>6 DEF Receive, Streaming
  <2>2. CASE /\ LeasePresent({a}, leased \cap {a})
             /\ Become(a, "held") /\ loop' = "holding" /\ UNCHANGED <<open, leased>>
    <3>1. withLease => a \in leased
      BY <2>2 DEF LeasePresent
    <3>2. TasksInv' /\ task' = [b \in Activations |-> IF b = a THEN "held" ELSE task[b]]
      BY <2>1, <2>2, <3>1, BecomeEffect DEF Statuses, engine, engineKeeps
    <3>3. Handling' = Handling /\ Tasks({"held"})' = {a}
      BY <2>1, <3>2 DEF Handling, Tasks
    <3>4. OneHeld' /\ OneStream'
      BY <2>1, <2>2, <3>3 DEF OneHeld, OneStream, Streaming
    <3> QED  BY <1>2, <2>1, <2>2, <3>2, <3>3, <3>4
  <2>3. CASE LeaveStream({a})
    <3>1. /\ TasksInv' /\ Handling' = Handling /\ Tasks({"held"})' = {}
          /\ open' = 0 /\ loop' \in {"pausing", "draining"}
      <4>1. {a} \in SUBSET Tasks({"sent", "held"})
        BY <2>1 DEF Tasks
      <4> QED  BY <2>1, <2>3, <4>1, LeaveEffect
    <3>2. OneHeld' /\ OneStream'
      BY <3>1 DEF OneHeld, OneStream, Streaming
    <3> QED  BY <1>2, <2>1, <3>1, <3>2
  <2> QED  BY <1>6, <2>2, <2>3 DEF Receive
<1>7. CASE ReceiveFails
  <2>1. loop = "receiving" /\ Streaming /\ Tasks({"held"}) = {} /\ LeaveStream({})
        /\ UNCHANGED <<engineKeeps, cancelled, slots, sidecar>>
    BY <1>7 DEF ReceiveFails, Streaming
  <2>2. /\ TasksInv' /\ Handling' = Handling /\ Tasks({"held"})' = {}
        /\ open' = 0 /\ loop' \in {"pausing", "draining"}
    BY <2>1, LeaveEffect
  <2>3. OneHeld' /\ OneStream'
    BY <2>2 DEF OneHeld, OneStream, Streaming
  <2> QED  BY <1>2, <2>1, <2>2, <2>3
<1>8. ASSUME NEW a \in Activations, StartHeld(a) PROVE Goal
  <2>1. /\ loop = "holding" /\ Streaming /\ task[a] = "held" /\ Tasks({"held"}) = {a}
        /\ UNCHANGED <<engineKeeps, cancelled, sidecar>>
    BY <1>8 DEF StartHeld, Streaming, OneHeld, Tasks
  <2>2. CASE /\ SlotFree /\ slots' = slots + 1
             /\ Become(a, "handling") /\ loop' = "receiving" /\ UNCHANGED <<open, leased>>
    <3>1. /\ TasksInv' /\ TokensAreHandlers' /\ Handling' = Handling \cup {a}
          /\ slots' \in 0..MaxConcurrent /\ Cardinality(Handling \cup {a}) <= MaxConcurrent
          /\ Tasks({"held"})' = {}
      <4>1. a \in Tasks({"held", "batched"})
        BY <2>1 DEF Tasks
      <4>2. UNCHANGED <<withLease, engine>>
        BY <2>1, <2>2 DEF engine, engineKeeps
      <4> QED  BY <2>1, <2>2, <4>1, <4>2, BeginEffect
    <3>2. OneHeld' /\ OneStream' /\ QuietOutside' /\ open' \in 0..MaxStreams
      BY <2>1, <2>2, <3>1 DEF OneHeld, OneStream, Streaming, QuietOutside
    <3>3. TypeOK'
      BY <2>1, <2>2, <3>1, <3>2 DEF TypeOK, TasksInv
    <3>4. Contract!Begin({a})
      BY <2>1, <2>2, <3>1 DEF Contract!Begin, Contract!Cardinality, Cardinality
    <3> QED  BY <3>1, <3>2, <3>3, <3>4 DEF Inv, TasksInv, Contract!Next
  <2>3. CASE LeaveStream({a}) /\ UNCHANGED slots
    <3>1. /\ TasksInv' /\ Handling' = Handling /\ Tasks({"held"})' = {}
          /\ open' = 0 /\ loop' \in {"pausing", "draining"}
      <4>1. {a} \in SUBSET Tasks({"sent", "held"})
        BY <2>1 DEF Tasks
      <4> QED  BY <2>1, <2>3, <4>1, LeaveEffect
    <3>2. OneHeld' /\ OneStream'
      BY <3>1 DEF OneHeld, OneStream, Streaming
    <3> QED  BY <1>2, <2>1, <2>3, <3>1, <3>2
  <2> QED  BY <1>8, <2>2, <2>3 DEF StartHeld
<1>9. CASE Cancel
  <2>1. TasksInv' /\ Handling' = Handling /\ HeldSame
    BY <1>1, <1>9 DEF Cancel
  <2>2. OneHeld' /\ OneStream'
    BY <1>9, <2>1 DEF Cancel, OneHeld, OneStream, Streaming
  <2> QED  BY <1>2, <1>9, <2>1, <2>2 DEF Cancel
<1>10. CASE Poll
  <2>1. PICK batch \in SUBSET Activatable, tokens \in SUBSET Jobs :
          /\ tokens \subseteq batch /\ LeasePresent(batch, tokens)
          /\ Activate(batch, IF withLease THEN tokens ELSE {}, "batched")
    BY <1>10 DEF Poll
  <2>2. TasksInv' /\ Handling' = Handling /\ HeldSame
    BY <2>1, ActivateEffect DEF LeasePresent
  <2> QED  BY <1>3, <1>10, <2>2 DEF Poll, SidecarKeeps
<1>11. CASE PollFails
  <2>1. TasksInv' /\ Handling' = Handling /\ HeldSame
    <3>1. CASE UNCHANGED <<withLease, engine, task>>
      BY <1>1, <3>1
    <3>2. CASE \E batch \in SUBSET Activatable : Activate(batch, {}, "over")
      BY <3>2, ActivateEffect
    <3> QED  BY <1>11, <3>1, <3>2 DEF PollFails, ActivateInVain
  <2> QED  BY <1>3, <1>11, <2>1 DEF PollFails, SidecarKeeps
<1>12. CASE BatchEnds
  <2>1. TasksInv' /\ Handling' = Handling /\ HeldSame
    <3>1. CASE UNCHANGED <<task, leased>>
      BY <1>1, <1>12, <3>1 DEF BatchEnds, engineKeeps, engine
    <3>2. CASE Over(Tasks({"batched"}))
      <4>1. Tasks({"batched"}) \in SUBSET Activations
            /\ \A a \in Tasks({"batched"}) : task[a] = "batched"
            /\ Tasks({"batched"}) \cap Handling = {} /\ Tasks({"batched"}) \cap Tasks({"held"}) = {}
        BY DEF Tasks, Handling
      <4>2. /\ withLease' = withLease /\ reachable' = reachable /\ handedOut' = handedOut
            /\ locked' \subseteq Jobs /\ settled' \subseteq Jobs
        BY <1>12 DEF BatchEnds, engineKeeps, TasksInv, EngineTypeOK
      <4>3. /\ TasksInv' /\ Handling' = Handling \ Tasks({"batched"})
            /\ Tasks({"held"})' = Tasks({"held"}) \ Tasks({"batched"})
        BY <3>2, <4>1, <4>2, OverEffect
      <4> QED  BY <4>1, <4>3
    <3> QED  BY <1>12, <3>1, <3>2 DEF BatchEnds
  <2> QED  BY <1>3, <1>12, <2>1 DEF BatchEnds, SidecarKeeps
<1>13. CASE PollAgain
  BY <1>1, <1>3, <1>13 DEF PollAgain, SidecarKeeps
<1>14. ASSUME NEW a \in Activations, StartBatched(a) PROVE Goal
  <2>1. /\ sidecar = "dispatching" /\ task[a] = "batched" /\ SlotFree /\ slots' = slots + 1
        /\ Become(a, "handling") /\ UNCHANGED <<withLease, engine>>
        /\ UNCHANGED <<sidecar, cancelled, loop, open>>
    BY <1>14 DEF StartBatched
  <2>2. /\ TasksInv' /\ TokensAreHandlers' /\ Handling' = Handling \cup {a}
        /\ slots' \in 0..MaxConcurrent /\ Cardinality(Handling \cup {a}) <= MaxConcurrent
        /\ HeldSame
    <3>1. a \in Tasks({"held", "batched"}) /\ Tasks({"held"}) \ {a} = Tasks({"held"})
      BY <2>1 DEF Tasks
    <3> QED  BY <2>1, <3>1, BeginEffect
  <2>3. OneHeld' /\ OneStream' /\ QuietOutside' /\ loop # "returned"
    BY <2>1, <2>2 DEF OneHeld, OneStream, Streaming, QuietOutside
  <2>4. TypeOK'
    BY <2>1, <2>2 DEF TypeOK, TasksInv
  <2>5. Contract!Begin({a})
    BY <2>1, <2>2, <2>3 DEF Contract!Begin, Contract!Cardinality, Cardinality
  <2> QED  BY <2>2, <2>3, <2>4, <2>5 DEF Inv, TasksInv, Contract!Next
<1>15. ASSUME NEW a \in Activations, HandlerStep(a) PROVE Goal
  <2>1. UNCHANGED <<cancelled, loop, open, sidecar>>
    BY <1>15 DEF HandlerStep
  <2>2. CASE HandlerReturns(a) /\ UNCHANGED slots
    <3>1. PICK outcome \in {"completing", "failing"} : Become(a, outcome)
      BY <2>2 DEF HandlerReturns
    <3>2. task[a] = "handling" /\ UNCHANGED <<withLease, engine>> /\ (withLease => a \in leased)
      BY <2>2 DEF HandlerReturns, TasksInv, AdmittedAreLeased, Admitted, Handling, Tasks
    <3>3. TasksInv' /\ task' = [b \in Activations |-> IF b = a THEN outcome ELSE task[b]]
      BY <3>1, <3>2, BecomeEffect DEF Statuses
    <3>4. Handling' = Handling /\ HeldSame
      BY <3>2, <3>3 DEF Handling, Tasks
    <3> QED  BY <1>3, <2>1, <2>2, <3>3, <3>4
  <2>3. CASE Acknowledge(a) /\ slots' = slots - 1
    <3>1. /\ task[a] \in {"completing", "failing"} /\ Over({a})
          /\ withLease' = withLease /\ reachable' = reachable /\ handedOut' = handedOut
          /\ locked' \subseteq Jobs /\ settled' \subseteq Jobs
      BY <2>3 DEF Acknowledge, TasksInv, EngineTypeOK, Activations
    <3>2. a \in Handling /\ a \notin Tasks({"held"})
      BY <3>1 DEF Handling, Tasks
    <3>3. TasksInv' /\ Handling' = Handling \ {a} /\ HeldSame
      BY <3>1, <3>2, OverEffect
    <3>4. Cardinality(Handling') = Cardinality(Handling) - 1
      BY <3>2, <3>3, HandlingFinite, FS_RemoveElement
    <3>5. slots' \in 0..MaxConcurrent /\ TokensAreHandlers'
      BY <2>3, <3>3, <3>4, HandlingFinite DEF TokensAreHandlers
    <3>6. OneHeld' /\ OneStream' /\ QuietOutside'
      BY <2>1, <3>2, <3>3 DEF OneHeld, OneStream, Streaming, QuietOutside
    <3>7. TypeOK'
      BY <2>1, <3>3, <3>5 DEF TypeOK, TasksInv
    <3>8. Contract!End(a)
      BY <2>1, <3>2, <3>3 DEF Contract!End
    <3> QED  BY <3>2, <3>3, <3>5, <3>6, <3>7, <3>8 DEF Inv, TasksInv, Contract!Next
  <2> QED  BY <1>15, <2>2, <2>3 DEF HandlerStep, Handle
<1>16. ASSUME NEW j \in Jobs, GatewayPushes(j) PROVE Goal
  <2>1. TasksInv' /\ Handling' = Handling /\ HeldSame
    <3>1. {j} \in SUBSET Activatable
      BY <1>16 DEF GatewayPushes
    <3>2. \/ \E tokens \in SUBSET {j} : Activate({j}, IF withLease THEN tokens ELSE {}, "sent")
          \/ Activate({j}, {}, "over")
      BY <1>16 DEF GatewayPushes, ActivateInVain
    <3> QED  BY <3>1, <3>2, ActivateEffect
  <2> QED  BY <1>3, <1>16, <2>1 DEF GatewayPushes, run
<1>17. CASE EngineStep /\ UNCHANGED run
  <2>1. TasksInv' /\ Handling' = Handling /\ HeldSame
    BY <1>17 DEF EngineStep, ConnectivityChanges, LockExpires, TasksInv, EngineTypeOK,
                 FreshUnused, AdmittedAreLeased, Admitted, Handling, Tasks
  <2> QED  BY <1>3, <1>17, <2>1 DEF run
<1>18. CASE UNCHANGED vars
  BY <1>1, <1>3, <1>18 DEF vars, run
<1>19. CASE Loop
  BY <1>4, <1>5, <1>6, <1>7, <1>8, <1>19, Zenon DEF Loop
<1>20. CASE Sidecar
  BY <1>10, <1>11, <1>12, <1>13, <1>14, <1>20, Zenon DEF Sidecar
<1> QED  BY <1>9, <1>15, <1>16, <1>17, <1>18, <1>19, <1>20, Zenon DEF Next

LEMMA InvInit == Init => Inv /\ Contract!Init
<1> SUFFICES ASSUME Init PROVE Inv /\ Contract!Init
  OBVIOUS
<1>1. Handling = {} /\ Tasks({"held"}) = {} /\ Admitted = {}
  BY DEF Init, EngineInit, Handling, Tasks, Admitted
<1>2. Cardinality(Handling) = 0
  BY <1>1, FS_EmptySet
<1>3. EngineTypeOK
  <2>1. handedOut \in [Jobs -> 0..MaxActivations] /\ task \in [Activations -> Statuses]
    BY DEF Init, EngineInit, Statuses
  <2>2. {withLease, reachable} \subseteq BOOLEAN
    BY DEF Init, EngineInit
  <2> QED  BY <2>1, <2>2 DEF Init, EngineInit, EngineTypeOK
<1>4. TypeOK
  <2>1. 0 \in 0..MaxStreams /\ 0 \in 0..MaxConcurrent
    OBVIOUS
  <2> QED  BY <1>1, <1>3, <2>1 DEF Init, TypeOK
<1>5. FreshUnused /\ TokensAreHandlers /\ OneHeld /\ QuietOutside /\ AdmittedAreLeased
  BY <1>1, <1>2 DEF Init, EngineInit, FreshUnused, TokensAreHandlers, OneHeld, QuietOutside,
                    AdmittedAreLeased
<1> QED  BY <1>1, <1>4, <1>5 DEF Init, Inv, OneStream, Streaming, Contract!Init
(* Only the acknowledgement of an activation ends it, and it is fenced     *)
(* because the activation was admitted with its token.                     *)
LEMMA FenceStep == Inv /\ [Next]_vars => [Fencing]_<<engine, task>>
<1> SUFFICES ASSUME Inv, [Next]_vars, withLease,
                    NEW a \in Tasks({"completing", "failing"}), task'[a] = "over",
                    <<locked, settled>>' # <<locked, settled>>
             PROVE  a[2] = handedOut[a[1]]
  BY Zenon DEF Fencing
<1>1. TasksInv /\ a \in Handling /\ a \in leased /\ a \in Activations
  BY DEF Inv, TypeOK, TasksInv, AdmittedAreLeased, Admitted, Handling, Tasks
<1>2. a \notin Handling'
  BY DEF Handling, Tasks
<1>3. ASSUME NEW jobs \in SUBSET Activatable, NEW tokens \in SUBSET jobs,
             NEW status \in {"sent", "batched", "over"}, Activate(jobs, tokens, status),
             status = "batched" /\ withLease => tokens = jobs
      PROVE  FALSE
  BY <1>1, <1>2, <1>3, ActivateEffect
<1>4. CASE Loop \/ Cancel
  <2>1. locked' = locked /\ settled' = settled
    BY <1>4 DEF Loop, Cancel, Open, Receive, ReceiveFails, StartHeld, Reconnect, Return, engine,
                engineKeeps
  <2> QED  BY <2>1
<1>5. CASE Sidecar
  <2>1. CASE Poll
    BY <1>3, <2>1 DEF Poll, LeasePresent
  <2>2. CASE PollFails
    <3>1. CASE UNCHANGED <<withLease, engine, task>>
      BY <3>1 DEF engine
    <3>2. CASE \E batch \in SUBSET Activatable : Activate(batch, {}, "over")
      BY <1>3, <3>2
    <3> QED  BY <2>2, <3>1, <3>2 DEF PollFails, ActivateInVain
  <2>3. CASE BatchEnds \/ PollAgain \/ \E b \in Activations : StartBatched(b)
    BY <2>3 DEF BatchEnds, PollAgain, StartBatched, engine, engineKeeps
  <2> QED  BY <1>5, <2>1, <2>2, <2>3 DEF Sidecar
<1>6. ASSUME NEW b \in Activations, HandlerStep(b) PROVE a[2] = handedOut[a[1]]
  <2>1. Acknowledge(b)
    BY <1>6 DEF HandlerStep, Handle, HandlerReturns, engine
  <2>2. a = b
    BY <1>1, <1>2, <2>1 DEF Acknowledge, Over, Handling, Tasks
  <2> QED  BY <1>1, <2>1, <2>2 DEF Acknowledge, Fenced
<1>7. ASSUME NEW j \in Jobs, GatewayPushes(j) PROVE FALSE
  <2>1. {j} \in SUBSET Activatable
    BY <1>7 DEF GatewayPushes
  <2>2. \/ \E tokens \in SUBSET {j} : Activate({j}, IF withLease THEN tokens ELSE {}, "sent")
        \/ Activate({j}, {}, "over")
    BY <1>7 DEF GatewayPushes, ActivateInVain
  <2> QED  BY <1>3, <2>1, <2>2
<1>8. CASE EngineStep
  BY <1>1, <1>2, <1>8 DEF EngineStep, ConnectivityChanges, LockExpires, Handling, Tasks
<1>9. CASE UNCHANGED vars
  BY <1>9 DEF vars, engine
<1> QED  BY <1>4, <1>5, <1>6, <1>7, <1>8, <1>9, Zenon DEF Next

-----------------------------------------------------------------------------
(* The types of the streaming worker: above all, its semaphore never holds *)
(* more tokens than its capacity, nor gives back one it does not hold.     *)
THEOREM TypeCorrect == Spec => []TypeOK
<1>1. Inv => TypeOK
  BY DEF Inv
<1> QED  BY <1>1, InvInit, InvStep, PTL DEF Spec

(* streamOnce closes its stream whichever way it ends: no stream is open   *)
(* that nobody receives from, however often the worker reconnects.         *)
THEOREM NoStreamLeftOpen == Spec => []OneStream
<1>1. Inv => OneStream
  BY DEF Inv
<1> QED  BY <1>1, InvInit, InvStep, PTL DEF Spec

(* The stream loop and the sidecar poll together implement the worker      *)
(* contract, for any number of jobs and any limit: they never run more     *)
(* handlers than allowed and none once Run has returned.                   *)
THEOREM StreamingKeepsContract == Spec => KeepsContract
BY InvInit, InvStep, PTL DEF Spec, KeepsContract, Contract!Spec

(* A worker that asked for leases never settles or releases a job that was *)
(* handed out again in the meantime, wherever the job came from.           *)
THEOREM LateAcknowledgementsAreFenced == Spec => SupersededIsFenced
BY InvInit, InvStep, FenceStep, PTL DEF Spec, SupersededIsFenced

(* In plain words: stream and sidecar together never run more handlers     *)
(* than there are slots, and none runs when Run is back.                   *)
THEOREM HandlersAreCapped == Spec => []Contract!Honoured
<1>1. Inv => Contract!Honoured
  BY HandlingFinite DEF Inv, TypeOK, TokensAreHandlers, QuietOutside,
                        Contract!Honoured, Contract!Cardinality, Cardinality
<1> QED  BY <1>1, InvInit, InvStep, PTL DEF Spec
=============================================================================
