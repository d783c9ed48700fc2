-------------------------- MODULE StreamJobWorker ---------------------------
(***************************************************************************)
(* StreamJobWorker of streamworker.go: one loop receives jobs from a gRPC  *)
(* stream and reopens the stream whenever it ends, a sidecar goroutine     *)
(* polls over REST, and both start handlers that share one semaphore.      *)
(*                                                                         *)
(* Jobs that the gateway has sent on the stream and that the loop has not  *)
(* received are "sent".                                                    *)
(***************************************************************************)
EXTENDS JobEngine

CONSTANTS
    MaxConcurrent,
    PollMaxJobs,
    MaxStreams      \* bound: streams open at once

ASSUME StreamAssumption ==
    {MaxConcurrent, PollMaxJobs, MaxStreams} \subseteq Nat \ {0}

VARIABLES
    loop,           \* where Run is
    cancelled,      \* Run's context
    open,           \* number of streams the gateway holds open
    slots,          \* tokens in the semaphore
    sidecar         \* where the sidecar poll is

engineKeeps == <<withLease, reachable, handedOut, locked, settled>>
run == <<loop, cancelled, open, slots, sidecar>>
vars == <<withLease, engine, task, run>>

Init ==
    /\ EngineInit
    /\ loop = "opening" /\ cancelled = FALSE /\ open = 0
    /\ slots = 0 /\ sidecar = "polling"

(* A full semaphore blocks the sender.                                     *)
SlotFree == slots < MaxConcurrent

-----------------------------------------------------------------------------
(* Run and streamOnce.                                                     *)

(* The loop condition; StreamActivatedJobs opens a stream or fails.        *)
Open ==
    /\ loop = "opening"
    /\ \/ /\ cancelled
          /\ loop' = "draining" /\ UNCHANGED open
       \/ /\ ~cancelled /\ reachable /\ open < MaxStreams
          /\ open' = open + 1
          /\ loop' = "receiving"
       \/ /\ ~cancelled
          /\ loop' = "pausing" /\ UNCHANGED open
    /\ UNCHANGED <<withLease, engine, task, cancelled, slots, sidecar>>

(* Fault: a stream that streamOnce leaves is not cancelled.                *)
LeaveStreamOpen(given) ==
    /\ loop' = "pausing"
    /\ Over(Tasks({"sent"}) \cup given)
    /\ UNCHANGED open

(* streamOnce returns: cancelStream ends the stream, and what it carried   *)
(* goes unhandled with it.                                                 *)
LeaveStream(given) ==
    /\ loop' = IF cancelled THEN "draining" ELSE "pausing"
    /\ open' = open - 1
    /\ Over(Tasks({"sent"}) \cup given)

(* Recv returns a job, which is held until there is a slot.                *)
Receive(a) ==
    /\ loop = "receiving" /\ task[a] = "sent"
    /\ \/ /\ LeasePresent({a}, leased \cap {a})
          /\ Become(a, "held") /\ loop' = "holding" /\ UNCHANGED <<open, leased>>
       \/ /\ ~LeasePresent({a}, leased \cap {a})
          /\ LeaveStream({a})
    /\ UNCHANGED <<engineKeeps, cancelled, slots, sidecar>>

(* Fault: the stream does not inherit Run's context.                       *)
ReceiveIgnoringCancel ==
    /\ loop = "receiving" /\ ~cancelled
    /\ LeaveStream({})
    /\ UNCHANGED <<engineKeeps, cancelled, slots, sidecar>>

(* Recv fails: the stream, the connection or the context ended.            *)
ReceiveFails ==
    /\ loop = "receiving"
    /\ LeaveStream({})
    /\ UNCHANGED <<engineKeeps, cancelled, slots, sidecar>>

(* Either select branch for the job that is held.                          *)
StartHeld(a) ==
    /\ loop = "holding" /\ task[a] = "held"
    /\ \/ /\ SlotFree
          /\ slots' = slots + 1
          /\ Become(a, "handling") /\ loop' = "receiving" /\ UNCHANGED <<open, leased>>
       \/ /\ cancelled
          /\ LeaveStream({a}) /\ UNCHANGED slots
    /\ UNCHANGED <<engineKeeps, cancelled, sidecar>>

(* sleepCtx(reconnectBackoff).                                             *)
Reconnect ==
    /\ loop = "pausing"
    /\ loop' = IF cancelled THEN "draining" ELSE "opening"
    /\ UNCHANGED <<withLease, engine, task, cancelled, open, slots, sidecar>>

(* wg.Wait for the sidecar and all handlers, then the deferred conn.Close. *)
Return ==
    /\ loop = "draining" /\ sidecar = "ended" /\ Handling = {}
    /\ loop' = "returned"
    /\ UNCHANGED <<withLease, engine, task, cancelled, open, slots, sidecar>>

Cancel ==
    /\ ~cancelled
    /\ cancelled' = TRUE
    /\ UNCHANGED <<withLease, engine, task, loop, open, slots, sidecar>>

-----------------------------------------------------------------------------
(* The sidecar poll.                                                       *)

SidecarKeeps == UNCHANGED <<cancelled, loop, open, slots>>

(* pollOnce succeeds: its jobs are dispatched one after the other.         *)
Poll ==
    /\ sidecar = "polling" /\ reachable /\ ~cancelled
    /\ \E batch \in SUBSET Activatable, tokens \in SUBSET Jobs :
         /\ Cardinality(batch) <= PollMaxJobs
         /\ tokens \subseteq batch /\ LeasePresent(batch, tokens)
         /\ Activate(batch, IF withLease THEN tokens ELSE {}, "batched")
    /\ sidecar' = "dispatching"
    /\ SidecarKeeps

(* Fault: a failed poll ends the sidecar.                                  *)
PollFailsForGood ==
    /\ sidecar = "polling"
    /\ UNCHANGED <<withLease, engine, task>>
    /\ sidecar' = "ended"
    /\ SidecarKeeps

(* It fails, or its answer is rejected or lost: the jobs stay locked.      *)
PollFails ==
    /\ sidecar = "polling"
    /\ \/ /\ reachable /\ ~cancelled
          /\ \E batch \in SUBSET Activatable :
               Cardinality(batch) <= PollMaxJobs /\ ActivateInVain(batch)
       \/ UNCHANGED <<withLease, engine, task>>
    /\ sidecar' = "pausing"
    /\ SidecarKeeps

StartBatched(a) ==
    /\ sidecar = "dispatching" /\ task[a] = "batched" /\ SlotFree
    /\ slots' = slots + 1
    /\ Become(a, "handling") /\ UNCHANGED <<withLease, engine>>
    /\ UNCHANGED <<sidecar, cancelled, loop, open>>

(* The batch is done, or the context ends while the sidecar waits for a    *)
(* slot: the rest of the batch goes unhandled.                             *)
BatchEnds ==
    /\ sidecar = "dispatching"
    /\ \/ Tasks({"batched"}) = {} /\ sidecar' = "pausing" /\ UNCHANGED <<task, leased>>
       \/ /\ Tasks({"batched"}) # {} /\ cancelled
          /\ sidecar' = "ended"
          /\ Over(Tasks({"batched"}))
    /\ UNCHANGED engineKeeps
    /\ SidecarKeeps

(* sleepCtx(pollInterval), and the loop condition.                         *)
PollAgain ==
    /\ sidecar = "pausing"
    /\ sidecar' = IF cancelled THEN "ended" ELSE "polling"
    /\ UNCHANGED <<withLease, engine, task>>
    /\ SidecarKeeps

Sidecar == Poll \/ PollFails \/ BatchEnds \/ PollAgain \/ \E a \in Activations : StartBatched(a)

-----------------------------------------------------------------------------
(* The handlers and the gateway.                                           *)

(* Fault: the slot is freed when the handler returns.                      *)
HandleReleasingEarly(a) ==
    \/ HandlerReturns(a) /\ slots' = slots - 1
    \/ Acknowledge(a) /\ UNCHANGED slots

Handle(a) ==
    \/ HandlerReturns(a) /\ UNCHANGED slots
    \/ Acknowledge(a) /\ slots' = slots - 1

HandlerStep(a) ==
    Handle(a) /\ UNCHANGED <<cancelled, loop, open, sidecar>>

(* The gateway pushes on a stream it holds open: the one that is received, *)
(* or one that nobody receives from.                                       *)
Streaming == loop \in {"receiving", "holding"}

GatewayPushes(j) ==
    /\ open > 0 /\ j \in Activatable
    /\ \/ /\ Streaming
          /\ \E tokens \in SUBSET {j} :
               Activate({j}, IF withLease THEN tokens ELSE {}, "sent")
       \/ /\ open > 1 \/ ~Streaming
          /\ ActivateInVain({j})
    /\ UNCHANGED run

Loop == Open \/ ReceiveFails \/ Reconnect \/ Return \/
        \E a \in Activations : Receive(a) \/ StartHeld(a)

Next ==
    \/ Loop \/ Cancel \/ Sidecar
    \/ \E a \in Activations : HandlerStep(a)
    \/ \E j \in Jobs : GatewayPushes(j)
    \/ EngineStep /\ UNCHANGED run

Spec == Init /\ [][Next]_vars

(* The loop, the sidecar and the handlers are scheduled, handlers return   *)
(* and their acknowledgements end (the 30 s); a stream opens or fails to;  *)
(* Recv returns when the context has ended or a job is there.  A poll has  *)
(* no timeout, and is sure to end only when Run's context has.             *)
FairSpec ==
    /\ Spec
    /\ WF_vars(Open \/ Reconnect \/ Return)
    /\ WF_vars(\E a \in Activations : Receive(a) \/ StartHeld(a))
    /\ WF_vars(cancelled /\ ReceiveFails)
    /\ WF_vars(sidecar # "polling" /\ Sidecar) /\ WF_vars(cancelled /\ PollFails)
    /\ WF_vars(\E a \in Activations : HandlerStep(a))

-----------------------------------------------------------------------------
TypeOK ==
    /\ EngineTypeOK
    /\ loop \in {"opening", "receiving", "holding", "pausing", "draining", "returned"}
    /\ sidecar \in {"polling", "dispatching", "pausing", "ended"}
    /\ cancelled \in BOOLEAN
    /\ open \in 0..MaxStreams
    /\ slots \in 0..MaxConcurrent
    /\ (loop = "holding") = (Tasks({"held"}) # {})

(* The stream and the sidecar poll, "sharing the same concurrency limit",  *)
(* together keep the contract of WorkerContract.tla.  The connection is    *)
(* closed when Run returns, so the acknowledgements on it are not cut off  *)
(* by the shutdown: Run outlives every handler.                            *)
Contract == INSTANCE WorkerContract WITH
    Work <- Activations, Limit <- MaxConcurrent,
    active <- Handling, stopped <- (loop = "returned")
KeepsContract == Contract!Spec

(* "returning while the stream is still healthy would leave the gateway    *)
(* holding it open and delivering onto it while Run reconnects"            *)
(* (streamOnce): only the stream that is being received is open.           *)
OneStream ==
    open = IF Streaming THEN 1 ELSE 0

(* A cancelled Run returns, with every handler it started.                 *)
RunReturns == cancelled ~> loop = "returned"

(* The sidecar is a safety net for jobs the stream missed: it asks again,  *)
(* however often a poll failed and however long it waited for slots.       *)
SidecarAsksAgain == sidecar # "polling" ~> (sidecar = "polling" \/ cancelled)
=============================================================================
