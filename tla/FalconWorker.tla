---------------------------- MODULE FalconWorker ----------------------------
(***************************************************************************)
(* JobWorker.runFalcon of worker.go over the StreamWorker of               *)
(* internal/falcon/streamworker.go: the gateway pushes a job per delivery  *)
(* credit, the supervisor buffers it, the run loop starts a handler for    *)
(* it, and every handler sends its acknowledgement and then one credit.    *)
(*                                                                         *)
(* A send reads the link's socket and queues on it.  It is one step here:  *)
(* a socket that is alive when the frame is queued is still the writer,    *)
(* and what is queued on a dead one is lost as if it had been queued       *)
(* before it died.  The gateway pushes each job at most once.              *)
(***************************************************************************)
EXTENDS FalconLink

CONSTANTS
    Jobs,           \* jobs of the worker's type
    Undecodable,    \* those whose frame does not decode
    Credits         \* WithMaxConcurrentJobs: credits of a subscription

ASSUME WorkerAssumption ==
    /\ IsFiniteSet(Jobs) /\ Undecodable \subseteq Jobs
    /\ Credits \in Nat \ {0}

VARIABLES
    loop,           \* where Run is
    cancelled,      \* Run's context
    subscribing,    \* onConnect of the published socket is still to run
    place,          \* where each job is
    out,            \* client frames queued on the current socket
    gwCredits,      \* credits of the gateway's subscription; -1 without one
    acked,          \* jobs whose acknowledgement reached the gateway
    broken          \* some socket ended otherwise than by Close

worker == <<loop, cancelled>>
gateway == <<gwCredits, acked>>
vars == <<linkVars, worker, subscribing, place, out, gateway, broken>>

Loops == {"subscribing", "top", "waiting", "draining", "closing", "returned", "fallback"}
Places == {"available", "pushed", "buffered", "handling", "replenishing",
           "finished", "skipped", "dropped", "lost"}

(* What the worker sends: "subscribe", "ack" or "credit", with its job.     *)
Frame == {<<"subscribe">>} \cup ({"ack", "credit"} \X Jobs)

At(p) == {j \in Jobs : place[j] \in p}
Running == At({"handling", "replenishing"})
Move(j, p) == place' = [place EXCEPT ![j] = p]

Init ==
    /\ LinkInit
    /\ loop = "subscribing" /\ cancelled = FALSE /\ subscribing = FALSE
    /\ place = [j \in Jobs |-> "available"]
    /\ out = <<>> /\ gwCredits = -1 /\ acked = {} /\ broken = FALSE

-----------------------------------------------------------------------------
(* Sending.                                                                *)

Queue(frame) == out' = IF writer # 0 /\ writer \in alive THEN Append(out, frame) ELSE out

(* What a dying socket had under way, in either direction, is lost.        *)
SocketLost ==
    /\ out' = <<>> /\ gwCredits' = -1
    /\ place' = [j \in Jobs |-> IF place[j] = "pushed" THEN "lost" ELSE place[j]]
    /\ UNCHANGED <<worker, acked>>

-----------------------------------------------------------------------------
(* Run and runFalcon.                                                      *)

Subscribed ==
    /\ loop = "subscribing" /\ ready = "connected"
    /\ loop' = "top"
    /\ UNCHANGED <<linkVars, cancelled, subscribing, place, out, gateway, broken>>

(* A subscription that fails makes Run fall back to polling.               *)
SubscribeFailed ==
    /\ loop = "subscribing" /\ ready = "failed"
    /\ loop' = IF cancelled THEN "returned" ELSE "fallback"
    /\ UNCHANGED <<linkVars, cancelled, subscribing, place, out, gateway, broken>>

Cancel ==
    /\ ~cancelled
    /\ cancelled' = TRUE
    /\ UNCHANGED <<linkVars, loop, subscribing, place, out, gateway, broken>>

Top ==
    /\ loop = "top"
    /\ loop' = IF cancelled THEN "draining" ELSE "waiting"
    /\ UNCHANGED <<linkVars, cancelled, subscribing, place, out, gateway, broken>>

(* NextJob returns without a job: its timer or the context.                *)
NoJob ==
    /\ loop = "waiting"
    /\ loop' = "top"
    /\ UNCHANGED <<linkVars, cancelled, subscribing, place, out, gateway, broken>>

(* NextJob returns a job, which gets a goroutine.                          *)
Take(j) ==
    /\ loop = "waiting" /\ place[j] = "buffered" /\ j \notin Undecodable
    /\ Move(j, "handling")
    /\ loop' = "top"
    /\ UNCHANGED <<linkVars, cancelled, subscribing, out, gateway, broken>>

(* Fault: an undecodable job keeps its credit.                             *)
SkipSilently(j) ==
    /\ loop = "waiting" /\ place[j] = "buffered" /\ j \in Undecodable
    /\ Move(j, "skipped")
    /\ loop' = "top"
    /\ UNCHANGED <<linkVars, cancelled, subscribing, out, gateway, broken>>

(* NextJob returns a job that does not decode: only its credit goes back.  *)
Skip(j) ==
    /\ loop = "waiting" /\ place[j] = "buffered" /\ j \in Undecodable
    /\ Move(j, "skipped")
    /\ Queue(<<"credit", j>>)
    /\ loop' = "top"
    /\ UNCHANGED <<linkVars, cancelled, subscribing, gateway, broken>>

(* The handler returns; Complete, Fail or ThrowError sends its frame ...   *)
SendAck(j) ==
    /\ place[j] = "handling"
    /\ Queue(<<"ack", j>>)
    /\ Move(j, "replenishing")
    /\ UNCHANGED <<linkVars, worker, subscribing, gateway, broken>>

(* Fault: both the acknowledgement and the caller replenish.               *)
ReplenishTwice(j) ==
    /\ place[j] = "replenishing"
    /\ out' = IF writer # 0 /\ writer \in alive
              THEN out \o << <<"credit", j>>, <<"credit", j>> >> ELSE out
    /\ Move(j, "finished")
    /\ UNCHANGED <<linkVars, worker, subscribing, gateway, broken>>

(* Fault: the job waits for a socket to replenish on.                      *)
ReplenishConnected(j) ==
    /\ place[j] = "replenishing" /\ writer # 0
    /\ Queue(<<"credit", j>>)
    /\ Move(j, "finished")
    /\ UNCHANGED <<linkVars, worker, subscribing, gateway, broken>>

(* ... and Replenish(1) returns the job's credit.                          *)
Replenish(j) ==
    /\ place[j] = "replenishing"
    /\ Queue(<<"credit", j>>)
    /\ Move(j, "finished")
    /\ UNCHANGED <<linkVars, worker, subscribing, gateway, broken>>

(* Fault: Run does not wait for its handlers.                              *)
DrainedAtOnce ==
    /\ loop = "draining"
    /\ loop' = "closing"
    /\ UNCHANGED <<linkVars, cancelled, subscribing, place, out, gateway, broken>>

(* wg.Wait.                                                                *)
Drained ==
    /\ loop = "draining" /\ Running = {}
    /\ loop' = "closing"
    /\ UNCHANGED <<linkVars, cancelled, subscribing, place, out, gateway, broken>>

(* The deferred sw.Close, then Run returns.                                *)
Close ==
    /\ loop = "closing"
    /\ \/ CloseCancels /\ UNCHANGED <<worker, place, out, gateway>>
       \/ CloseDetaches /\ IF writer # 0 THEN SocketLost
                                         ELSE UNCHANGED <<worker, place, out, gateway>>
    /\ UNCHANGED <<subscribing, broken>>

Return ==
    /\ loop = "closing" /\ closer = "closed"
    /\ loop' = "returned"
    /\ UNCHANGED <<linkVars, cancelled, subscribing, place, out, gateway, broken>>

-----------------------------------------------------------------------------
(* The supervisor with the worker's hooks.                                 *)

Idle == UNCHANGED <<worker, subscribing, place, out, gateway, broken>>

PublishSocket ==
    /\ Publish
    /\ subscribing' = TRUE
    /\ UNCHANGED <<worker, place, out, gateway, broken>>

(* onConnect, bound to the fresh socket: subscribe with a full window.     *)
OnConnect ==
    /\ subscribing
    /\ subscribing' = FALSE
    /\ out' = IF conn \in alive THEN Append(out, <<"subscribe">>) ELSE out
    /\ UNCHANGED <<linkVars, worker, place, gateway, broken>>

Break ==
    /\ SocketDies /\ SocketLost
    /\ broken' = TRUE
    /\ UNCHANGED subscribing

StopPumping ==
    /\ ~subscribing
    /\ PumpEnds /\ SocketLost
    /\ broken' = (broken \/ ~Stopped)
    /\ UNCHANGED subscribing

(* onFrame: the job is buffered, or dropped when the buffer is full.       *)
OnJob(j) ==
    /\ sup = "pumping" /\ ~subscribing /\ place[j] = "pushed"
    /\ Move(j, IF Cardinality(At({"buffered"})) < Credits THEN "buffered" ELSE "dropped")
    /\ UNCHANGED <<linkVars, worker, subscribing, out, gateway, broken>>

Supervise ==
    \/ (\E e \in Endpoints : DialFails(e) \/ DialSucceeds(e)) /\ Idle
    \/ (SuperviseEnds \/ Detach \/ Disconnect) /\ Idle
    \/ PublishSocket \/ OnConnect \/ StopPumping
    \/ \E j \in Jobs : OnJob(j)

-----------------------------------------------------------------------------
(* The gateway.                                                            *)

(* A frame arrives.  Credits for a type without a subscription are void.   *)
GatewayReceives ==
    /\ out # <<>> /\ out' = Tail(out)
    /\ LET frame == Head(out)
       IN  \/ /\ frame[1] = "subscribe"
              /\ gwCredits' = Credits /\ UNCHANGED acked
           \/ /\ frame[1] = "credit"
              /\ gwCredits' = IF gwCredits = -1 THEN -1 ELSE gwCredits + 1
              /\ UNCHANGED acked
           \/ /\ frame[1] = "ack"
              /\ acked' = acked \cup {frame[2]} /\ UNCHANGED gwCredits
    /\ UNCHANGED <<linkVars, worker, subscribing, place, broken>>

GatewayPushes(j) ==
    /\ gwCredits > 0 /\ conn \in alive /\ place[j] = "available"
    /\ gwCredits' = gwCredits - 1
    /\ Move(j, "pushed")
    /\ UNCHANGED <<linkVars, worker, subscribing, out, acked, broken>>

Handle(j) == SendAck(j) \/ Replenish(j)
Loop == Subscribed \/ SubscribeFailed \/ Top \/ NoJob \/ Drained \/ Close \/ Return

Next ==
    \/ Loop \/ Cancel \/ Supervise \/ Break \/ GatewayReceives
    \/ \E j \in Jobs : Take(j) \/ Skip(j) \/ Handle(j) \/ GatewayPushes(j)

Spec == Init /\ [][Next]_vars

(* Every goroutine is scheduled, handlers return and a dial ends; a job in *)
(* the buffer is taken sooner or later; a live socket carries frames both  *)
(* ways and a gateway with a credit pushes.                                *)
FairSpec ==
    /\ Spec
    /\ WF_vars(Loop) /\ WF_vars(GatewayReceives)
    /\ WF_vars((\E e \in Endpoints : DialFails(e) \/ DialSucceeds(e)) /\ Idle)
    /\ SF_vars((\E e \in Endpoints : DialSucceeds(e)) /\ Idle)
    /\ WF_vars(PublishSocket) /\ WF_vars(OnConnect)
    /\ WF_vars((SuperviseEnds \/ Detach \/ Disconnect) /\ Idle)
    /\ WF_vars(StopPumping /\ (conn \notin alive \/ Stopped))
    /\ WF_vars(\E j \in Jobs : Handle(j)) /\ WF_vars(\E j \in Jobs : OnJob(j))
    /\ SF_vars(\E j \in Jobs : Take(j) \/ Skip(j))
    /\ SF_vars(\E j \in Jobs : GatewayPushes(j))

-----------------------------------------------------------------------------
(* Types, and a subscription exists only on a live socket.                 *)
TypeOK ==
    /\ LinkTypeOK
    /\ loop \in Loops /\ place \in [Jobs -> Places]
    /\ {cancelled, subscribing, broken} \subseteq BOOLEAN
    /\ gwCredits \in Int /\ gwCredits >= -1 /\ acked \subseteq Jobs
    /\ out \in Seq(Frame)
    /\ gwCredits >= 0 \/ out # <<>> => conn \in alive

(* One window per connection bounds the jobs a worker holds, because only  *)
(* an acted-on job gives a credit back, and only one.                      *)
BoundedByWindows ==
    Cardinality(At({"pushed", "buffered", "handling", "replenishing"})) <= Credits * conn

(* No slot of a live subscription is lost: every credit is the gateway's,  *)
(* on its way back, or held by a job that will return it.  Only a dropped  *)
(* push loses one.                                                         *)
NoDeliveryCreditLost ==
    LET returning == {i \in DOMAIN out : out[i][1] = "credit"}
    IN  gwCredits >= 0 =>
          gwCredits + Cardinality(returning) +
          Cardinality(At({"pushed", "buffered", "handling", "replenishing", "dropped"}))
              >= Credits

(* "a buffer of the same size guarantees a push never has to be dropped"   *)
(* (streamworker.go, Subscribe) holds of the first connection, and on it   *)
(* WithMaxConcurrentJobs caps the handlers.                                *)
FirstWindowIsEnough ==
    conn <= 1 => At({"dropped"}) = {} /\ Cardinality(Running) <= Credits

(* Delivery credits are conserved over failovers, drops and undecodable    *)
(* jobs: none is made up, none is lost, and one window is enough.          *)
DeliveryCreditsConserved ==
    BoundedByWindows /\ NoDeliveryCreditLost /\ FirstWindowIsEnough

(* The worker keeps the contract of the other two, but not with their      *)
(* limit: each connection brings a window of its own, so that many         *)
(* handlers may run at once, also beyond WithMaxConcurrentJobs.            *)
Contract == INSTANCE WorkerContract
    WITH Work <- Jobs, Limit <- Credits * MaxConnects,
         active <- Running, stopped <- loop = "returned"
KeepsContract == Contract!Spec

(* A cancelled Run returns, whatever the link is doing meanwhile.          *)
WorkerReturns == (cancelled /\ loop # "fallback") ~> loop \in {"returned", "fallback"}

(* A live subscription never starves while jobs are available, a job that  *)
(* does not decode included among those before: every credit it had comes  *)
(* back.  Only the credit of a dropped push does not.                      *)
NeverStarves ==
    (At({"available"}) # {} /\ gwCredits = 0) ~>
        (gwCredits # 0 \/ cancelled \/ At({"dropped"}) # {})

(* "a buffer of the same size guarantees a push never has to be dropped",  *)
(* on whichever connection.                                                *)
NothingDropped == At({"dropped"}) = {}

(* "a handler that already did its work must not have its result dropped   *)
(* because Run's ctx was canceled" (worker.go, handle): when no connection *)
(* broke, the acknowledgement of every handled job has reached the gateway *)
(* by the time Run returns.                                                *)
AckedBeforeReturn ==
    loop = "returned" /\ ~broken => At({"finished"}) \subseteq acked
=============================================================================
