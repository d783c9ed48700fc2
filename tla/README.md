# A TLA+ model of the orchestration cluster Go SDK

This directory holds TLA+ models of the hand-written runtime of the Camunda
orchestration cluster client for Go: the part that gates, retries,
authenticates and streams requests, and that runs job workers, together with
the TLC runs that check them and the TLAPS proofs about them.  The generated
REST client (`client/`), the generated gRPC stubs (`pb/`) and the generated
facade are what that runtime carries; they keep no state and are not modelled.

Paths below are relative to the repository's root; `PROJECT.json` maps every
definition to the lines it translates.

## Inventory

| Component | Source | State it keeps | Operations | What is hard | Correct means |
|---|---|---|---|---|---|
| Backpressure manager | `internal/backpressure` | severity, consecutive signals, permit cap and count, waiters, backoff, recovery dates, notify channel | `Acquire`, `Release`, `RecordBackpressure`, `RecordHealthyHint` | condition-variable style waiting, cancellation, cap changes while permits are out, clock read before the lock | no lost wake-up, no leaked permit, no leaked waiter, lifted only after quiet |
| Backpressure transport | `internal/transport` | none | `RoundTrip`, `observe`, exempt drain operations | which responses count as a signal; every granted request must release | one permit covers all attempts of a request |
| Retry transport | `internal/retry` | attempt number | `RoundTrip`, `backoff` | bodies that cannot be rewound, cancellation between attempts | bounded attempts, a prompt end on cancellation |
| Auth token source | `internal/auth` | token in memory, token file | `Token`, `fetch`, `Transport.RoundTrip` | single flight, expiry while waiting, several processes on one file | no expired token, one fetch for all who wait |
| Engine clock | `engineclock.go` | last pinned instant, gate | `Now`, `PinTo`, `Reset`, `Sleep`, `After` | readings taken before the gate, a request in the critical section | SDK and engine agree; waits overlap and go forward |
| FALCON detection and routing | `falcon.go`, `internal/falcon/falcon.go`, `worker.go` (`Run`) | verdict of the probe, its age, dialer, shared producer | `falconCaps`, `falconProducer`, `Detect`, `CreateProcessInstance` | probe outside the lock, retry interval, one start for all, fall-backs | one probe at a time, a final verdict, a create goes one way |
| FALCON link | `internal/falcon/link.go` | current writer, supervisor's socket, last failed endpoint | `startLink`, `send`, `supervise`, `pump`, `close` | the socket is replaced under its users; `close` races a dial | one socket, none left behind, failover reaches a survivor |
| FALCON producer | `internal/falcon/producer.go` | submission credits, pending acks, awaited results | `Create`, `onFrame`, `onDisconnect`, `addCredits`, `Close` | acknowledgements, timeouts and disconnects race; credit windows of successive sockets | nobody waits for an answer that cannot come, nothing leaks |
| FALCON stream worker | `internal/falcon/streamworker.go`, `worker.go` | job buffer, credits | `Subscribe`, `NextJob`, `Complete`/`Fail`/`ThrowError`, `Replenish`, `Close`, `runFalcon` | failover with jobs in flight, shutdown | one credit per job, no starvation, `Run` returns |
| REST job worker | `worker.go` | jobs in flight | `Run`, `activate`, `handle`, acknowledgements | free slots counted before a long poll, drain on shutdown, superseded activations | the worker contract below |
| gRPC stream job worker | `streamworker.go` | semaphore, stream | `Run`, `streamOnce`, sidecar poll, acknowledgements | two sources of jobs on one limit, reconnects, drain | the worker contract, one stream, fenced leases |
| Job value, lease coupling | `job.go`, `presentwhen.go` | none | lease token of a job and of its commands | an activation answer of a mixed cluster | a late command cannot touch a newer activation |
| Poll helper | `poll.go` | none | `Poll` | the deadline is on a clock that others move, and is looked at after the call | no time-out on what was visible, every Poll returns |
| Clock, random | `clock.go`, `random.go` | generator state | `LiveClock`, `SplitMix64` | 64-bit arithmetic | not modelled |
| Configuration | `config.go`, `configschema.go`, `options.go` | none | layered resolution | precedence | not modelled |
| Client assembly | `client.go`, `errors.go`, `consistency.go` | none | wires the transports | order of the layers | through the modules of its parts |
| Default tenant, diagnostics, generators | `defaulttenant.go`, `internal/diag`, `cmd/` | none | request rewriting, logging, build | none | not modelled |

**Interaction.**  Every REST call goes through the chain backpressure → retry →
auth → base, so one permit covers all attempts of one request and every attempt
asks for a token anew.  The jobs of a polling worker, and those a stream worker's
sidecar poll found, are acknowledged through that chain, exempt from the gate; the
jobs of the gRPC stream are acknowledged by gRPC commands on the stream's
connection, with neither gate nor retry, and those of the FALCON stream by frames
on its link.  The FALCON producer and worker each own a
link; the link calls back into them (`onFrame`, `onConnect`, `onDisconnect`)
from its supervisor goroutine, while callers send on whatever socket is
current.  The REST, gRPC and FALCON sides each have a token source of their
own; they meet only in the token file.  The engine clock replaces the SDK's
clock, so every sleep of retry, polling and worker code becomes a pin of the
engine's clock.

## Modules

| Module | Models | Lives with |
|---|---|---|
| `ResponseSignal` | `transport.observe`: a response is pressure, healthy or neutral | `Backpressure` |
| `Backpressure` | the manager and the callers inside `BackpressureTransport.RoundTrip` | |
| `FalconLink` | `SupervisedLink` | extended by the next two |
| `FalconProducer` | `Producer` over the link, with the gateway as environment | `FalconLink` |
| `FalconWorker` | `StreamWorker` and `JobWorker.runFalcon` over the link | `FalconLink` |
| `FalconLinkProofs`, `FalconWorkerProofs`, `FalconProducerProofs` | safety of the link; worker and producer implement it, and each its contract; all safety of both | |
| `CreateContract` | the abstract specification of a create: it reaches the engine in one way at most, and "ok" is told of an executed one | refined by `FalconProducer` and by `FalconRouting` |
| `FalconRouting` | `falcon.go`, `Detect` and `JobWorker.Run`: who goes to the stream and who to REST | uses `CreateContract` for the producer |
| `FalconRoutingProofs` | types, the final verdict, the contract, no stream where there is none | |
| `JobEngine` | external engine (activation, lock timeout, lease, commands) and the life of a handler goroutine | extended by the next two |
| `RestJobWorker` | `JobWorker.runRESTPoll` | `JobEngine` |
| `StreamJobWorker` | `StreamJobWorker` with its sidecar poll | `JobEngine` |
| `WorkerContract` | the abstract specification of a job worker | refined by all three workers |
| `RestJobWorkerProofs`, `StreamJobWorkerProofs` | types, refinement and lease fence of both; one stream | |
| `EngineClock` | `EngineClock` and the engine's clock API | extended by the next |
| `EventualPoll` | `Poll` on an engine clock that other callers move | `EngineClock` |
| `EngineClockProofs` | four theorems about the clock, that a `Poll` keeps them, its types and its timeout | |
| `TokenSource` | `TokenSource.Token` with memory, file and endpoint | `RequestPipeline` |
| `RequestPipeline` | `retry.Transport` over `auth.Transport` over `TokenSource` | |
| `TransportProofs` | four theorems about `RequestPipeline` with its token source, seven about `Backpressure` | both |
| `MC*` | model values, instance sizes and symmetry for TLC | |

A definition whose comment begins with *Fault:* is a plausible wrong version of
the definition after it.  It is no part of any specification; `PROJECT.json`
uses it to show that a property would notice the mistake.

### How state and actions correspond to the code

*Backpressure.*  An action is one region under `Manager.mu`, or one step a
goroutine takes outside it.  `AcquireTop` and `Claim` are the two lock regions
of the `Acquire` loop, `BackoffElapsed` the sleep between them; `Resume` and
`Cancel` are the two branches of its `select`.  The notify channel is not a
variable: a caller captures it in the region that parks it, so `"parked"` means
"waits on the channel that is open now", and closing it (`Broadcast`) turns
parked callers into `"woken"` ones.  `WireReply` reads the clock before
`RecordBackpressure` or `RecordHealthyHint` takes the lock, as the code does,
so readings are applied out of order.  `Release` runs for every gated request,
counted or not.

*FALCON link.*  `sup` is the supervisor's program counter between dial, publish,
pump, close of the socket, detach of the writer and `onDisconnect`.  `alive` is
the set of sockets whose context is not cancelled, `writer` the socket `send`
would use, `closer` the progress of `close()`, which may interleave anywhere.
Modules over the link conjoin their hooks with its actions, so their steps are
link steps by construction of the code, which the proof makes explicit.

*FALCON producer.*  `Create` is cut wherever another goroutine can get between:
credit, registration, reading the writer, queueing on it, undoing, waiting.
`ackCh` and `awaitCh` are its two buffered channels.  The gateway executes what
was queued, even off a socket the client has given up, and answers on that
socket if it lives.

*FALCON routing.*  The two lock regions of `falconCaps` are `LookUp` and
`ProbeEnds`, and `"probing"` is the time between them.  `sinceProbe` is the age
of the last probe, counted up to the retry interval.  `"starting"` is a caller
inside `falconProdOnce`; the others wait by having no step.  The producer is
here only what it promises: `Producer!Execute` and `Producer!Answer` are steps
of `CreateContract`, which `FalconProducer` is checked and proved to implement,
and routing as a whole is shown to implement the same contract with REST as a
second way.

*FALCON worker.*  `place` follows each job from the gateway through the buffer
and its handler to its credit.  A send is one step: it reads the writer and
queues, and a frame queued on a socket that dies afterwards is as lost as one
queued on a dead socket.

*Job workers.*  An activation is a pair of a job and the number of its hand-out,
so a late command of a superseded activation is told from the current one.
`task` is what the worker does with each.  `WorkerContract` knows only the set of
running handlers and whether `Run` has returned; `FalconWorker` keeps it, too, but
with one window per connection as its limit.

*Engine clock.*  `gating` is a goroutine before `gate.Lock`, with the instant it
fixed earlier; `requesting` and `executed` are before and after the engine did
what was asked.  Real time runs on in every step.

*Poll.*  A look begins in one step, which notes whether the entity was visible,
and ends in another; between them, as in the wait, other callers move the clock.
The wait is the clock's own `Sleep`, with its request, refusal and lost answer.

*Request pipeline.*  `locking`, `fetching`, `issued` and `saving` are inside
`Token`; `sending`, `awaiting` and `backoff` are retry and the wire.  `Restart`
ends a process at any point; the memory and the mutex go with it, the file,
possibly truncated, stays.

## Runs

Eight runs must hold; four show a disagreement between a statement of the
repository and what its code does.

| Run | Module | Shows |
|---|---|---|
| `backpressure` | `MCBackpressure` | two callers through a boot, shrinking to the floor, recovery, growth and lifting: permits and waiters are counted right, nobody sleeps beside a free permit, the gate is lifted only after the quiet and the healthy period measured from the last signal, and a parked caller is woken if the exchanges of the others end |
| `falcon_producer` | `MCFalconProducer` | two creates against frames, disconnects, a reconnect and `Close`: no create waits for an answer that cannot reach it, no map entry stays, no credit of the window is lost, no replenishment is slept through, a sent create returns, and the producer implements `CreateContract` |
| `falcon_worker` | `MCFalconWorker` | four jobs, one undecodable, two sockets, one node down, cancellation anywhere: one socket, none left, every pushed job is worth one credit, one window is enough until the first failover, the worker implements `WorkerContract`, failover finds the survivor, nobody starves, `Run` returns |
| `falcon_worker_dropped` | `MCFalconWorker` | finding 1 |
| `falcon_worker_acked` | `MCFalconWorker` | finding 2 |
| `falcon_routing` | `MCFalconRouting` | creates and workers share a probe that may fail, break off or never end, and a producer whose start may fail: one probes at a time, the verdict stays, nobody waits for a probe, a create goes one way and returns once that way answers and its own probe ends, and failed probes are repeated until there is a verdict if callers keep coming |
| `falcon_routing_forced` | `MCFalconRouting` | finding 3 |
| `rest_worker` | `MCRestJobWorker` | the polling worker implements `WorkerContract`, returns when cancelled even if the engine is unreachable, and gives every slot back |
| `stream_worker` | `MCStreamJobWorker` | stream and sidecar on one semaphore implement `WorkerContract`; one stream is open; a superseded activation is fenced; `Run` returns; the sidecar keeps polling |
| `engine_clock` | `MCEventualPoll` | a `Poll` waits on the engine clock while another caller sleeps, pins and resets it, with refused requests and lost answers: SDK and engine agree, a pinned clock never goes back, an overlapping wait ends its own duration after its start, no `Poll` times out on a visible entity, and every `Poll` whose calls end returns |
| `engine_clock_backwards` | `MCEngineClock` | finding 4 |
| `request_pipeline` | `MCRequestPipeline` | callers of one process or of two on one token file: no expired token is sent, tokens are replaced only when due, every call returns unless it waits for ever for the answer to its own request |

### Bounds, and why they are enough

* `backpressure`: two callers on a cap that shrinks from two to one are enough
  for one to be parked while the other holds the permit, and for two signals to
  be recorded in the wrong order.  `MaxTime = 3` covers a signal, the steps from
  severe to soft and to healthy, a step of growth and the lift.  A queue that is
  full needs a third caller, which does not fit beside the liveness property; the
  limit of the queue, like the other invariants, is proved for any number of
  callers.  A `consecutive` counter saturates at the severe threshold, beyond
  which nothing depends on it.
* `falcon_producer`: two creates and a window of one credit make one wait for
  the other's credit, and `MaxConnects = 2` gives one disconnect to fall between any
  two steps.  Correlation ids never repeat, so a third create adds no new pair.
* `falcon_worker`: four jobs on a window of one let a second subscription grant
  its window while the first one's jobs are still buffered and handled; the
  second endpoint is down, so failover must avoid one and find the other.
* `rest_worker`, `stream_worker`: two jobs handed out up to twice give every
  superseded activation; two slots for the poll, one contended slot for the
  stream and the sidecar.
* `falcon_routing`: two creates, so that one waits for the other's start of the
  producer, and two workers that are run again without end, so that callers keep
  coming after every failed probe; an interval of two lets one be turned away in
  the middle of it.  The forced run needs one worker.
* `engine_clock`: a poller with a timeout of two and an interval of one, and one
  other caller with waits of one and two and pins at 0 and 3: a pin or a wait can
  fall short of the deadline, hit it or pass it.  `MaxTime` bounds real time and
  `MaxWake` what others sleep to, beyond the last deadline; a third
  caller adds no pair of overlapping operations.  The backwards run needs one
  caller and real time.
* `request_pipeline`: two callers, of one source or of two, two attempts each;
  tokens of lifetime two that are due after one; three instants let a token
  become due and expire.

`CHECK_DEADLOCK FALSE` is set where the system really stops: all creates have
returned, or `Run` has.

### Fairness

Safety properties use none.  The specifications with fairness assume what the code
and the runtime give by themselves:

* *Goroutines that are not blocked are scheduled* (weak fairness on the steps of
  each loop, handler and call), and handlers return.
* *What the code bounds ends*: a token fetch (`auth.go:86`, 30 s), the
  acknowledgement of a REST or gRPC worker (30 s), a FALCON dial
  (`falconDialTimeout`), the wait for the answer to a FALCON create that was sent,
  and every sleep.
* *A request ends when its context has ended*, and then by an error.  Nothing
  else bounds a REST request: the `http.Client` of the SDK (`client.go:91`) has no
  timeout.  So no specification assumes that a request, a long poll or an activation
  is answered.
* *`sync.Mutex` hands the lock to every waiter* (its starvation mode): strong
  fairness on the lock steps of `EngineClock` and `TokenSource`.
* *A live FALCON socket carries frames, and a dead or closed one ends the pump*
  (the reader goroutine fails, or the idle timer fires).
* *A repeated dial to an endpoint that is up succeeds sooner or later* (strong
  fairness), and a buffered job is received sooner or later by a loop that keeps
  selecting (strong fairness on `Take` and `Skip`).

What a property needs beyond that, it states itself, as its antecedent:

* `ParkedIsWoken`: the exchanges of the callers in the gate end.
* `CallsReturn` of `RequestPipeline`: a call returns or waits for ever for the answer
  to its own request, with a context that lives.  No other wait keeps it, above
  all not that of another call.
* `CallsReturn` of `FalconRouting`: the create's own probe ends and the way that
  carries it answers.  Neither is certain: `acquireCredit` waits for a credit as
  long as the context lives, and so does REST for an answer.  Of other callers'
  probes and creates nothing is assumed, and `NobodyWaitsForProbe` holds of all.
* `DetectionSettles`: workers are run again and again and look before they are
  cancelled now and then, and the gateway answers a probe in full now and then.
* `PollReturns`: the looks of that `Poll` and the requests to the engine end, and the
  clock is not set back to real time again and again; then every wait is
  either a step forward or an error, which ends the `Poll`.

`AsksAgain`, `SidecarAsksAgain` and the `RunReturns` of both workers have no
antecedent: a worker that has not been cancelled may sit in one poll for ever, and
then it is asking; a cancelled one returns, because the context ends its polls.

There is none on cancellation, timeouts of a caller, signals, crashes, or the
passing of real time.

## Findings

1. `streamworker.go:37-39` calls a dropped push impossible; after a failover the
   buffer still holds jobs of the old window while the new one grants a full
   window, and a push is dropped, with its credit.  On the first connection the
   comment is right, which `CreditsAreConserved` proves (`FirstWindowIsEnough`).
2. `README.md:255` and `worker.go:320-322` promise that finished work is
   acknowledged on shutdown; `runFalcon` closes the socket right after the
   handlers ended, while acknowledgements may be queued for its writer.  That it does wait for the
   handlers is `WorkerKeepsContract`.
3. `falcon.go:31-32` promises that a brief first deadline never forces REST for
   good.  A deadline that ends, or a connection that breaks, after the 2xx header
   and before the end of the body is decoded as "stock Camunda" by `Detect`
   (`internal/falcon/falcon.go:78-81`), and that verdict is cached for good.
   The mistake has one direction: `StreamIsNeverGuessed` proves that the stream is
   never used where there is none.
4. `engineclock.go:94` and `engineclock_test.go:204-206` say that waits never
   move the clock back; the first wait of an unpinned clock publishes an instant
   that real time has passed if the request took longer than the wait.

Divergences seen while modelling that have no run of their own:

* `producer.go:159-161` has `onDisconnect` fail in-flight creates so that callers
  retry them; a create registered before the disconnect and sent after the
  reconnect is failed although its frame is under way on the live socket, so a
  caller who retries may start two instances.  The retry transport likewise
  sends a REST create again when its answer was lost (`retry.go:137`).
  `CreateContract` is about one call of create and leaves room for both.
* `Release` cannot tell whether its `Acquire` counted: a request that passed
  while the gate was unlimited frees another request's permit once the gate has
  booted, so more requests than the cap may be admitted.  `NoPermitLeak` states
  the direction that holds.
* A submission credit taken before a disconnect is spent on the next socket,
  beyond the window that socket granted.
* After a FALCON failover a full window comes on top of what is still held, so
  up to one window per connection runs at once (`BoundedByWindows`).
* `lock` of the token source ignores the caller's context: a cancelled caller
  waits for another caller's fetch.
* `retry.go:82-83` says that the errors of an ended context or a deadline are never
  retried.  `fetch` drops the error of reading the body (`auth.go:149`), so a
  token request that is cut short within its body, by the client's 30 s or by the
  caller's context, fails with a status or decoding error, which is retried.
* Without a timeout in the `http.Client` (`client.go:91`) a request whose context
  has no deadline may wait for ever, and keeps its permit of the gate meanwhile;
  with the gate at its floor of one permit, that stops everybody else.

## Proofs

All theorems hold for every value of the constants under the modules' named
assumptions (finite sets of callers and jobs, positive limits and thresholds, a
cap not below its floor).  Nothing is assumed of the environment's behaviour.

* **Backpressure.**  `TypeCorrect`: the cap never falls below its floor, whatever
  the scaling.  `WakeupsAreNotLost`: `NoLostWakeup` is inductive with the types:
  a step that frees a permit or raises or lifts the cap broadcasts, and a step
  that parks has seen no free permit.  `PermitsDoNotLeak`: `NoPermitLeak` is not
  inductive, because a caller's mode and its place must agree for a release to
  belong to a counted request; the strengthening says that exactly the callers
  between grant and release have a mode, and cardinality lemmas
  carry the count through each step.  `WaitersAreCounted` is of the same kind.
  `LiftWaitsForCooldown`: readings are applied out of order, so no date is
  monotone; the strengthening says that no reading is ahead of the clock and that
  the healthy period began after a quiet one.  `DelayOnlyAtFloor`: every
  healthy hint ends the delay before it can raise the cap.  `LegacyProfileNeverGates`: in the
  observe-only profile the cap stays unlimited, so nobody waits, although
  pressure still shows as severity.
* **Retries and tokens.**  The four theorems about `RequestPipeline` share one
  invariant, `TokenInv`.  `PipelineTypeCorrect` bounds the attempts of a request,
  and is not inductive by itself: a call that sleeps between attempts must have one
  left (`BackoffInv`).  `FetchesAreSingleFlight` (`SingleFlight`) is that exactly
  the calls inside the critical section hold their source's mutex (`MutexInv`),
  whichever way out of `Token` they take: a failed fetch, an ended context or a
  restart.  `ExpiredTokensAreNotSent` follows each of the three ways to a token.
  One found in memory or in the file is not due, and a token is due before it
  expires (`TokensHonest`, with `NineTenths` of its lifetime as arithmetic).  A
  fetched one outlives the fetch's timeout, and `FetchInv` carries that over the
  wait for the endpoint.  `TokensAreReplacedWhenDue` needs that nobody else touches
  the memory of a source while a fetch is under way (`OthersWait`).  Assumed are
  that every issued token lives longer than a fetch may take and that the empty
  mutex is no call.
* **FALCON link.**  `LinkIsSafe`: types and `SocketsSafe`, which is `OneSocket`
  and `ClosedLeavesNothing` together.  A new socket is the only one
  because none is alive whenever the supervisor is about to dial, which neither
  property says: the strengthening (`NoneLeftOpen`) is that no socket is alive
  from the end of the pump to the next dial, nor after the supervisor has
  stopped, and the part of the type invariant that `close()` cannot come before
  the first dial was reported.
  `WorkerImplementsLink`: every step of `FalconWorker` is a link step or leaves
  the link alone; `WorkerSocketsAreSafe` follows, with no further invariant.
* **FALCON worker.**
  `CreditsAreConserved`: the worker's account of delivery credits.  The bound
  needs a sum, `WindowInv`: jobs held, credits the gateway has, credits on the
  way back and the window still to come never exceed the windows of the sockets
  so far.  That a socket brings one window only, and that a returned credit
  cannot miss the gateway that gave it, needs the life of a subscription
  (`SocketInv`): announced by the publication of its socket, asked for once, and
  in force only while that socket is the writer.  Counting frames needs how a
  queue's cardinalities change (`MarksAppend`, `MarksTail`), which holds for any
  queue without induction.  Its last part, that until the first failover no push
  is dropped and no more handlers run than `WithMaxConcurrentJobs` allows, follows
  from the bound: a push that found the buffer full would be one job more than the
  first window (`FirstPushFits`).
  `WorkerKeepsContract`: the worker implements `WorkerContract` with the limit
  `Credits * MaxConnects`, because the windows of the sockets so far bound what it
  holds, and that is at most one window per connection (`HeldFits`).  That `Run`
  returns only when all is quiet needs that no handler runs before the
  subscription is there, nor from the end of the drain on (`QuietOutside`).
* **FALCON producer.**  `ProducerImplementsLink` likewise.  `CreatesAreNotOrphaned`
  and `MapsAreCleared` share an invariant of a call's life (`CallInv`): a call is
  in a map only while it waits on that map's channel and nothing is in it; from
  its registration on it is in the map or its channel holds the answer; and one
  that is in a map after it read the writer has read the socket whose disconnect
  is still to come, which is where the link's `OneSocket` is needed.
  `ReplenishIsNotLost` needs the types only.  `CreditsAreNotLost` counts the calls
  that took a credit from the current window; a call that has yet to take one has
  none.  `ProducerKeepsContract`: the producer implements `CreateContract`.  A
  create is on no socket before its call has queued it and on one at most while
  it has not been executed, and whatever says "accepted", be it a frame, a
  channel or the wait for the result, says so of an executed one.
  `CreatesHappenOnce` is proved of the contract itself (once executed, a create
  stays with its way; once told, its caller is told nothing else; "ok" is true) and
  holds of the producer, and of routing, because they implement it.
* **FALCON routing.**  `TypeCorrect` includes that one caller probes and one dials
  at a time.  `VerdictStays` needs that nobody probes once there is a verdict.
  `RoutingKeepsContract`: a create is handed to one way only (`OneWay`), so what
  the gateway has, it has from that way, and no failure on the stream leads to
  REST.  Together with `ProducerKeepsContract` this is the stream's whole path.
  `StreamIsNeverGuessed`: nothing goes to a stream that is disabled or absent.  It
  needs where the capability came from (`StreamInv`): only a probe that FALCON's
  being enabled has let through stores one, a stored one is the gateway's own, and
  a create on the stream has left a start of the producer behind that cannot be
  repeated.
* **Engine clock.**  `ClocksAgree`, `PinsGoForward` and `OverlappingWaitsSettle`
  share an invariant of what a request knows (`RequestInv`): from the gate to its
  publication its instant is ahead of a pinned reading, because the instant is
  compared inside the gate; once executed it is what the engine has; and before
  that reading and engine agree, unless an answer was lost.
  `PollsKeepTheClock`: every step of a `Poll` is a step of the clock or leaves it
  alone, so the three hold while Polls run.  `TimeoutsAreHonest`: a `Poll` that is
  under way has no result yet, and one about to be judged missed an entity that
  was not visible when its look began (`LookInv`).  `PollsAreTyped` includes that a
  `Poll` sleeps just while its wait is under way on the clock.
* **Polling worker.**  `PollingKeepsContract`: `RestJobWorker` implements
  `WorkerContract` for any number of jobs, hand-outs and slots.  The contract
  alone is not inductive.  That a batch fits needs the slots counted *before* the
  request to be free still *after* it (`SlotsCounted`: running handlers ≤
  `inFlight`, and `inFlight + free` ≤ the limit); that a batch disturbs no
  running handler needs new activations to be unused (`FreshUnused`); that `Run`
  leaves nobody behind needs `QuietOutside`.  `TypeCorrect` includes that the
  in-flight counter stays between zero and the limit.
  `HandlersAreCapped` reads the contract off the state, here and for the other two
  workers.
  `LateAcknowledgementsAreFenced`: for a worker that asked for leases, every
  handler holds the token of its job (`HandlersAreLeased`), because an answer is
  dispatched as a whole or not at all; the acknowledgement is the only step that
  ends a handler, and the engine compares its token.
* **Streaming worker.**  `StreamingKeepsContract`: the loop and the sidecar do not
  see each other, so the invariant speaks of what they share: the semaphore holds
  exactly one token per handler (`TokensAreHandlers`), and once `Run` has returned
  the sidecar has ended and no handler runs (`QuietOutside`).
  `NoStreamLeftOpen`: every way out of `streamOnce` closes the stream.
  `LateAcknowledgementsAreFenced` has to follow a job through both entrances, from
  its admission to its handler (`AdmittedAreLeased`).  `TypeCorrect` includes that
  the semaphore is never over its capacity or released below zero, and that the
  loop has a job in hand just when it waits for a slot.

Only model-checked: all liveness, because fairness and `ENABLED` are out of the
prover's reach.  Every invariant and every safety property of the passing runs is
also proved.  The statements of the four runs that end in a violation are false of
the code; what is true in their place is said under *Findings*.
No claim rests on induction over data, and no module that is proved about reaches
a recursive operator.

## What is not modelled, and why

* Frames, JSON, headers, file names and job variables are data: a frame is its
  kind and its correlation id, a token its two instants.
* The 64-frame queue of a socket is never full (fewer frames than that exist in
  an instance).  The length of a backoff and its jitter are any time.
* The idle timeout of the pump is an exit that is always possible.
* `TokenSource`: `CacheDir` unset behaves like a file that cannot be written.  A
  truncated file reads as no token.  The lifetime of a token exceeds the 30 s a
  fetch may take, and the write of the file takes no time that the clock shows.
  An OAuth answer with a 4xx status is retried like any other error.  A timeout or
  an ended context is terminal before the answer's header and retried within
  its body, as in the code; `TokenFails` leaves open where it fell.
* `RequestPipeline`: whether a body can be rewound is chosen at every retry; one
  that cannot makes the retry layer return the outcome it has.
* `StreamJobWorker` always has its sidecar poll; with `WithStreamPollInterval(0)`
  the code starts none, and the worker has the stream's behaviours only.
* `Poll`: the function it calls is a read; a predicate over a list is the same
  read.  `FalconRouting`: a body the stream cannot carry is a choice in each call.
* `SplitMix64` is one atomic addition followed by 64-bit multiplications, which
  TLC's 32-bit integers cannot hold and which no other part depends on; a draw is
  any choice.
* Configuration, default tenant, diagnostics, generated code and generators keep
  no state that a step of another part could find stale.
* Of the implementation's lines some 97 in 100 are generated (`client/`, `pb/`,
  `facade_generated.go`, `reexport_generated.go`): data types and one pass-through
  per REST operation.  A definition for each would repeat the text and say
  nothing, so the share of lines the map covers stays small; of the hand-written
  runtime it covers every part that keeps state.

## Plan

Done: backpressure, retries and tokens; the FALCON link, producer and worker; FALCON
detection and routing; REST and stream workers; the engine clock and the poll
helper on it.  All their safety is proved, and the three workers implement one
contract, producer and routing another.

Next, theorems: a contract of the gate as a semaphore whose cap moves, with the
number of requests that passed while it was lifted as the slack; what the truth of
a verdict depends on besides cut-off answers.

Next, modules: precedence of the configuration's layers as a pure function.
