-------------------------- MODULE RequestPipeline ---------------------------
(***************************************************************************)
(* The retry and authentication layers below the backpressure gate         *)
(* (transport.New): retry.Transport makes up to MaxAttempts attempts, and  *)
(* each goes through auth.Transport, which asks the token source anew.     *)
(* One call here is what Backpressure.tla has between a grant and the      *)
(* reply or error on the wire.  Basic and no authentication skip Token.    *)
(***************************************************************************)
EXTENDS TokenSource

CONSTANT MaxAttempts

ASSUME AttemptsAssumption == MaxAttempts \in Nat \ {0}

VARIABLES
    attempt,        \* index of the attempt
    cancelled       \* the request's context has ended

call == <<attempt, cancelled>>
source == <<store, sourceOf, clock, asked, token>>
pipeline == <<source, step, call>>

PipelineInit ==
    /\ TokenInit
    /\ attempt = [c \in Calls |-> 0]
    /\ cancelled = [c \in Calls |-> FALSE]

(* RoundTrip is called.                                                    *)
Call(c) ==
    /\ step[c] = "idle"
    /\ Goto(c, "locking")
    /\ UNCHANGED <<source, call>>

(* These calls of RoundTrip return, or end with their process: their       *)
(* locals are gone.                                                        *)
Stop(calls) ==
    /\ step' = [c \in Calls |-> IF c \in calls THEN "idle" ELSE step[c]]
    /\ asked' = [c \in Calls |-> IF c \in calls THEN 0 ELSE asked[c]]
    /\ token' = [c \in Calls |-> IF c \in calls THEN NoToken ELSE token[c]]
    /\ attempt' = [c \in Calls |-> IF c \in calls THEN 0 ELSE attempt[c]]
    /\ cancelled' = [c \in Calls |-> c \notin calls /\ cancelled[c]]

ContextEnds(c) ==
    /\ step[c] # "idle" /\ ~cancelled[c]
    /\ cancelled' = [cancelled EXCEPT ![c] = TRUE]
    /\ UNCHANGED <<source, step, attempt>>

(* A retryable error or status: retried unless this attempt was the last.  *)
Retry(c) ==
    /\ attempt[c] < MaxAttempts - 1
    /\ Goto(c, "backoff")
    /\ asked' = [asked EXCEPT ![c] = 0] /\ token' = [token EXCEPT ![c] = NoToken]
    /\ UNCHANGED call

GetToken(c) ==
    /\ Look(c, "sending") \/ Issue(c) \/ Receive(c, "sending") \/ Save(c, "sending")
    /\ UNCHANGED call

(* Before the answer's header, an ended context and the token client's     *)
(* timeout, which matches context.DeadlineExceeded, are terminal errors.   *)
(* Within its body they show as a status or a decoding error, because the  *)
(* error of the read is dropped; those are retried like any other.         *)
TokenFails(c) ==
    /\ FetchFails(c)
    /\ \/ /\ cancelled[c] \/ ~InTime(c) \/ attempt[c] = MaxAttempts - 1
          /\ Stop({c})
       \/ Retry(c)

(* The base transport looks at the context before it sends.                *)
Send(c) ==
    /\ step[c] = "sending"
    /\ \/ cancelled[c] /\ Stop({c})
       \/ ~cancelled[c] /\ Goto(c, "awaiting") /\ UNCHANGED <<asked, token, call>>
    /\ UNCHANGED <<store, sourceOf, clock>>

(* Fault: retries are made below authentication, with the same token.      *)
OutcomeBelowAuth(c) ==
    /\ step[c] = "awaiting"
    /\ \/ Stop({c})
       \/ /\ ~cancelled[c] /\ attempt[c] < MaxAttempts - 1
          /\ attempt' = [attempt EXCEPT ![c] = @ + 1]
          /\ Goto(c, "sending") /\ UNCHANGED <<asked, token, cancelled>>
    /\ UNCHANGED <<store, sourceOf, clock>>

(* A response or error that is final, or one that may be retried; it may   *)
(* have arrived before the context ended.                                  *)
Outcome(c) ==
    /\ step[c] = "awaiting"
    /\ \/ Stop({c})
       \/ Retry(c)
    /\ UNCHANGED <<store, sourceOf, clock>>

(* Nothing is left of the retry but to return the last outcome, if the     *)
(* body cannot be rewound or the context cuts the jittered sleep short;    *)
(* the next attempt asks for a token again.                                *)
Backoff(c) ==
    /\ step[c] = "backoff"
    /\ \/ Stop({c})
       \/ /\ ~cancelled[c]
          /\ attempt' = [attempt EXCEPT ![c] = @ + 1]
          /\ Goto(c, "locking") /\ UNCHANGED <<asked, token, cancelled>>
    /\ UNCHANGED <<store, sourceOf, clock>>

Proceed(c) == GetToken(c) \/ TokenFails(c) \/ Send(c) \/ Outcome(c) \/ Backoff(c)

(* A process ends and another starts: the memory is lost, the file stays.  *)
Restart(s) ==
    LET its == {c \in Calls : sourceOf[c] = s} IN
    /\ \E c \in its : step[c] # "idle"
    /\ memory' = [memory EXCEPT ![s] = NoToken]
    /\ lock' = [lock EXCEPT ![s] = Nobody]
    /\ Stop(its)
    /\ UNCHANGED <<disk, sourceOf, clock>>

PipelineNext ==
    \/ \E c \in Calls : Call(c) \/ ContextEnds(c) \/ Proceed(c)
    \/ \E s \in Sources : Restart(s)
    \/ TimePasses /\ UNCHANGED call

PipelineSpec == PipelineInit /\ [][PipelineNext]_pipeline

(* Callers are scheduled, fetches end (the token client's timeout), sleeps *)
(* end, and sync.Mutex hands the lock to everyone who waits (its           *)
(* starvation mode).  The request itself has no timeout, and is sure to    *)
(* end only when its context has.                                          *)
PipelineFairSpec ==
    /\ PipelineSpec
    /\ \A c \in Calls : /\ WF_pipeline(step[c] # "awaiting" /\ Proceed(c))
                       /\ WF_pipeline(cancelled[c] /\ Outcome(c))
                       /\ SF_pipeline(Look(c, "sending") /\ UNCHANGED call)

-----------------------------------------------------------------------------
CallSteps == {"idle", "locking", "fetching", "issued", "saving", "sending",
              "awaiting", "backoff"}

PipelineTypeOK ==
    /\ sourceOf \in [Calls -> Sources]
    /\ memory \in [Sources -> Tokens] /\ disk \in Tokens
    /\ lock \in [Sources -> Calls \cup {Nobody}]
    /\ clock \in Times
    /\ step \in [Calls -> CallSteps]
    /\ asked \in [Calls -> Times] /\ token \in [Calls -> Tokens]
    /\ attempt \in [Calls -> 0..MaxAttempts - 1]
    /\ cancelled \in [Calls -> BOOLEAN]

(* Every call returns, unless it waits for ever for the answer to its own  *)
(* request, with a context that does not end: its attempts are bounded, a  *)
(* call that waits so keeps nobody else, and no failed fetch, timeout,     *)
(* cancellation or restart leaves the token mutex locked.                  *)
CallsReturn ==
    \A c \in Calls :
        \/ []<>(step[c] = "idle")
        \/ <>[](step[c] = "awaiting" /\ ~cancelled[c])
=============================================================================
