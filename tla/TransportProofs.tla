-------------------------- MODULE TransportProofs --------------------------
(***************************************************************************)
(* Proofs about the layers of a request (transport.New): first those below *)
(* the gate, RequestPipeline with its token source, for any number of      *)
(* calls, sources, attempts and lifetimes; then the gate, Backpressure,    *)
(* for any number of callers, any tuning of the manager and both profiles. *)
(***************************************************************************)
EXTENDS RequestPipeline, Backpressure, FiniteSetTheorems, TLAPS

-----------------------------------------------------------------------------
(* Below the gate: retries, authentication and the token source.           *)

(* A token is due before the lifetime that was told is over.               *)
LEMMA NineTenths ==
    ASSUME NEW told \in Nat
    PROVE  (told * 9) \div 10 \in Nat /\ (told * 9) \div 10 <= told
OBVIOUS

(* Calls that end, and calls that will try again, are well typed.          *)
LEMMA StopType ==
    ASSUME PipelineTypeOK, NEW calls, Stop(calls)
    PROVE  /\ step' \in [Calls -> CallSteps]
           /\ asked' \in [Calls -> Times] /\ token' \in [Calls -> Tokens]
           /\ attempt' \in [Calls -> 0..MaxAttempts - 1]
           /\ cancelled' \in [Calls -> BOOLEAN]
<1> USE DEF Stop, PipelineTypeOK
<1>1. 0 \in Times /\ NoToken \in Tokens /\ 0 \in 0..MaxAttempts - 1
  BY TokenAssumption, AttemptsAssumption DEF Times, Tokens, NoToken
<1>2. step' \in [Calls -> CallSteps]
  BY DEF CallSteps
<1>3. asked' \in [Calls -> Times] /\ token' \in [Calls -> Tokens]
  BY <1>1
<1>4. attempt' \in [Calls -> 0..MaxAttempts - 1]
  BY <1>1
<1>5. cancelled' \in [Calls -> BOOLEAN]
  BY Zenon
<1> QED BY <1>2, <1>3, <1>4, <1>5

LEMMA RetryType ==
    ASSUME PipelineTypeOK, NEW c \in Calls, Retry(c)
    PROVE  /\ step' \in [Calls -> CallSteps]
           /\ asked' \in [Calls -> Times] /\ token' \in [Calls -> Tokens]
           /\ UNCHANGED call
<1>1. 0 \in Times /\ NoToken \in Tokens
  BY TokenAssumption DEF Times, Tokens, NoToken
<1> QED BY <1>1 DEF Retry, Goto, PipelineTypeOK, CallSteps

LEMMA PipelineInitType == PipelineInit => PipelineTypeOK
BY TokenAssumption, AttemptsAssumption
   DEF PipelineInit, TokenInit, PipelineTypeOK, Times, Tokens, NoToken, CallSteps

LEMMA IssueType ==
    ASSUME PipelineTypeOK, NEW c \in Calls, Issue(c)
    PROVE  token' \in [Calls -> Tokens]
<1> USE TokenAssumption
<1>1. PICK life \in Lifetimes, told \in Lifetimes \cup {DefaultLifetime} :
           token' = [token EXCEPT ![c] =
                [due |-> asked[c] + (told * 9) \div 10, expires |-> clock + life]]
  BY DEF Issue
<1>2. life \in Nat /\ told \in Nat /\ clock \in Nat /\ asked[c] \in Nat
  BY DEF PipelineTypeOK, Times
<1>3. [due |-> asked[c] + (told * 9) \div 10, expires |-> clock + life] \in Tokens
  <2>1. (told * 9) \div 10 \in Nat
    BY <1>2, NineTenths
  <2> QED BY <1>2, <2>1 DEF Tokens
<1> QED BY <1>1, <1>3 DEF PipelineTypeOK

(* Only a call with an attempt left waits for one: without this, the next  *)
(* attempt could be one too many.                                          *)
BackoffInv == \A c \in Calls : step[c] = "backoff" => attempt[c] < MaxAttempts - 1

LEMMA PipelineStepType ==
    PipelineTypeOK /\ BackoffInv /\ [PipelineNext]_pipeline => PipelineTypeOK'
<1> SUFFICES ASSUME PipelineTypeOK, BackoffInv, [PipelineNext]_pipeline
             PROVE  PipelineTypeOK'
  OBVIOUS
<1> USE TokenAssumption, AttemptsAssumption
<1>1. ASSUME NEW c \in Calls, Call(c) PROVE PipelineTypeOK'
  BY <1>1 DEF Call, Goto, call, source, store, PipelineTypeOK, CallSteps
<1>2. ASSUME NEW c \in Calls, ContextEnds(c) PROVE PipelineTypeOK'
  BY <1>2 DEF ContextEnds, source, store, PipelineTypeOK
<1>3. ASSUME NEW c \in Calls, Look(c, "sending"), UNCHANGED call PROVE PipelineTypeOK'
  <2>1. CASE Found(c, "sending")
    BY <1>3, <2>1 DEF Found, Held, Keep, Goto, call, PipelineTypeOK, CallSteps
  <2>2. CASE StartFetch(c)
    BY <1>3, <2>2 DEF StartFetch, Goto, call, PipelineTypeOK, CallSteps
  <2> QED BY <1>3, <2>1, <2>2 DEF Look
<1>4. ASSUME NEW c \in Calls, Issue(c), UNCHANGED call PROVE PipelineTypeOK'
  <2>1. token' \in [Calls -> Tokens]
    BY <1>4, IssueType
  <2> QED BY <1>4, <2>1 DEF Issue, Goto, call, store, PipelineTypeOK, CallSteps
<1>5. ASSUME NEW c \in Calls, Receive(c, "sending"), UNCHANGED call PROVE PipelineTypeOK'
  <2>1. 0 \in Times /\ NoToken \in Tokens
    BY DEF Times, Tokens, NoToken
  <2> QED BY <1>5, <2>1 DEF Receive, Keep, Unlock, Goto, call, PipelineTypeOK, CallSteps
<1>6. ASSUME NEW c \in Calls, Save(c, "sending"), UNCHANGED call PROVE PipelineTypeOK'
  BY <1>6 DEF Save, Unlock, Goto, call, PipelineTypeOK, CallSteps
<1>7. ASSUME NEW c \in Calls, TokenFails(c) PROVE PipelineTypeOK'
  <2>1. /\ lock' \in [Sources -> Calls \cup {Nobody}]
        /\ UNCHANGED <<memory, disk, sourceOf, clock>>
    BY <1>7 DEF TokenFails, FetchFails, Unlock, PipelineTypeOK
  <2>2. CASE Stop({c})
    BY <2>1, <2>2, StopType DEF PipelineTypeOK
  <2>3. CASE Retry(c)
    BY <2>1, <2>3, RetryType DEF call, PipelineTypeOK
  <2> QED BY <1>7, <2>2, <2>3 DEF TokenFails
<1>8. ASSUME NEW c \in Calls, Send(c) \/ Outcome(c) \/ Backoff(c) PROVE PipelineTypeOK'
  <2>1. UNCHANGED <<store, sourceOf, clock>>
    BY <1>8 DEF Send, Outcome, Backoff
  <2>2. CASE Stop({c})
    BY <2>1, <2>2, StopType DEF store, PipelineTypeOK
  <2>3. CASE Retry(c)
    BY <2>1, <2>3, RetryType DEF store, call, PipelineTypeOK
  <2>4. CASE Goto(c, "awaiting") /\ UNCHANGED <<asked, token, call>>
    BY <2>1, <2>4 DEF Goto, store, call, PipelineTypeOK, CallSteps
  <2>5. CASE Backoff(c) /\ ~Stop({c})
    <3>1. attempt[c] + 1 \in 0..MaxAttempts - 1
      BY <2>5 DEF Backoff, BackoffInv, PipelineTypeOK
    <3> QED BY <2>1, <2>5, <3>1 DEF Backoff, Goto, store, PipelineTypeOK, CallSteps
  <2> QED BY <1>8, <2>2, <2>3, <2>4, <2>5 DEF Send, Outcome
<1>9. ASSUME NEW s \in Sources, Restart(s) PROVE PipelineTypeOK'
  <2>1. /\ Stop({c \in Calls : sourceOf[c] = s})
        /\ memory' = [memory EXCEPT ![s] = NoToken]
        /\ lock' = [lock EXCEPT ![s] = Nobody]
        /\ UNCHANGED <<disk, sourceOf, clock>>
    BY <1>9 DEF Restart
  <2>2. NoToken \in Tokens
    BY DEF Tokens, NoToken
  <2> QED BY <2>1, <2>2, StopType DEF PipelineTypeOK
<1>10. CASE TimePasses /\ UNCHANGED call
  BY <1>10 DEF TimePasses, store, call, PipelineTypeOK, Times
<1>11. CASE UNCHANGED pipeline
  BY <1>11 DEF pipeline, source, store, call, PipelineTypeOK
<1> QED BY <1>1, <1>2, <1>3, <1>4, <1>5, <1>6, <1>7, <1>8, <1>9, <1>10, <1>11
        DEF PipelineNext, Proceed, GetToken
(* Inside the critical section of Token, beyond the look at what there is. *)
Within == {"fetching", "issued", "saving"}

(* The mutex of a source is held from a fetch's start to Token's return,   *)
(* and by nobody else.                                                     *)
MutexInv ==
    /\ \A c \in Calls : step[c] \in Within => lock[sourceOf[c]] = c
    /\ \A s \in Sources : lock[s] # Nobody =>
          sourceOf[lock[s]] = s /\ step[lock[s]] \in Within

(* A token that is not due has not expired.                                *)
Honest(t) == t.due <= t.expires

TokensHonest ==
    /\ Honest(disk)
    /\ \A s \in Sources : Honest(memory[s])
    /\ \A c \in Calls : Honest(token[c])

(* What a call knows inside the critical section: the fetch set out in the *)
(* past, its source still has the token that was due then, the token on    *)
(* its way outlives the timeout of the fetch, and the received one is      *)
(* unexpired while it is written.                                          *)
FetchInv ==
    \A c \in Calls :
        /\ step[c] \in {"fetching", "issued"} =>
              asked[c] <= clock /\ Held(c).due <= asked[c]
        /\ step[c] = "issued" => asked[c] + FetchTimeout < token[c].expires
        /\ step[c] = "saving" => clock < token[c].expires

LEMMA StepBackoffInv ==
    PipelineTypeOK /\ BackoffInv /\ [PipelineNext]_pipeline => BackoffInv'
<1> SUFFICES ASSUME PipelineTypeOK, BackoffInv, [PipelineNext]_pipeline
             PROVE  BackoffInv'
  OBVIOUS
<1> USE DEF PipelineTypeOK, BackoffInv
<1>1. ASSUME NEW c \in Calls, Stop({c}) PROVE BackoffInv'
  BY <1>1 DEF Stop
<1>2. ASSUME NEW c \in Calls, Retry(c) PROVE BackoffInv'
  BY <1>2 DEF Retry, Goto, call
<1>3. ASSUME NEW c \in Calls, Call(c) \/ ContextEnds(c) PROVE BackoffInv'
  BY <1>3 DEF Call, ContextEnds, Goto, call
<1>4. ASSUME NEW c \in Calls, GetToken(c) PROVE BackoffInv'
  BY <1>4 DEF GetToken, Look, Found, StartFetch, Issue, Receive, Save, Goto, call
<1>5. ASSUME NEW c \in Calls, TokenFails(c) \/ Outcome(c) PROVE BackoffInv'
  BY <1>1, <1>2, <1>5 DEF TokenFails, Outcome
<1>6. ASSUME NEW c \in Calls, Send(c) \/ Backoff(c) PROVE BackoffInv'
  BY <1>1, <1>6 DEF Send, Backoff, Goto, call
<1>7. ASSUME NEW s \in Sources, Restart(s) PROVE BackoffInv'
  BY <1>7 DEF Restart, Stop
<1>8. CASE UNCHANGED pipeline \/ (TimePasses /\ UNCHANGED call)
  BY <1>8 DEF TimePasses, pipeline, source, call
<1> QED BY <1>3, <1>4, <1>5, <1>6, <1>7, <1>8 DEF PipelineNext, Proceed

(* A failed fetch, a timeout, the end of a context and a restart unlock.   *)
LEMMA StepMutex == PipelineTypeOK /\ MutexInv /\ [PipelineNext]_pipeline => MutexInv'
<1> SUFFICES ASSUME PipelineTypeOK, MutexInv, [PipelineNext]_pipeline PROVE MutexInv'
  OBVIOUS
<1> USE TokenAssumption DEF PipelineTypeOK, MutexInv, Within
<1>1. ASSUME NEW c \in Calls, Call(c) \/ ContextEnds(c) PROVE MutexInv'
  BY <1>1 DEF Call, ContextEnds, Goto, source, store
<1>2. ASSUME NEW c \in Calls, Look(c, "sending") PROVE MutexInv'
  BY <1>2 DEF Look, Found, StartFetch, Goto
<1>3. ASSUME NEW c \in Calls, Issue(c) \/ Receive(c, "sending") \/ Save(c, "sending")
      PROVE  MutexInv'
  BY <1>3 DEF Issue, Receive, Save, Goto, Unlock, store
<1>4. ASSUME NEW c \in Calls, TokenFails(c) PROVE MutexInv'
  BY <1>4 DEF TokenFails, FetchFails, Stop, Retry, Goto, Unlock
<1>5. ASSUME NEW c \in Calls, Send(c) \/ Outcome(c) \/ Backoff(c) PROVE MutexInv'
  BY <1>5 DEF Send, Outcome, Backoff, Stop, Retry, Goto, store
<1>6. ASSUME NEW s \in Sources, Restart(s) PROVE MutexInv'
  BY <1>6 DEF Restart, Stop
<1>7. CASE UNCHANGED pipeline \/ (TimePasses /\ UNCHANGED call)
  BY <1>7 DEF TimePasses, pipeline, source, store
<1> QED BY <1>1, <1>2, <1>3, <1>4, <1>5, <1>6, <1>7 DEF PipelineNext, Proceed, GetToken

LEMMA StepHonest ==
    PipelineTypeOK /\ TokensHonest /\ FetchInv /\ [PipelineNext]_pipeline => TokensHonest'
<1> SUFFICES ASSUME PipelineTypeOK, TokensHonest, FetchInv, [PipelineNext]_pipeline
             PROVE  TokensHonest'
  OBVIOUS
<1> USE DEF PipelineTypeOK, TokensHonest
<1>0. Honest(NoToken)
  BY DEF Honest, NoToken
<1>1. ASSUME NEW c \in Calls, Call(c) \/ ContextEnds(c) PROVE TokensHonest'
  BY <1>1 DEF Call, ContextEnds, source, store
<1>2. ASSUME NEW c \in Calls, Look(c, "sending") PROVE TokensHonest'
  BY <1>2 DEF Look, Found, StartFetch, Keep, Held
<1>3. ASSUME NEW c \in Calls, Issue(c) PROVE TokensHonest'
  <2> USE TokenAssumption
  <2>1. PICK life \in Lifetimes, told \in Lifetimes \cup {DefaultLifetime} :
           /\ told <= life
           /\ token' = [token EXCEPT ![c] =
                [due |-> asked[c] + (told * 9) \div 10, expires |-> clock + life]]
    BY <1>3 DEF Issue
  <2>2. life \in Nat /\ told \in Nat /\ clock \in Nat /\ asked[c] \in Nat
    BY DEF Times
  <2>3. asked[c] <= clock
    BY <1>3 DEF Issue, FetchInv
  <2>4. asked[c] + (told * 9) \div 10 <= clock + life
    BY <2>1, <2>2, <2>3, NineTenths
  <2>5. Honest(token'[c])
    BY <2>1, <2>4 DEF Honest
  <2> QED BY <1>3, <2>1, <2>5 DEF Issue, store
<1>4. ASSUME NEW c \in Calls, Receive(c, "sending") \/ Save(c, "sending")
      PROVE  TokensHonest'
  BY <1>0, <1>4 DEF Receive, Save, Keep
<1>5. ASSUME NEW c \in Calls, TokenFails(c) \/ Send(c) \/ Outcome(c) \/ Backoff(c)
      PROVE  TokensHonest'
  BY <1>0, <1>5 DEF TokenFails, FetchFails, Send, Outcome, Backoff, Stop, Retry, store
<1>6. ASSUME NEW s \in Sources, Restart(s) PROVE TokensHonest'
  BY <1>0, <1>6 DEF Restart, Stop
<1>7. CASE UNCHANGED pipeline \/ (TimePasses /\ UNCHANGED call)
  BY <1>7 DEF TimePasses, pipeline, source, store
<1> QED BY <1>1, <1>2, <1>3, <1>4, <1>5, <1>6, <1>7 DEF PipelineNext, Proceed, GetToken

TokenInv == PipelineTypeOK /\ BackoffInv /\ MutexInv /\ TokensHonest /\ FetchInv

(* A fetch relies on its source: nobody else replaces what memory holds    *)
(* while it lasts.                                                         *)
LEMMA OthersWait ==
    ASSUME PipelineTypeOK, MutexInv, NEW c \in Calls, NEW d \in Calls,
           step[d] \in Within, d # c,
           \/ Look(c, "sending") \/ Issue(c)
           \/ Receive(c, "sending") \/ Save(c, "sending")
    PROVE  Held(d)' = Held(d)
BY TokenAssumption DEF PipelineTypeOK, MutexInv, Within, Look, Found, StartFetch, Issue,
   Receive, Save, Keep, Held, store

LEMMA StepFetch == TokenInv /\ [PipelineNext]_pipeline => FetchInv'
<1> SUFFICES ASSUME TokenInv, [PipelineNext]_pipeline PROVE FetchInv'
  OBVIOUS
<1> USE TokenAssumption DEF TokenInv, PipelineTypeOK, FetchInv, Times
<1>1. ASSUME NEW c \in Calls, Call(c) \/ ContextEnds(c) PROVE FetchInv'
  BY <1>1 DEF Call, ContextEnds, Goto, Held, source, store
<1>2. ASSUME NEW c \in Calls, Look(c, "sending") PROVE FetchInv'
  <2>1. ASSUME NEW d \in Calls, d # c PROVE step[d] \in Within => Held(d)' = Held(d)
    BY <1>2, <2>1, OthersWait
  <2>2. CASE Found(c, "sending")
    BY <2>1, <2>2 DEF Found, Goto, Within
  <2>3. CASE StartFetch(c) /\ ~Fresh(Held(c))
    <3>1. asked'[c] <= clock' /\ Held(c)'.due <= asked'[c]
      BY <2>3 DEF StartFetch, Fresh, Held, Tokens
    <3> QED BY <2>1, <2>3, <3>1 DEF StartFetch, Goto, Within
  <2> QED BY <1>2, <2>2, <2>3 DEF Look
<1>3. ASSUME NEW c \in Calls, Issue(c) PROVE FetchInv'
  <2>1. PICK life \in Lifetimes, told \in Lifetimes \cup {DefaultLifetime} :
           token' = [token EXCEPT ![c] =
                [due |-> asked[c] + (told * 9) \div 10, expires |-> clock + life]]
    BY <1>3 DEF Issue
  <2>2. life \in Nat /\ life > FetchTimeout /\ token'[c].expires = clock + life
    BY <2>1
  <2>3. asked[c] <= clock
    BY <1>3 DEF Issue
  <2>4. asked[c] + FetchTimeout < token'[c].expires
    BY <2>2, <2>3
  <2> QED BY <1>3, <2>1, <2>4 DEF Issue, Goto, Held, store
<1>4. ASSUME NEW c \in Calls, Receive(c, "sending") PROVE FetchInv'
  <2>1. ASSUME NEW d \in Calls, d # c PROVE step[d] \in Within => Held(d)' = Held(d)
    BY <1>4, <2>1, OthersWait
  <2>2. clock < token[c].expires
    BY <1>4 DEF Receive, InTime, Tokens
  <2> QED BY <1>4, <2>1, <2>2 DEF Receive, Goto, Within
<1>5. ASSUME NEW c \in Calls, Save(c, "sending") PROVE FetchInv'
  <2>1. ASSUME NEW d \in Calls, d # c PROVE step[d] \in Within => Held(d)' = Held(d)
    BY <1>5, <2>1, OthersWait
  <2> QED BY <1>5, <2>1 DEF Save, Goto, Within
<1>6. ASSUME NEW c \in Calls, TokenFails(c) \/ Send(c) \/ Outcome(c) \/ Backoff(c)
      PROVE  FetchInv'
  BY <1>6 DEF TokenFails, FetchFails, Send, Outcome, Backoff, Stop, Retry, Goto, Held, store
<1>7. ASSUME NEW s \in Sources, Restart(s) PROVE FetchInv'
  BY <1>7 DEF Restart, Stop, Held
<1>8. CASE TimePasses
  BY <1>8 DEF TimePasses, Held, store
<1>9. CASE UNCHANGED pipeline
  BY <1>9 DEF pipeline, Held, source, store
<1> QED BY <1>1, <1>2, <1>3, <1>4, <1>5, <1>6, <1>7, <1>8, <1>9
        DEF PipelineNext, Proceed, GetToken

LEMMA TokenInvHolds == PipelineSpec => []TokenInv
<1>1. PipelineInit => TokenInv
  <2> SUFFICES ASSUME PipelineInit PROVE TokenInv
    OBVIOUS
  <2>1. PipelineTypeOK
    BY PipelineInitType
  <2> QED BY <2>1 DEF PipelineInit, TokenInit, TokenInv, BackoffInv, MutexInv,
                 TokensHonest, Honest, FetchInv, NoToken, Within
<1>2. TokenInv /\ [PipelineNext]_pipeline => TokenInv'
  BY PipelineStepType, StepBackoffInv, StepMutex, StepHonest, StepFetch DEF TokenInv
<1> QED BY <1>1, <1>2, PTL DEF PipelineSpec

(* The state of the retry and authentication layers is well typed; above   *)
(* all, no request makes more than MaxAttempts attempts.                   *)
THEOREM PipelineTypeCorrect == PipelineSpec => []PipelineTypeOK
<1>1. TokenInv => PipelineTypeOK
  BY DEF TokenInv
<1> QED BY <1>1, TokenInvHolds, PTL

(* "Concurrent callers share a single in-flight fetch": a source never has *)
(* two, and its mutex is never held by a call that has left Token, however *)
(* it left.                                                                *)
SingleFlight ==
    /\ \A c, d \in Calls :
          sourceOf[c] = sourceOf[d] /\ {step[c], step[d]} \subseteq Within => c = d
    /\ \A s \in Sources : lock[s] # Nobody => step[lock[s]] \in Within

THEOREM FetchesAreSingleFlight == PipelineSpec => []SingleFlight
<1>1. TokenInv => SingleFlight
  BY DEF TokenInv, MutexInv, SingleFlight
<1> QED BY <1>1, TokenInvHolds, PTL

(* No request sets out with an expired token, wherever it came from and    *)
(* however long its caller waited for the mutex or the endpoint.           *)
THEOREM ExpiredTokensAreNotSent == PipelineSpec => TokenUnexpired
<1> DEFINE Valid ==
      \A c \in Calls :
          step[c] # "sending" /\ step'[c] = "sending" => clock < token'[c].expires
<1>1. TokenInv /\ [PipelineNext]_pipeline => [Valid]_<<step, token>>
  <2> SUFFICES ASSUME TokenInv, [PipelineNext]_pipeline, NEW c \in Calls,
                      step[c] # "sending", step'[c] = "sending"
               PROVE  clock < token'[c].expires
    OBVIOUS
  <2> USE TokenAssumption DEF TokenInv, PipelineTypeOK, Times, Tokens
  <2>1. CASE Look(c, "sending")
    <3>1. Found(c, "sending")
      BY <2>1 DEF Look, StartFetch, Goto
    <3>2. Fresh(token'[c]) /\ Honest(token'[c])
      BY <3>1 DEF Found, OnDisk, Held, TokensHonest
    <3>3. token'[c] \in Tokens
      BY <3>1 DEF Found, Held
    <3> QED BY <3>2, <3>3 DEF Fresh, Honest
  <2>2. CASE Receive(c, "sending")
    BY <2>2 DEF Receive, InTime, FetchInv
  <2>3. CASE Save(c, "sending")
    BY <2>3 DEF Save, FetchInv
  <2>4. Look(c, "sending") \/ Receive(c, "sending") \/ Save(c, "sending")
    <3>1. ASSUME NEW d \in Calls, Proceed(d), d # c PROVE step'[c] = step[c]
      <4>1. CASE GetToken(d)
        BY <3>1, <4>1 DEF GetToken, Look, Found, StartFetch, Issue, Receive, Save, Goto
      <4>2. CASE TokenFails(d) \/ Send(d) \/ Outcome(d) \/ Backoff(d)
        BY <3>1, <4>2 DEF TokenFails, Send, Outcome, Backoff, Stop, Retry, Goto
      <4> QED BY <3>1, <4>1, <4>2 DEF Proceed
    <3>2. CASE Proceed(c)
      BY <3>2 DEF Proceed, GetToken, Issue, TokenFails, Send, Outcome, Backoff, Stop,
         Retry, Goto
    <3>3. ASSUME NEW d \in Calls, Call(d) \/ ContextEnds(d) PROVE step'[c] # "sending"
      BY <3>3 DEF Call, ContextEnds, Goto
    <3>4. ASSUME NEW s \in Sources, Restart(s) PROVE step'[c] # "sending"
      BY <3>4 DEF Restart, Stop
    <3>5. CASE UNCHANGED pipeline \/ TimePasses
      BY <3>5 DEF pipeline, TimePasses
    <3> QED BY <3>1, <3>2, <3>3, <3>4, <3>5 DEF PipelineNext
  <2> QED BY <2>1, <2>2, <2>3, <2>4
<1> QED BY <1>1, TokenInvHolds, PTL DEF PipelineSpec, TokenUnexpired

(* Callers that waited for the mutex use what the first of them got: a     *)
(* token is replaced only if it was due when the replacement was asked for.*)
THEOREM TokensAreReplacedWhenDue == PipelineSpec => ReplacedOnlyWhenDue
<1>1. TokenInv => \A c \in Calls : step[c] = "issued" => Held(c).due <= asked[c]
  BY DEF TokenInv, FetchInv
<1> DEFINE Due ==
      \A c \in Calls :
          step[c] = "issued" /\ memory'[sourceOf[c]] = token[c] /\ step'[c] # step[c] =>
              Held(c).due <= asked[c]
<1>2. TokenInv /\ [PipelineNext]_pipeline => [Due]_<<step, memory>>
  BY <1>1
<1> QED BY <1>2, TokenInvHolds, PTL DEF PipelineSpec, ReplacedOnlyWhenDue

-----------------------------------------------------------------------------
(* The gate.                                                               *)

USE CapAssumption, TuningAssumption, ProfileAssumption

-----------------------------------------------------------------------------
(* The arithmetic of the cap.                                              *)

(* Shrinking stays between the floor and the old cap.                      *)
LEMMA ScaleBounds ==
    ASSUME NEW limit \in Nat, limit >= Floor, NEW percent \in Nat
    PROVE  /\ Scale(limit, percent) \in Nat
           /\ Floor <= Scale(limit, percent)
           /\ Scale(limit, percent) <= limit
<1>1. (limit * percent + 99) \div 100 \in Int
  <2>1. limit * percent + 99 \in Int
    OBVIOUS
  <2> QED BY <2>1
<1> QED BY <1>1 DEF Scale, Smaller, Larger

(* A signal, severe or soft, cuts the cap to a natural between the floor   *)
(* and the old cap.                                                        *)
LEMMA CutBounds ==
    ASSUME NEW limit \in Nat, limit >= Floor
    PROVE  \A factor \in {SevereFactor, SoftFactor} :
              /\ Scale(limit, factor) \in Nat
              /\ Floor <= Scale(limit, factor)
              /\ Scale(limit, factor) <= limit
<1>1. SevereFactor \in Nat /\ SoftFactor \in Nat
  BY DEF SevereFactor, SoftFactor
<1>2. \A percent \in Nat : /\ Scale(limit, percent) \in Nat
                          /\ Floor <= Scale(limit, percent)
                          /\ Scale(limit, percent) <= limit
  BY ScaleBounds
<1> QED BY <1>1, <1>2

(* Multiplicative growth never lowers the cap.                             *)
LEMMA GrowBounds ==
    ASSUME NEW limit \in Nat
    PROVE  Grow(limit) \in Nat /\ limit <= Grow(limit)
BY DEF Grow

LEMMA EscalateType ==
    ASSUME NEW delay \in Nat
    PROVE  Escalate(delay) \in Nat
BY DEF Escalate, Smaller

-----------------------------------------------------------------------------
LEMMA InitType == Init => TypeOK
BY DEF Init, TypeOK, Severities, Instants, Never, Steps, Modes

(* Leaving the transport, with or without a broadcast, keeps the callers   *)
(* well typed.                                                             *)
LEMMA LeaveType ==
    ASSUME TypeOK, NEW c \in Callers,
           Leave(c, Left(c)) \/ Leave(c, Broadcast(Left(c)))
    PROVE  /\ pc' \in [Callers -> Steps]
           /\ mode' \in [Callers -> Modes]
<1>1. Left(c) \in [Callers -> Steps]
  BY DEF Left, TypeOK, Steps
<1>2. Broadcast(Left(c)) \in [Callers -> Steps]
  BY <1>1 DEF Broadcast, Steps, Waiting
<1>3. pc' \in [Callers -> Steps]
  BY <1>1, <1>2 DEF Leave
<1>4. mode' \in [Callers -> Modes]
  BY DEF Leave, TypeOK, Modes
<1> QED BY <1>3, <1>4

LEMMA StepType == TypeOK /\ [Next]_vars => TypeOK'
<1> SUFFICES ASSUME TypeOK, [Next]_vars PROVE TypeOK'
  OBVIOUS
<1> USE DEF manager, health
<1>1. ASSUME NEW c \in Callers, SendExempt(c) PROVE TypeOK'
  <2>1. pc' \in [Callers -> Steps]
    BY <1>1 DEF SendExempt, Granted, TypeOK, Steps
  <2> QED BY <1>1, <2>1 DEF SendExempt, Granted, TypeOK, Modes
<1>2. ASSUME NEW c \in Callers, AcquireTop(c) PROVE TypeOK'
  <2>1. (IF backoff > 0 THEN "sleeping" ELSE "claim") \in Steps /\ "serving" \in Steps
    BY DEF Steps
  <2>2. pc' \in [Callers -> Steps]
    BY <1>2, <2>1 DEF AcquireTop, Granted, TypeOK
  <2> QED BY <1>2, <2>2 DEF AcquireTop, Granted, TypeOK, Modes
<1>3. ASSUME NEW c \in Callers, BackoffElapsed(c) PROVE TypeOK'
  <2>1. pc' \in [Callers -> Steps]
    BY <1>3 DEF BackoffElapsed, TypeOK, Steps
  <2> QED BY <1>3, <2>1 DEF BackoffElapsed, TypeOK
<1>4. ASSUME NEW c \in Callers, Claim(c) PROVE TypeOK'
  <2>1. {"serving", "idle", "parked"} \subseteq Steps
    BY DEF Steps, Waiting
  <2>2. pc' \in [Callers -> Steps]
    BY <1>4, <2>1 DEF Claim, Granted, TypeOK
  <2> QED BY <1>4, <2>2 DEF Claim, Granted, TypeOK, Modes, Limited
<1>5. ASSUME NEW c \in Callers, WireError(c) PROVE TypeOK'
  BY <1>5, LeaveType DEF WireError, TypeOK
<1>6. ASSUME NEW c \in Callers, WireReply(c) PROVE TypeOK'
  <2>1. PICK status \in Statuses, body \in Bodies :
          \/ Leave(c, Left(c)) /\ UNCHANGED seen
          \/ /\ pc' = [pc EXCEPT ![c] = IF Observe(status, body) = "pressure"
                                          THEN "pressured" ELSE "healthy"]
             /\ seen' = [seen EXCEPT ![c] = now]
             /\ UNCHANGED mode
    BY <1>6 DEF WireReply
  <2>2. (IF Observe(status, body) = "pressure" THEN "pressured" ELSE "healthy") \in Steps
    BY DEF Steps
  <2>3. pc' \in [Callers -> Steps] /\ mode' \in [Callers -> Modes]
    BY <2>1, <2>2, LeaveType DEF TypeOK
  <2> QED BY <1>6, <2>1, <2>3 DEF WireReply, TypeOK
<1>7. ASSUME NEW c \in Callers, RecordBackpressure(c) PROVE TypeOK'
  <2>1. pc' \in [Callers -> Steps] /\ mode' \in [Callers -> Modes]
    BY <1>7, LeaveType DEF RecordBackpressure
  <2>2. ASSUME ~ObserveOnly PROVE permitsMax' \in {n \in Nat : n >= Floor}
    <3>1. Boot \in Nat /\ Boot >= Floor
      BY <2>2 DEF TypeOK, Limited, Boot
    <3>2. permitsMax' = Scale(Boot, SevereFactor) \/ permitsMax' = Scale(Boot, SoftFactor)
      BY <1>7, <2>2 DEF RecordBackpressure
    <3> QED BY <3>1, <3>2, CutBounds
  <2>3. ASSUME ObserveOnly PROVE permitsMax' = permitsMax
    BY <1>7, <2>3 DEF RecordBackpressure, Boot
  <2>4. backoff' \in Nat
    BY <1>7, EscalateType DEF RecordBackpressure, Delay, TypeOK
  <2>5. permitsCurrent' \in Nat
    BY <1>7 DEF RecordBackpressure, TypeOK, Smaller
  <2>6. severity' \in Severities /\ consecutive' \in 0..SevereThreshold
    BY <1>7 DEF RecordBackpressure, TypeOK, Smaller, Severities
  <2> QED BY <1>7, <2>1, <2>2, <2>3, <2>4, <2>5, <2>6
          DEF RecordBackpressure, TypeOK, Never
<1>8. ASSUME NEW c \in Callers, RecordHealthyHint(c) PROVE TypeOK'
  <2>1. CASE /\ ~RecoveryDue(seen[c]) /\ Leave(c, Left(c))
             /\ UNCHANGED <<health, permitsMax, permitsCurrent>>
    BY <1>8, <2>1, LeaveType DEF RecordHealthyHint, TypeOK, Never
  <2>2. CASE /\ RecoveryDue(seen[c]) /\ lastRecoverCheck' = seen[c]
             /\ Decay(seen[c]) /\ UNCHANGED lastEventAt
             /\ \/ AdditiveRecovery(c)
                \/ LiftGate(c, seen[c])
                \/ MultiplicativeGrowth(c, seen[c])
    <3>1. severity' \in Severities /\ consecutive' \in 0..SevereThreshold
      BY <2>2 DEF Decay, TypeOK, Severities
    <3>2. permitsMax \in Nat /\ permitsMax >= Floor
      BY <2>2 DEF RecoveryDue, TypeOK, Limited
    <3>3. /\ permitsMax' \in {Unlimited} \cup {n \in Nat : n >= Floor}
          /\ permitsCurrent' \in Nat
      BY <2>2, <3>2, GrowBounds
         DEF AdditiveRecovery, LiftGate, MultiplicativeGrowth, Smaller, TypeOK
    <3>4. pc' \in [Callers -> Steps] /\ mode' \in [Callers -> Modes]
      <4>1. Leave(c, Left(c)) \/ Leave(c, Broadcast(Left(c)))
        BY <2>2 DEF AdditiveRecovery, LiftGate, MultiplicativeGrowth
      <4> QED BY <4>1, LeaveType
    <3>5. {lastRecoverCheck', healthySince'} \subseteq Instants \cup {Never}
      BY <2>2 DEF Decay, TypeOK
    <3> QED BY <1>8, <2>2, <3>1, <3>3, <3>4, <3>5 DEF RecordHealthyHint, TypeOK, Never
  <2> QED BY <1>8, <2>1, <2>2 DEF RecordHealthyHint
<1>9. ASSUME NEW c \in Callers, Release(c) PROVE TypeOK'
  <2>1. pc' \in [Callers -> Steps]
    BY <1>9 DEF Release, Broadcast, TypeOK, Steps, Waiting
  <2>2. permitsCurrent' \in Nat
    BY <1>9 DEF Release, TypeOK, Larger
  <2>3. mode' \in [Callers -> Modes]
    BY <1>9 DEF Release, TypeOK, Modes
  <2> QED BY <1>9, <2>1, <2>2, <2>3 DEF Release, TypeOK
<1>10. ASSUME NEW c \in Callers, Resume(c) \/ Cancel(c) PROVE TypeOK'
  <2>1. pc' \in [Callers -> Steps]
    BY <1>10 DEF Resume, Cancel, TypeOK, Steps
  <2> QED BY <1>10, <2>1 DEF Resume, Cancel, TypeOK
<1>11. CASE Tick
  BY <1>11 DEF Tick, TypeOK, Instants
<1>12. CASE UNCHANGED vars
  BY <1>12 DEF vars, TypeOK
<1> QED BY <1>1, <1>2, <1>3, <1>4, <1>5, <1>6, <1>7, <1>8, <1>9, <1>10, <1>11, <1>12
        DEF Next

(* Type correctness of the manager and of the callers.                     *)
THEOREM TypeCorrect == Spec => []TypeOK
BY InitType, StepType, PTL DEF Spec

-----------------------------------------------------------------------------
(* Nobody stays parked on an open notify channel while a permit is free.   *)
LEMMA StepNoLostWakeup ==
    TypeOK /\ NoLostWakeup /\ [Next]_vars => NoLostWakeup'
<1> SUFFICES ASSUME TypeOK, NoLostWakeup, [Next]_vars,
                    NEW p \in Callers, pc'[p] = "parked"
             PROVE  (Limited /\ permitsCurrent >= permitsMax)'
  BY DEF NoLostWakeup
<1> USE DEF manager, health
<1>1. pc[p] = "parked" => Limited /\ permitsCurrent >= permitsMax
  BY DEF NoLostWakeup
<1>2. ASSUME NEW c \in Callers,
             \/ SendExempt(c) \/ AcquireTop(c) \/ BackoffElapsed(c)
             \/ Resume(c) \/ Cancel(c) \/ WireError(c) \/ WireReply(c)
      PROVE  (Limited /\ permitsCurrent >= permitsMax)'
  <2>1. pc[p] = "parked"
    BY <1>2 DEF SendExempt, AcquireTop, Granted, BackoffElapsed, Resume, Cancel,
                WireError, WireReply, Leave, Left, TypeOK
  <2>2. UNCHANGED <<permitsMax, permitsCurrent>>
    BY <1>2 DEF SendExempt, AcquireTop, BackoffElapsed, Resume, Cancel,
                WireError, WireReply
  <2> QED BY <1>1, <2>1, <2>2 DEF Limited
<1>3. ASSUME NEW c \in Callers, Claim(c)
      PROVE  (Limited /\ permitsCurrent >= permitsMax)'
  <2>1. CASE c = p
    BY <1>3, <2>1 DEF Claim, Granted, Limited, TypeOK
  <2>2. CASE c # p
    <3>1. pc[p] = "parked"
      BY <1>3, <2>2 DEF Claim, Granted, TypeOK
    <3> QED BY <1>1, <1>3, <3>1 DEF Claim, Limited, TypeOK
  <2> QED BY <2>1, <2>2
<1>4. ASSUME NEW c \in Callers, RecordBackpressure(c)
      PROVE  (Limited /\ permitsCurrent >= permitsMax)'
  <2>1. pc[p] = "parked"
    BY <1>4 DEF RecordBackpressure, Leave, Left, TypeOK
  <2>2. permitsMax \in Nat /\ permitsMax >= Floor /\ permitsCurrent >= permitsMax
    BY <1>1, <2>1 DEF Limited, TypeOK
  <2>3. permitsMax' \in Nat /\ permitsMax' <= permitsMax
    <3>1. \/ permitsMax' = permitsMax
          \/ permitsMax' = Scale(permitsMax, SevereFactor)
          \/ permitsMax' = Scale(permitsMax, SoftFactor)
      BY <1>1, <1>4, <2>1 DEF RecordBackpressure, Boot
    <3>2. \A f \in {SevereFactor, SoftFactor} :
             Scale(permitsMax, f) \in Nat /\ Scale(permitsMax, f) <= permitsMax
      BY <2>2, CutBounds
    <3> QED BY <2>2, <3>1, <3>2
  <2>4. permitsCurrent' = permitsCurrent
    BY <1>1, <1>4, <2>1 DEF RecordBackpressure
  <2> QED BY <2>2, <2>3, <2>4 DEF Limited, TypeOK
<1>5. ASSUME NEW c \in Callers, RecordHealthyHint(c)
      PROVE  (Limited /\ permitsCurrent >= permitsMax)'
  <2>1. pc' # Broadcast(Left(c))
    BY DEF Broadcast, Left, TypeOK
  <2>2. pc' = Left(c) /\ UNCHANGED <<permitsMax, permitsCurrent>>
    BY <1>5, <2>1 DEF RecordHealthyHint, AdditiveRecovery, LiftGate,
                      MultiplicativeGrowth, Leave
  <2>3. pc[p] = "parked"
    BY <2>2 DEF Left, TypeOK
  <2> QED BY <1>1, <2>2, <2>3 DEF Limited
<1>6. ASSUME NEW c \in Callers, Release(c)
      PROVE  (Limited /\ permitsCurrent >= permitsMax)'
  <2>1. pc' # Broadcast([pc EXCEPT ![c] = "idle"])
    BY DEF Broadcast, TypeOK
  <2>2. pc' = [pc EXCEPT ![c] = "idle"] /\ UNCHANGED <<permitsMax, permitsCurrent>>
    BY <1>6, <2>1 DEF Release
  <2>3. pc[p] = "parked"
    BY <2>2 DEF TypeOK
  <2> QED BY <1>1, <2>2, <2>3 DEF Limited
<1>7. CASE Tick
  BY <1>1, <1>7 DEF Tick, Limited
<1>8. CASE UNCHANGED vars
  BY <1>1, <1>8 DEF vars, Limited
<1> QED BY <1>2, <1>3, <1>4, <1>5, <1>6, <1>7, <1>8 DEF Next

(* No lost wake-up, for any number of callers and any tuning: a goroutine  *)
(* that waits on the notify channel waits for a permit that is not free.   *)
THEOREM WakeupsAreNotLost == Spec => []NoLostWakeup
<1>1. Init => NoLostWakeup
  BY DEF Init, NoLostWakeup
<1> QED BY <1>1, StepNoLostWakeup, TypeCorrect, PTL DEF Spec

-----------------------------------------------------------------------------
(* Where a caller is and how it passed the gate agree: a permit is held    *)
(* exactly between the grant and the Release.                              *)
ModesMatch ==
    \A c \in Callers :
        /\ mode[c] = "none" <=> pc[c] \in {"idle", "top", "sleeping", "claim"} \cup Waiting
        /\ pc[c] = "releasing" => mode[c] # "exempt"

LEMMA StepModesMatch == TypeOK /\ ModesMatch /\ [Next]_vars => ModesMatch'
<1> SUFFICES ASSUME TypeOK, ModesMatch, [Next]_vars, NEW p \in Callers
             PROVE  /\ mode'[p] = "none"
                         <=> pc'[p] \in {"idle", "top", "sleeping", "claim"} \cup Waiting
                    /\ pc'[p] = "releasing" => mode'[p] # "exempt"
  BY DEF ModesMatch
<1> USE DEF ModesMatch, TypeOK, Waiting
<1>1. ASSUME NEW c \in Callers,
             SendExempt(c) \/ AcquireTop(c) \/ BackoffElapsed(c) \/ Claim(c)
      PROVE  /\ mode'[p] = "none"
                  <=> pc'[p] \in {"idle", "top", "sleeping", "claim"} \cup Waiting
             /\ pc'[p] = "releasing" => mode'[p] # "exempt"
  BY <1>1 DEF SendExempt, AcquireTop, BackoffElapsed, Claim, Granted
<1>2. ASSUME NEW c \in Callers, Resume(c) \/ Cancel(c) \/ Release(c)
      PROVE  /\ mode'[p] = "none"
                  <=> pc'[p] \in {"idle", "top", "sleeping", "claim"} \cup Waiting
             /\ pc'[p] = "releasing" => mode'[p] # "exempt"
  BY <1>2 DEF Resume, Cancel, Release, Broadcast
<1>3. ASSUME NEW c \in Callers, pc[c] \in {"serving", "pressured", "healthy"},
             Leave(c, Left(c)) \/ Leave(c, Broadcast(Left(c)))
      PROVE  /\ mode'[p] = "none"
                  <=> pc'[p] \in {"idle", "top", "sleeping", "claim"} \cup Waiting
             /\ pc'[p] = "releasing" => mode'[p] # "exempt"
  BY <1>3 DEF Leave, Left, Broadcast
<1>4. ASSUME NEW c \in Callers,
             \/ WireError(c) \/ WireReply(c)
             \/ RecordBackpressure(c) \/ RecordHealthyHint(c)
      PROVE  /\ mode'[p] = "none"
                  <=> pc'[p] \in {"idle", "top", "sleeping", "claim"} \cup Waiting
             /\ pc'[p] = "releasing" => mode'[p] # "exempt"
  <2>1. CASE Leave(c, Left(c)) \/ Leave(c, Broadcast(Left(c)))
    BY <1>3, <1>4, <2>1 DEF WireError, WireReply, RecordBackpressure, RecordHealthyHint
  <2>2. CASE ~(Leave(c, Left(c)) \/ Leave(c, Broadcast(Left(c))))
    <3>1. WireReply(c)
      BY <1>4, <2>2 DEF WireError, RecordBackpressure, RecordHealthyHint,
                        AdditiveRecovery, LiftGate, MultiplicativeGrowth
    <3>2. PICK s \in {"pressured", "healthy"} :
             pc[c] = "serving" /\ pc' = [pc EXCEPT ![c] = s] /\ mode' = mode
      BY <2>2, <3>1 DEF WireReply
    <3> QED BY <3>2
  <2> QED BY <2>1, <2>2
<1>5. CASE Tick
  BY <1>5 DEF Tick
<1>6. CASE UNCHANGED vars
  BY <1>6 DEF vars
<1> QED BY <1>1, <1>2, <1>4, <1>5, <1>6 DEF Next

-----------------------------------------------------------------------------
(* Cardinality of the callers that hold a counted permit.                  *)
LEMMA CountedFinite ==
    /\ IsFiniteSet(Counted) /\ Cardinality(Counted) \in Nat
    /\ IsFiniteSet(Counted)' /\ Cardinality(Counted)' \in Nat
BY CallersAssumption, FS_Subset, FS_CardinalityType DEF Counted

(* A grant that counts c adds one to them.                                 *)
LEMMA CountedAdd ==
    ASSUME NEW c \in Callers, mode \in [Callers -> Modes], mode[c] # "counted",
           mode' = [mode EXCEPT ![c] = "counted"]
    PROVE  Cardinality(Counted') = Cardinality(Counted) + 1
<1>1. Counted' = Counted \cup {c} /\ c \notin Counted
  BY DEF Counted
<1> QED BY <1>1, CountedFinite, FS_AddElement

(* Leaving the gate takes c out of them if it was counted.                 *)
LEMMA CountedRemove ==
    ASSUME NEW c \in Callers, mode \in [Callers -> Modes], NEW m \in Modes,
           m # "counted", mode' = [mode EXCEPT ![c] = m]
    PROVE  Cardinality(Counted') = IF mode[c] = "counted"
                                   THEN Cardinality(Counted) - 1
                                   ELSE Cardinality(Counted)
<1>1. CASE mode[c] = "counted"
  <2>1. Counted' = Counted \ {c} /\ c \in Counted
    BY <1>1 DEF Counted
  <2> QED BY <1>1, <2>1, CountedFinite, FS_RemoveElement
<1>2. CASE mode[c] # "counted"
  <2>1. Counted' = Counted
    BY <1>2 DEF Counted
  <2> QED BY <1>2, <2>1
<1> QED BY <1>1, <1>2

(* The Legacy profile never boots a cap.                                   *)
LegacyUncapped == ObserveOnly => ~Limited

LEMMA StepLegacyUncapped == TypeOK /\ LegacyUncapped /\ [Next]_vars => LegacyUncapped'
<1> SUFFICES ASSUME LegacyUncapped, [Next]_vars, ObserveOnly PROVE permitsMax' = permitsMax
  BY DEF LegacyUncapped, Limited
<1>1. ASSUME NEW c \in Callers, RecordHealthyHint(c) PROVE permitsMax' = permitsMax
  BY <1>1 DEF RecordHealthyHint, RecoveryDue
<1> QED BY <1>1 DEF Next, vars, manager, SendExempt, AcquireTop, BackoffElapsed, Claim,
             Resume, Cancel, WireError, WireReply, RecordBackpressure, Boot, Release, Tick

LEMMA StepNoPermitLeak ==
    TypeOK /\ ModesMatch /\ LegacyUncapped /\ NoPermitLeak /\ [Next]_vars => NoPermitLeak'
<1> SUFFICES ASSUME TypeOK, ModesMatch, LegacyUncapped, NoPermitLeak, [Next]_vars
             PROVE  NoPermitLeak'
  OBVIOUS
<1> USE CountedFinite DEF manager, health
<1>1. ASSUME UNCHANGED <<permitsMax, permitsCurrent>>, Counted' = Counted
      PROVE  NoPermitLeak'
  BY <1>1 DEF NoPermitLeak, Limited
<1>2. ASSUME NEW c \in Callers,
             \/ SendExempt(c) \/ AcquireTop(c) \/ BackoffElapsed(c)
             \/ Resume(c) \/ Cancel(c) \/ WireError(c) \/ WireReply(c)
      PROVE  NoPermitLeak'
  <2>1. Counted' = Counted
    BY <1>2 DEF SendExempt, AcquireTop, Granted, BackoffElapsed, Resume, Cancel,
                WireError, WireReply, Leave, Counted, ModesMatch, TypeOK
  <2>2. UNCHANGED <<permitsMax, permitsCurrent>>
    BY <1>2 DEF SendExempt, AcquireTop, BackoffElapsed, Resume, Cancel,
                WireError, WireReply
  <2> QED BY <1>1, <2>1, <2>2
<1>3. ASSUME NEW c \in Callers, Claim(c) PROVE NoPermitLeak'
  <2>1. mode[c] = "none"
    BY <1>3 DEF Claim, ModesMatch
  <2>2. CASE Granted(c, "counted") /\ permitsCurrent' = permitsCurrent + 1 /\ Limited
    <3>1. Cardinality(Counted') = Cardinality(Counted) + 1
      BY <2>1, <2>2, CountedAdd DEF Granted, TypeOK
    <3> QED BY <1>3, <2>2, <3>1 DEF NoPermitLeak, TypeOK, Claim, Limited
  <2>3. CASE ~(Granted(c, "counted") /\ permitsCurrent' = permitsCurrent + 1 /\ Limited)
    <3>1. Counted' = Counted /\ UNCHANGED <<permitsMax, permitsCurrent>>
      BY <1>3, <2>1, <2>3 DEF Claim, Granted, Counted, TypeOK
    <3> QED BY <1>1, <3>1
  <2> QED BY <2>2, <2>3
<1>4. ASSUME NEW c \in Callers, RecordBackpressure(c) PROVE NoPermitLeak'
  <2>1. Counted' = Counted
    BY <1>4 DEF RecordBackpressure, Leave, Counted, TypeOK
  <2>2. permitsCurrent' <= permitsCurrent
    BY <1>4 DEF RecordBackpressure, Smaller, TypeOK
  <2>3. CASE ObserveOnly
    BY <1>1, <1>4, <2>1, <2>3 DEF RecordBackpressure, Boot
  <2>4. CASE ~ObserveOnly /\ Limited
    <3>1. permitsMax \in Nat /\ permitsMax >= Floor
      BY <2>4 DEF Limited, TypeOK
    <3>2. permitsMax' \in {Scale(permitsMax, SevereFactor), Scale(permitsMax, SoftFactor)}
      BY <1>4, <2>4 DEF RecordBackpressure, Boot
    <3>3. permitsMax' \in Nat
      BY <3>1, <3>2, CutBounds
    <3>4. permitsCurrent' = permitsCurrent
      BY <1>4, <2>4 DEF RecordBackpressure
    <3> QED BY <2>1, <3>3, <3>4 DEF NoPermitLeak, Limited
  <2>5. CASE ~ObserveOnly /\ ~Limited
    <3>1. permitsCurrent' = 0
      BY <1>4, <2>5 DEF RecordBackpressure, Smaller, NoPermitLeak
    <3> QED BY <2>1, <3>1 DEF NoPermitLeak
  <2> QED BY <2>3, <2>4, <2>5
<1>5. ASSUME NEW c \in Callers, RecordHealthyHint(c) PROVE NoPermitLeak'
  <2>1. Counted' = Counted
    BY <1>5 DEF RecordHealthyHint, AdditiveRecovery, LiftGate, MultiplicativeGrowth,
                Leave, Counted, TypeOK
  <2>2. CASE UNCHANGED <<permitsMax, permitsCurrent>>
    BY <1>1, <2>1, <2>2
  <2>3. CASE permitsCurrent' = 0
    BY <2>1, <2>3 DEF NoPermitLeak
  <2>4. CASE Limited /\ permitsCurrent' = permitsCurrent /\ permitsMax' \in Int
    BY <2>1, <2>4 DEF NoPermitLeak, Limited
  <2> QED BY <1>5, <2>2, <2>3, <2>4, GrowBounds
          DEF RecordHealthyHint, RecoveryDue, AdditiveRecovery, LiftGate,
              MultiplicativeGrowth, Limited, TypeOK
<1>6. ASSUME NEW c \in Callers, Release(c) PROVE NoPermitLeak'
  <2>1. Cardinality(Counted') = IF mode[c] = "counted"
                                THEN Cardinality(Counted) - 1 ELSE Cardinality(Counted)
    BY <1>6, CountedRemove DEF Release, TypeOK, Modes
  <2>2. CASE Limited /\ permitsCurrent' = Larger(permitsCurrent - 1, 0)
    BY <1>6, <2>1, <2>2 DEF Release, NoPermitLeak, Larger, Limited, TypeOK
  <2>3. CASE UNCHANGED permitsCurrent /\ ~Limited
    BY <1>6, <2>1, <2>3 DEF Release, NoPermitLeak, Limited, TypeOK
  <2> QED BY <1>6, <2>2, <2>3 DEF Release, LegacyUncapped
<1>7. CASE Tick \/ UNCHANGED vars
  BY <1>1, <1>7 DEF Tick, vars, Counted
<1> QED BY <1>2, <1>3, <1>4, <1>5, <1>6, <1>7 DEF Next

(* No permit leaks, for any number of callers and any tuning: a permit the *)
(* manager counts always belongs to a request that will release it, so a   *)
(* gate that nobody occupies is open.                                      *)
THEOREM PermitsDoNotLeak == Spec => []NoPermitLeak
<1>1. Init => NoPermitLeak /\ ModesMatch /\ LegacyUncapped
  BY CountedFinite DEF Init, NoPermitLeak, ModesMatch, LegacyUncapped, Limited, Waiting
<1> QED BY <1>1, StepNoPermitLeak, StepModesMatch, StepLegacyUncapped, TypeCorrect, PTL
        DEF Spec

-----------------------------------------------------------------------------
(* In the Legacy profile no step gates, counts or forgets pressure.        *)
LEMMA StepLegacyNeverGates ==
    TypeOK /\ LegacyNeverGates /\ [Next]_vars => LegacyNeverGates'
<1> SUFFICES ASSUME TypeOK, LegacyNeverGates, [Next]_vars, ObserveOnly
             PROVE  LegacyNeverGates'
  BY DEF LegacyNeverGates
<1> USE DEF LegacyNeverGates, Limited, manager, health
<1>1. ASSUME NEW c \in Callers,
             \/ SendExempt(c) \/ AcquireTop(c) \/ BackoffElapsed(c) \/ Claim(c)
             \/ Resume(c) \/ Cancel(c) \/ Release(c)
      PROVE  LegacyNeverGates'
  BY <1>1 DEF SendExempt, AcquireTop, BackoffElapsed, Claim, Resume, Cancel, Release,
              Granted, Waiting, TypeOK
<1>2. ASSUME NEW c \in Callers, WireError(c) \/ WireReply(c) PROVE LegacyNeverGates'
  BY <1>2 DEF WireError, WireReply, Leave, Left, Waiting, TypeOK
<1>3. ASSUME NEW c \in Callers, RecordBackpressure(c) PROVE LegacyNeverGates'
  <2>1. permitsMax' = permitsMax /\ permitsCurrent' = permitsCurrent
    BY <1>3 DEF RecordBackpressure, Boot
  <2>2. severity' # "healthy"
    BY <1>3 DEF RecordBackpressure
  <2>3. \A p \in Callers : pc'[p] \notin {"sleeping", "claim"} \cup Waiting
    BY <1>3 DEF RecordBackpressure, Leave, Left, Waiting, TypeOK
  <2> QED BY <2>1, <2>2, <2>3
<1>4. ASSUME NEW c \in Callers, RecordHealthyHint(c) PROVE LegacyNeverGates'
  BY <1>4 DEF RecordHealthyHint, RecoveryDue, Leave, Left, Waiting, TypeOK
<1>5. CASE Tick \/ UNCHANGED vars
  BY <1>5 DEF Tick, vars
<1> QED BY <1>1, <1>2, <1>3, <1>4, <1>5 DEF Next

(* The Legacy profile observes and never makes a request wait, whatever    *)
(* signals arrive in whatever order.                                       *)
THEOREM LegacyProfileNeverGates == Spec => []LegacyNeverGates
<1>1. Init => LegacyNeverGates
  BY DEF Init, LegacyNeverGates, Limited, Waiting
<1> QED BY <1>1, StepLegacyNeverGates, TypeCorrect, PTL DEF Spec
-----------------------------------------------------------------------------
(* A broadcast turns parked callers into woken ones: the queue stays.      *)
LEMMA BroadcastKeepsWaiters ==
    ASSUME NEW c \in Callers, TypeOK, pc[c] \notin Waiting,
           NEW s \in Steps \ Waiting,
           \/ pc' = [pc EXCEPT ![c] = s]
           \/ pc' = Broadcast([pc EXCEPT ![c] = s])
    PROVE  Waiters' = Waiters
BY DEF Waiters, Waiting, Broadcast, TypeOK

LEMMA WaitersFinite == IsFiniteSet(Waiters) /\ Cardinality(Waiters) \in Nat
BY CallersAssumption, FS_Subset, FS_CardinalityType DEF Waiters

LEMMA StepWaitersCounted ==
    TypeOK /\ WaitersCounted /\ [Next]_vars => WaitersCounted'
<1> SUFFICES ASSUME TypeOK, WaitersCounted, [Next]_vars PROVE WaitersCounted'
  OBVIOUS
<1>1. ASSUME Waiters' = Waiters, waiters' = waiters PROVE WaitersCounted'
  BY <1>1 DEF WaitersCounted
<1>2. ASSUME NEW c \in Callers, NEW s \in Steps \ Waiting, pc[c] \notin Waiting,
             waiters' = waiters,
             \/ pc' = [pc EXCEPT ![c] = s]
             \/ pc' = Broadcast([pc EXCEPT ![c] = s])
      PROVE  WaitersCounted'
  BY <1>1, <1>2, BroadcastKeepsWaiters
<1>3. ASSUME NEW c \in Callers, SendExempt(c) \/ AcquireTop(c) \/ BackoffElapsed(c)
      PROVE  WaitersCounted'
  <2>1. pc[c] \notin Waiting /\ waiters' = waiters
    BY <1>3 DEF SendExempt, AcquireTop, BackoffElapsed, Waiting
  <2>2. \E s \in {"serving", "sleeping", "claim"} : pc' = [pc EXCEPT ![c] = s]
    BY <1>3 DEF SendExempt, AcquireTop, BackoffElapsed, Granted
  <2> QED BY <1>2, <2>1, <2>2 DEF Steps, Waiting
<1>4. ASSUME NEW c \in Callers, Claim(c) PROVE WaitersCounted'
  <2>1. CASE /\ Limited /\ permitsCurrent >= permitsMax /\ waiters < MaxWaiters
             /\ waiters' = waiters + 1 /\ pc' = [pc EXCEPT ![c] = "parked"]
    <3>1. Waiters' = Waiters \cup {c} /\ c \notin Waiters
      BY <1>4, <2>1 DEF Claim, Waiters, Waiting, TypeOK
    <3>2. Cardinality(Waiters') = Cardinality(Waiters) + 1
      BY <3>1, WaitersFinite, FS_AddElement
    <3> QED BY <2>1, <3>2, WaitersFinite DEF WaitersCounted
  <2>2. CASE waiters' = waiters /\ \E s \in {"serving", "idle"} : pc' = [pc EXCEPT ![c] = s]
    <3>1. pc[c] \notin Waiting
      BY <1>4 DEF Claim, Waiting
    <3> QED BY <1>2, <2>2, <3>1 DEF Steps, Waiting
  <2> QED BY <1>4, <2>1, <2>2 DEF Claim, Granted
<1>5. ASSUME NEW c \in Callers, Resume(c) \/ Cancel(c) PROVE WaitersCounted'
  <2>1. CASE pc[c] \in Waiting
    <3>1. Waiters' = Waiters \ {c} /\ c \in Waiters
      BY <1>5, <2>1 DEF Resume, Cancel, Waiters, Waiting, TypeOK
    <3>2. Cardinality(Waiters') = Cardinality(Waiters) - 1
      BY <3>1, WaitersFinite, FS_RemoveElement
    <3>3. waiters' = waiters - 1
      BY <1>5, <2>1 DEF Resume, Cancel
    <3> QED BY <3>2, <3>3, WaitersFinite DEF WaitersCounted
  <2>2. CASE pc[c] \notin Waiting
    <3>1. waiters' = waiters /\ pc' = [pc EXCEPT ![c] = "idle"]
      BY <1>5, <2>2 DEF Resume, Cancel, Waiting
    <3> QED BY <1>2, <2>2, <3>1 DEF Steps, Waiting
  <2> QED BY <2>1, <2>2
<1>6. ASSUME NEW c \in Callers,
             \/ WireError(c) \/ WireReply(c)
             \/ RecordBackpressure(c) \/ RecordHealthyHint(c) \/ Release(c)
      PROVE  WaitersCounted'
  <2>1. pc[c] \notin Waiting /\ waiters' = waiters
    BY <1>6 DEF WireError, WireReply, RecordBackpressure, RecordHealthyHint, Release, Waiting
  <2>2. \E s \in {"idle", "releasing", "pressured", "healthy"} :
          pc' = [pc EXCEPT ![c] = s] \/ pc' = Broadcast([pc EXCEPT ![c] = s])
    BY <1>6 DEF WireError, WireReply, RecordBackpressure, RecordHealthyHint, Release,
                AdditiveRecovery, LiftGate, MultiplicativeGrowth, Leave, Left
  <2> QED BY <1>2, <2>1, <2>2 DEF Steps, Waiting
<1>7. CASE Tick \/ UNCHANGED vars
  BY <1>1, <1>7 DEF Tick, vars, Waiters
<1> QED BY <1>3, <1>4, <1>5, <1>6, <1>7 DEF Next

(* The count that decides ErrQueueFull is the number of goroutines in the  *)
(* queue, for any number of them.                                          *)
THEOREM WaitersAreCounted == Spec => []WaitersCounted
<1>1. Init => WaitersCounted
  <2> SUFFICES ASSUME Init PROVE WaitersCounted
    OBVIOUS
  <2>1. Waiters = {}
    BY DEF Init, Waiters, Waiting
  <2> QED BY <2>1, FS_EmptySet DEF Init, WaitersCounted
<1> QED BY <1>1, StepWaitersCounted, TypeCorrect, PTL DEF Spec

-----------------------------------------------------------------------------
(* A caller's reading is never ahead of the clock, and the healthy period  *)
(* began after a quiet period since the last signal that was recorded.     *)
ReadingsPast == \A c \in Callers : seen[c] <= now
HealthyAfterQuiet == healthySince # Never => healthySince - lastEventAt > DecayQuiet

LEMMA StepReadingsPast == TypeOK /\ ReadingsPast /\ [Next]_vars => ReadingsPast'
<1> SUFFICES ASSUME TypeOK, ReadingsPast, [Next]_vars PROVE ReadingsPast'
  OBVIOUS
<1> USE DEF ReadingsPast, TypeOK, Instants, Never
<1>1. ASSUME NEW c \in Callers, seen' = [seen EXCEPT ![c] = now] \/ seen' = seen
                                  \/ seen' = [seen EXCEPT ![c] = Never],
             now' = now
      PROVE  ReadingsPast'
  BY <1>1
<1>2. ASSUME NEW c \in Callers, WireReply(c) PROVE ReadingsPast'
  BY <1>1, <1>2 DEF WireReply
<1>3. ASSUME NEW c \in Callers,
             \/ SendExempt(c) \/ AcquireTop(c) \/ BackoffElapsed(c) \/ Claim(c)
             \/ Resume(c) \/ Cancel(c) \/ WireError(c)
             \/ RecordBackpressure(c) \/ RecordHealthyHint(c) \/ Release(c)
      PROVE  ReadingsPast'
  BY <1>1, <1>3 DEF SendExempt, AcquireTop, BackoffElapsed, Claim, Resume, Cancel,
                    WireError, RecordBackpressure, RecordHealthyHint, Release
<1>4. CASE Tick \/ UNCHANGED vars
  BY <1>4 DEF Tick, vars
<1> QED BY <1>2, <1>3, <1>4 DEF Next

LEMMA StepHealthyAfterQuiet ==
    TypeOK /\ HealthyAfterQuiet /\ [Next]_vars => HealthyAfterQuiet'
<1> SUFFICES ASSUME TypeOK, HealthyAfterQuiet, [Next]_vars PROVE HealthyAfterQuiet'
  OBVIOUS
<1> USE DEF HealthyAfterQuiet, manager, health
<1>1. ASSUME UNCHANGED health PROVE HealthyAfterQuiet'
  BY <1>1
<1>2. ASSUME NEW c \in Callers, RecordBackpressure(c) PROVE HealthyAfterQuiet'
  BY <1>2 DEF RecordBackpressure
<1>3. ASSUME NEW c \in Callers, RecordHealthyHint(c) PROVE HealthyAfterQuiet'
  BY <1>1, <1>3 DEF RecordHealthyHint, Decay
<1>4. ASSUME NEW c \in Callers,
             \/ SendExempt(c) \/ AcquireTop(c) \/ BackoffElapsed(c) \/ Claim(c)
             \/ Resume(c) \/ Cancel(c) \/ WireError(c) \/ WireReply(c) \/ Release(c)
      PROVE  HealthyAfterQuiet'
  BY <1>1, <1>4 DEF SendExempt, AcquireTop, BackoffElapsed, Claim, Resume, Cancel,
                    WireError, WireReply, Release
<1>5. CASE Tick \/ UNCHANGED vars
  BY <1>1, <1>5 DEF Tick, vars
<1> QED BY <1>2, <1>3, <1>4, <1>5 DEF Next

(* Only LiftGate lifts the gate.                                           *)
LEMMA LiftedByLiftGate ==
    ASSUME TypeOK, [Next]_vars, Limited, permitsMax' = Unlimited
    PROVE  \E c \in Callers : /\ Decay(seen[c]) /\ LiftGate(c, seen[c])
                              /\ UNCHANGED <<lastEventAt, now>>
<1> USE DEF manager, health
<1>1. permitsMax \in Nat /\ permitsMax >= Floor
  BY DEF Limited, TypeOK
<1>2. ASSUME UNCHANGED permitsMax PROVE FALSE
  BY <1>2 DEF Limited
<1>3. ASSUME NEW c \in Callers, RecordBackpressure(c) PROVE FALSE
  <2>1. \/ permitsMax' = permitsMax
        \/ permitsMax' = Scale(permitsMax, SevereFactor)
        \/ permitsMax' = Scale(permitsMax, SoftFactor)
    BY <1>3 DEF RecordBackpressure, Boot, Limited
  <2>2. permitsMax' \in Nat
    <3>1. Scale(permitsMax, SevereFactor) \in Nat /\ Scale(permitsMax, SoftFactor) \in Nat
      BY <1>1, CutBounds
    <3> QED BY ONLY <1>1, <2>1, <3>1
  <2> QED BY <2>2
<1>4. ASSUME NEW c \in Callers, RecordHealthyHint(c)
      PROVE  Decay(seen[c]) /\ LiftGate(c, seen[c]) /\ UNCHANGED <<lastEventAt, now>>
  <2>1. permitsMax' \notin Int
    OBVIOUS
  <2>2. ~AdditiveRecovery(c) /\ ~MultiplicativeGrowth(c, seen[c])
    BY <1>1, <2>1, GrowBounds DEF AdditiveRecovery, MultiplicativeGrowth
  <2>3. ~UNCHANGED permitsMax
    BY <1>2
  <2> QED BY <1>4, <2>2, <2>3 DEF RecordHealthyHint
<1>5. ASSUME NEW c \in Callers,
             \/ SendExempt(c) \/ AcquireTop(c) \/ BackoffElapsed(c) \/ Claim(c)
             \/ Resume(c) \/ Cancel(c) \/ WireError(c) \/ WireReply(c) \/ Release(c)
      PROVE  FALSE
  BY <1>2, <1>5 DEF SendExempt, AcquireTop, BackoffElapsed, Claim, Resume, Cancel,
                    WireError, WireReply, Release
<1>6. ~Tick /\ ~UNCHANGED vars
  BY <1>2 DEF Tick, vars
<1> QED BY <1>3, <1>4, <1>5, <1>6 DEF Next

(* The gate is lifted only after both periods, for any tuning and whatever *)
(* the order in which the recording callers apply their readings.          *)
THEOREM LiftWaitsForCooldown == Spec => LiftedOnlyAfterCooldown
<1> DEFINE Lifted == Limited /\ permitsMax' = Unlimited =>
                        now - lastEventAt > DecayQuiet + UnlimitedAfterHealthy
<1>1. Init => ReadingsPast /\ HealthyAfterQuiet
  BY DEF Init, ReadingsPast, HealthyAfterQuiet, Never
<1>2. TypeOK /\ ReadingsPast /\ HealthyAfterQuiet /\ HealthyAfterQuiet' /\ [Next]_vars
        => [Lifted]_vars
  <2> SUFFICES ASSUME TypeOK, ReadingsPast, HealthyAfterQuiet', [Next]_vars,
                      Limited, permitsMax' = Unlimited
               PROVE  now - lastEventAt > DecayQuiet + UnlimitedAfterHealthy
    OBVIOUS
  <2>1. PICK c \in Callers : /\ Decay(seen[c]) /\ LiftGate(c, seen[c])
                             /\ UNCHANGED <<lastEventAt, now>>
    BY LiftedByLiftGate
  <2>2. healthySince' # Never /\ seen[c] - healthySince' >= UnlimitedAfterHealthy
    BY <2>1 DEF LiftGate
  <2>3. healthySince' - lastEventAt > DecayQuiet
    BY <2>1, <2>2 DEF HealthyAfterQuiet
  <2>4. seen[c] <= now /\ {seen[c], now, lastEventAt, healthySince, healthySince'} \subseteq Int
    BY <2>1 DEF ReadingsPast, TypeOK, Instants, Never, Decay
  <2> QED BY <2>2, <2>3, <2>4
<1> QED BY <1>1, <1>2, StepReadingsPast, StepHealthyAfterQuiet, TypeCorrect, PTL
        DEF Spec, LiftedOnlyAfterCooldown

-----------------------------------------------------------------------------
LEMMA StepBackoff == TypeOK /\ BackoffOnlyAtFloor /\ [Next]_vars => BackoffOnlyAtFloor'
<1> SUFFICES ASSUME TypeOK, BackoffOnlyAtFloor, [Next]_vars PROVE BackoffOnlyAtFloor'
  OBVIOUS
<1> USE DEF manager, health
<1>1. ASSUME UNCHANGED <<backoff, permitsMax, severity>> PROVE BackoffOnlyAtFloor'
  BY <1>1 DEF BackoffOnlyAtFloor
<1>2. ASSUME NEW c \in Callers, RecordHealthyHint(c) PROVE BackoffOnlyAtFloor'
  BY <1>2 DEF RecordHealthyHint, BackoffOnlyAtFloor
<1>3. ASSUME NEW c \in Callers, RecordBackpressure(c), backoff' > 0
      PROVE  permitsMax' = Floor /\ severity' = "severe"
  <2>1. backoff' = Delay(permitsMax', severity')
    BY <1>3 DEF RecordBackpressure
  <2>2. PICK percent \in Nat : permitsMax' = IF ObserveOnly THEN Boot ELSE Scale(Boot, percent)
    BY <1>3 DEF RecordBackpressure, SevereFactor, SoftFactor
  <2>3. CASE ~ObserveOnly /\ permitsMax' <= Floor /\ severity' = "severe"
    <3>1. Boot \in Nat /\ Boot >= Floor
      BY <2>3 DEF Boot, Limited, TypeOK
    <3>2. permitsMax' \in Nat /\ permitsMax' >= Floor
      BY <2>2, <2>3, <3>1, ScaleBounds
    <3> QED BY <2>3, <3>2
  <2>4. CASE ~(~ObserveOnly /\ permitsMax' <= Floor /\ severity' = "severe")
    <3>1. backoff > 0 /\ permitsMax = Floor /\ severity = "severe"
      BY <1>3, <2>1, <2>4 DEF Delay, BackoffOnlyAtFloor
    <3>2. Boot = Floor
      BY <3>1 DEF Boot, Limited
    <3>3. Scale(Floor, percent) = Floor
      <4>1. Floor <= Scale(Floor, percent) /\ Scale(Floor, percent) <= Floor
            /\ Scale(Floor, percent) \in Nat
        BY ScaleBounds
      <4> QED BY <4>1
    <3>4. severity' = "severe"
      BY <1>3, <3>1 DEF RecordBackpressure
    <3> QED BY <2>2, <3>2, <3>3, <3>4
  <2> QED BY <2>3, <2>4
<1>4. ASSUME NEW c \in Callers, RecordBackpressure(c) PROVE BackoffOnlyAtFloor'
  BY <1>3, <1>4 DEF BackoffOnlyAtFloor
<1>5. ASSUME NEW c \in Callers,
             \/ SendExempt(c) \/ AcquireTop(c) \/ BackoffElapsed(c) \/ Claim(c)
             \/ Resume(c) \/ Cancel(c) \/ WireError(c) \/ WireReply(c) \/ Release(c)
      PROVE  UNCHANGED <<backoff, severity>> /\ (permitsMax' = permitsMax)
  BY <1>5 DEF SendExempt, AcquireTop, BackoffElapsed, Claim, Resume, Cancel,
              WireError, WireReply, Release
<1>6. CASE Tick \/ UNCHANGED vars
  BY <1>1, <1>6 DEF Tick, vars
<1> QED BY <1>1, <1>2, <1>4, <1>5, <1>6 DEF Next

(* No recovery step leaves a delay behind: requests are delayed only while *)
(* the manager is severe and at its floor.                                 *)
THEOREM DelayOnlyAtFloor == Spec => []BackoffOnlyAtFloor
<1>1. Init => BackoffOnlyAtFloor
  BY DEF Init, BackoffOnlyAtFloor
<1> QED BY <1>1, StepBackoff, TypeCorrect, PTL DEF Spec
=============================================================================
