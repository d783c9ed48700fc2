---------------------------- MODULE TokenSource -----------------------------
(***************************************************************************)
(* TokenSource.Token of internal/auth: OAuth tokens kept in memory by each *)
(* source and in one file by all sources of the same client (processes on  *)
(* one machine, or the REST and the gRPC side of one client).              *)
(*                                                                         *)
(* A call of Token is a caller's way from "locking" to a continuation that *)
(* the module which composes it gives.  Lock, clock, memory and file are   *)
(* looked at in one step: the lock holder waits for nothing in between.    *)
(* A token is its instants.  An absent file, and a torn one, hold none.    *)
(***************************************************************************)
EXTENDS Integers, FiniteSets

CONSTANTS
    Calls,          \* calls of Token, each made by a caller of its own
    Sources,
    Assignments,    \* how callers may be spread over sources
    Lifetimes,      \* lifetimes of the tokens that the endpoint issues
    DefaultLifetime,\* assumed if the answer tells none (60 s)
    FetchTimeout,   \* of the token endpoint's http.Client (30 s)
    LastInstant     \* bound: the last instant

Nobody == "nobody"

ASSUME TokenAssumption ==
    /\ IsFiniteSet(Calls) /\ Nobody \notin Calls
    /\ Assignments \subseteq [Calls -> Sources]
    /\ {DefaultLifetime, FetchTimeout, LastInstant} \subseteq Nat
    /\ Lifetimes \subseteq {n \in Nat : n > FetchTimeout}

VARIABLES
    sourceOf,       \* each call's token source
    memory,         \* each source's token
    lock,           \* who holds each source's mutex
    disk,           \* the file
    clock,
    step,           \* where each call is
    asked,          \* the clock reading a fetch set out with
    token           \* the token a call has been issued or given

store == <<memory, lock, disk>>

Times == 0..LastInstant
Tokens == [due : Nat, expires : Nat]
NoToken == [due |-> 0, expires |-> 0]

TokenInit ==
    /\ sourceOf \in Assignments
    /\ memory = [s \in Sources |-> NoToken]
    /\ lock = [s \in Sources |-> Nobody]
    /\ disk = NoToken
    /\ clock = 0
    /\ step = [c \in Calls |-> "idle"]
    /\ asked = [c \in Calls |-> 0]
    /\ token = [c \in Calls |-> NoToken]

Goto(c, to) == step' = [step EXCEPT ![c] = to]
Held(c) == memory[sourceOf[c]]
Unlock(c) == lock' = [lock EXCEPT ![sourceOf[c]] = Nobody]
Keep(c, t) == memory' = [memory EXCEPT ![sourceOf[c]] = t]

(* now.Before(refreshAfter); an absent token is never fresh.               *)
Fresh(t) == clock < t.due

(* Fault: a token that is on disk is used whatever its date.               *)
AnyOnDisk == disk # NoToken
(* readDisk, and the check of its refreshAfter.                            *)
OnDisk == Fresh(disk)

(* The token is in memory or, failing that, on disk.                       *)
Found(c, next) ==
    /\ \/ /\ Fresh(Held(c))
          /\ token' = [token EXCEPT ![c] = Held(c)]
          /\ UNCHANGED memory
       \/ /\ ~Fresh(Held(c)) /\ OnDisk
          /\ token' = [token EXCEPT ![c] = disk]
          /\ Keep(c, disk)
    /\ Goto(c, next)
    /\ UNCHANGED <<lock, disk, sourceOf, clock, asked>>

StartFetch(c) ==
    /\ lock' = [lock EXCEPT ![sourceOf[c]] = c]
    /\ Goto(c, "fetching")
    /\ asked' = [asked EXCEPT ![c] = clock]
    /\ UNCHANGED <<memory, disk, sourceOf, clock, token>>

(* Fault: a caller that had to wait for the lock does not look again.      *)
LookOnlyBeforeLock(c, next) ==
    /\ step[c] = "locking" /\ lock[sourceOf[c]] = Nobody
    /\ \/ Found(c, next)
       \/ ~OnDisk /\ StartFetch(c)

(* Token: lock, and look.                                                  *)
Look(c, next) ==
    /\ step[c] = "locking" /\ lock[sourceOf[c]] = Nobody
    /\ \/ Found(c, next)
       \/ ~Fresh(Held(c)) /\ ~OnDisk /\ StartFetch(c)

(* The endpoint issues a token; its answer tells the lifetime or nothing.  *)
Issue(c) ==
    /\ step[c] = "fetching"
    /\ \E life \in Lifetimes, told \in Lifetimes \cup {DefaultLifetime} :
           /\ told \in {life, DefaultLifetime} /\ told <= life
           /\ token' = [token EXCEPT ![c] =
              [due |-> asked[c] + (told * 9) \div 10, expires |-> clock + life]]
    /\ Goto(c, "issued")
    /\ UNCHANGED <<store, sourceOf, clock, asked>>

InTime(c) == clock - asked[c] <= FetchTimeout

(* The answer arrives: Token returns, after an attempt to write the file   *)
(* that truncates it first, unless CacheDir is unset or cannot be made.    *)
Receive(c, next) ==
    /\ step[c] = "issued" /\ InTime(c)
    /\ Keep(c, token[c])
    /\ asked' = [asked EXCEPT ![c] = 0]
    /\ \/ Goto(c, "saving") /\ disk' = NoToken /\ UNCHANGED lock
       \/ Goto(c, next) /\ Unlock(c) /\ UNCHANGED disk
    /\ UNCHANGED <<sourceOf, clock, token>>

(* The write succeeds or not; Token returns.                               *)
Save(c, next) ==
    /\ step[c] = "saving"
    /\ \/ disk' = token[c]
       \/ UNCHANGED disk
    /\ Goto(c, next) /\ Unlock(c)
    /\ UNCHANGED <<memory, sourceOf, clock, asked, token>>

(* Fault: a failed fetch leaves the mutex locked.                          *)
FetchFailsLocked(c) ==
    /\ step[c] \in {"fetching", "issued"}
    /\ UNCHANGED <<store, sourceOf, clock>>

(* The endpoint refuses or cannot be reached, its answer is unusable, the  *)
(* caller's context ends, or the fetch has taken too long.                 *)
FetchFails(c) ==
    /\ step[c] \in {"fetching", "issued"}
    /\ Unlock(c)
    /\ UNCHANGED <<memory, disk, sourceOf, clock>>

(* Writing the small file takes no time that the clock's unit could show.  *)
TimePasses ==
    /\ clock < LastInstant
    /\ \A c \in Calls : step[c] # "saving"
    /\ clock' = clock + 1
    /\ UNCHANGED <<store, sourceOf, step, asked, token>>

-----------------------------------------------------------------------------
(* "Token returns a valid access token": whatever its caller waited for    *)
(* (the mutex, the endpoint) and wherever the token comes from (memory,    *)
(* the file another process wrote, the endpoint), it has not expired when  *)
(* the request is made, on the first attempt and on every later one        *)
(* ("auth is re-applied on every retry attempt", package transport).       *)
TokenUnexpired ==
    [][\A c \in Calls :
          step[c] # "sending" /\ step'[c] = "sending" =>
              clock < token'[c].expires]_<<step, token>>

(* "concurrent callers share a single in-flight fetch (single-flight)":    *)
(* a source replaces its token only if that one was due when the           *)
(* replacement was asked for, so those who waited use what the first got.  *)
ReplacedOnlyWhenDue ==
    [][\A c \in Calls :
          step[c] = "issued" /\ memory'[sourceOf[c]] = token[c] /\ step'[c] # step[c]
              => Held(c).due <= asked[c]]_<<step, memory>>
=============================================================================
