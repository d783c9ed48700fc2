--------------------------- MODULE WorkerContract ---------------------------
(***************************************************************************)
(* What every job worker promises of its handlers, whichever transport     *)
(* brings the jobs: WithMaxConcurrentJobs "caps the number of jobs handled *)
(* concurrently", and Run returns when the last handler it started has     *)
(* acknowledged its job or given up.  An activation is active from the     *)
(* start of its handler goroutine to the end of its acknowledgement.       *)
(***************************************************************************)
EXTENDS Integers, FiniteSets

CONSTANTS
    Work,           \* the activations
    Limit           \* WithMaxConcurrentJobs

VARIABLES
    active,         \* activations with a running handler goroutine
    stopped         \* Run has returned

vars == <<active, stopped>>

Init == active = {} /\ stopped = FALSE

(* The worker starts handlers.                                             *)
Begin(batch) ==
    /\ ~stopped
    /\ Cardinality(active \cup batch) <= Limit
    /\ active' = active \cup batch
    /\ UNCHANGED stopped

(* A handler has returned and its acknowledgement has ended.               *)
End(a) ==
    /\ a \in active
    /\ active' = active \ {a}
    /\ UNCHANGED stopped

Stop ==
    /\ active = {}
    /\ stopped' = TRUE
    /\ UNCHANGED active

Next ==
    \/ \E batch \in SUBSET Work : Begin(batch)
    \/ \E a \in active : End(a)
    \/ Stop

Spec == Init /\ [][Next]_vars

(* What it comes to in each state: the cap, and a quiet end.               *)
Honoured ==
    /\ Cardinality(active) <= Limit
    /\ stopped => active = {}
=============================================================================
