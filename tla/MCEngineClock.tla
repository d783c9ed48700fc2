--------------------------- MODULE MCEngineClock ----------------------------
(* One caller that sleeps for one or two units.                            *)
EXTENDS EngineClock

CONSTANTS
    c1,
    MaxWake         \* bound: the last instant anyone sleeps to

OneCaller == {c1}
ShortAndLong == {1, 2}
NoInstants == {}

BoundedSpec ==
    Init /\ [][Next /\ \A c \in Callers : target'[c] <= MaxWake]_vars /\ Fairness
=============================================================================
