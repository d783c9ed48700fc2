--------------------------- MODULE MCEventualPoll ---------------------------
(* One poller and another caller; waits of one or two units.               *)
EXTENDS EventualPoll

CONSTANTS p1, c1

OnePoller == {p1}
WithOneOther == {p1, c1}
ShortAndLong == {1, 2}
SomeInstants == {0, 3}
=============================================================================
