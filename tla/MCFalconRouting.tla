-------------------------- MODULE MCFalconRouting ---------------------------
(* Two creates and one or two workers; an interval of two units.           *)
EXTENDS FalconRouting

CONSTANTS k1, k2, w1, w2

TwoCreates == {k1, k2}
OneWorker == {w1}
TwoWorkers == {w1, w2}
=============================================================================
