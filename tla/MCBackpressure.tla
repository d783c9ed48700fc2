--------------------------- MODULE MCBackpressure ---------------------------
(* Two callers at a gate of at most two permits, for as long as it takes   *)
(* to boot, turn severe, recover, grow and be lifted.                      *)
EXTENDS Backpressure

CONSTANTS c1, c2

TwoCallers == {c1, c2}
=============================================================================
