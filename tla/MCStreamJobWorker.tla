------------------------- MODULE MCStreamJobWorker --------------------------
(* Two jobs, each handed out at most twice, and one or two slots.          *)
EXTENDS StreamJobWorker

CONSTANTS j1, j2, j3

TwoJobs == {j1, j2}
ThreeJobs == {j1, j2, j3}
=============================================================================
