-------------------------- MODULE MCRestJobWorker ---------------------------
(* Two or three jobs, each handed out at most twice, two slots.            *)
EXTENDS RestJobWorker

CONSTANTS j1, j2, j3

TwoJobs == {j1, j2}
ThreeJobs == {j1, j2, j3}
=============================================================================
