--------------------------- MODULE MCFalconWorker ---------------------------
(* Three or four jobs, one of which does not decode, over successive       *)
(* sockets to one node.                                                    *)
EXTENDS FalconWorker, TLC

CONSTANTS e1, e2, j1, j2, j3, j4

OneEndpoint == {e1}
TwoEndpoints == {e1, e2}
NoneDown == {}
OneDown == {e2}
ThreeJobs == {j1, j2, j3}
FourJobs == {j1, j2, j3, j4}
OneUndecodable == {j1}
Symmetry == Permutations(Jobs \ Undecodable)
=============================================================================
