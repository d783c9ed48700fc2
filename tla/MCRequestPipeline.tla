-------------------------- MODULE MCRequestPipeline -------------------------
(* Two calls under way, in one process or in two.                          *)
EXTENDS RequestPipeline

CONSTANTS c1, c2, s1, s2

TwoCalls == {c1, c2}
TwoSources == {s1, s2}
OneOrTwo == {[c \in TwoCalls |-> s1],
             [c \in TwoCalls |-> IF c = c1 THEN s1 ELSE s2]}
Short == {2}
=============================================================================
