-------------------------- MODULE MCFalconProducer --------------------------
(* Two Create calls, one of which awaits completion, over two successive   *)
(* sockets of one gateway.                                                 *)
EXTENDS FalconProducer

CONSTANTS e1, k1, k2

OneEndpoint == {e1}
TwoCreates == {k1, k2}
OneAwaits == {k1}
NoneDown == {}
=============================================================================
