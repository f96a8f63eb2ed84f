--------------------------- MODULE MCBoundedBuffer ---------------------------
(* The five values of v1, a queue that is filled, emptied and filled again in v2, and two
   capacities at which it is full more often; four rounds of ping-pong (10 in the code). *)
EXTENDS BoundedBuffer

MCExercises == {BasicV1(5), BasicV2(3, 6), BasicV2(1, 3), PingPong(4)}
=============================================================================
