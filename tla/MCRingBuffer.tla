---------------------------- MODULE MCRingBuffer -----------------------------
(* A three-slot buffer, as in TestRingBuffer (agent/ringbuffer_test.go),   *)
(* with three interchangeable events.                                      *)
EXTENDS RingBuffer, TLC

CONSTANTS e1, e2, e3

==============================================================================
