-------------------------- MODULE MCCircuitBreaker --------------------------
(***************************************************************************)
(* Instances of CircuitBreaker for TLC.  A tick stands for 7.5 seconds:     *)
(* two make the coalescing window and four the cooldown.  The window of    *)
(* five minutes is cut to seven ticks, the threshold of five to three.     *)
(***************************************************************************)
EXTENDS CircuitBreaker

CONSTANTS c1, c2, c3, c4

FourCalls == {c1, c2, c3, c4}
=============================================================================
