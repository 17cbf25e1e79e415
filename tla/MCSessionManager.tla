-------------------------- MODULE MCSessionManager --------------------------
(***************************************************************************)
(* Instances of SessionManager for TLC.  A tick stands for three seconds:   *)
(* the floor after a failed sign-in is one tick, the longest inline wait   *)
(* two (five seconds, rounded up), and the session lifetime of ten minutes *)
(* or more is cut to three, which is past the inline wait.                 *)
(***************************************************************************)
EXTENDS SessionManager

CONSTANTS c1, c2, c3

TwoCallers == {c1, c2}
ThreeCallers == {c1, c2, c3}
=============================================================================
