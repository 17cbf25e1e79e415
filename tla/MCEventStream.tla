--------------------------- MODULE MCEventStream ----------------------------
(***************************************************************************)
(* Instances of EventStream for TLC: giving up after one or two failures   *)
(* in a row instead of five, and up to three token fetches outstanding.    *)
(***************************************************************************)
EXTENDS EventStream
=============================================================================
