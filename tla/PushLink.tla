------------------------------ MODULE PushLink ------------------------------
(***************************************************************************)
(* What the event stream promises the platform: it looks for a link while  *)
(* it runs, says once that it has given up and keeps looking quietly, says *)
(* once that it recovered, and says neither at any other time              *)
(* (src/src/api/event-stream.ts:40-52, 119-127).                           *)
(***************************************************************************)
VARIABLES
  phase,    \* "stopped", "seeking", "live" or "polling"
  notices   \* onUnavailable and onRecovered calls made by the last step

vars == <<phase, notices>>

Init == phase = "stopped" /\ notices = {}

Start == phase = "stopped" /\ phase' = "seeking" /\ notices' = {}

Stop == phase' = "stopped" /\ notices' = {}

Connect == phase = "seeking" /\ phase' = "live" /\ notices' = {}

Lose == phase = "live" /\ phase' = "seeking" /\ notices' = {}

GiveUp == phase = "seeking" /\ phase' = "polling" /\ notices' = {"unavailable"}

Recover == phase = "polling" /\ phase' = "live" /\ notices' = {"recovered"}

Quiet == phase' = phase /\ notices' = {}

Next == Start \/ Stop \/ Connect \/ Lose \/ GiveUp \/ Recover \/ Quiet

Spec == Init /\ [][Next]_vars
=============================================================================
