---------------------------- MODULE MCPartition -----------------------------
(***************************************************************************)
(* Instances of Partition for TLC.  One tick is about thirty seconds for   *)
(* the command ceiling (two) and the settle window (three); the HAP window *)
(* (nine seconds) is the zero-tick end of the first.                       *)
(***************************************************************************)
EXTENDS Partition

Panel(state, alarm, permitted) ==
  [state |-> state, hasActiveAlarm |-> alarm, hasPermissionToChangeState |-> permitted]

\* The keypad arms for the night; the siren sounds; the account loses its
\* permission as the mode becomes unreadable.
AllReadings ==
  {Panel(4, FALSE, TRUE), Panel(1, TRUE, TRUE), Panel(0, FALSE, FALSE)}
CalmReadings == {Panel(1, FALSE, TRUE), Panel(3, FALSE, TRUE)}

AwayAndDisarm == {AWAY_ARM, DISARM}
NightAndDisarm == {NIGHT_ARM, DISARM}
NoneBypassed == {}

DoorsMove == BOOLEAN
DoorsShut == {FALSE}

AnyOutcome == {"accepted", "refused", "unanswered"}
Answered == {"accepted", "refused"}
=============================================================================
