------------------------------- MODULE Signals -------------------------------
(***************************************************************************)
(* The PagerDuty signals: what the plugin makes of a read or a failure     *)
(* (src/src/alarmcom-signals.ts) and the writer of the store, which skips  *)
(* what it wrote last and never throws (src/src/pagerduty-signals.ts).     *)
(*                                                                         *)
(* The operators are functions from a desk to a desk: the fields of both   *)
(* objects and the rows of the store, which outlive them.  ok says whether *)
(* the store can be written.  Severities and summaries are fixed, except   *)
(* the two of auth-failed, which are its row's value.                      *)
(***************************************************************************)
EXTENDS Errors

CONSTANT Grace  \* CLOUD_OFFLINE_GRACE_MS, in ticks

ASSUME GraceAssumption == Grace \in Nat \ {0}

SignalNames == {"alarm-active", "smoke-active", "auth-failed", "cloud-offline"}
RowValues == {"none", "clear", "active", "rejected", "login-form"}

NoRows == [s \in SignalNames |-> "none"]
NewDesk(rows) ==
  [timer |-> -1,          \* #offlineTimer: what is left of it, -1 for null
   confirmed |-> FALSE,   \* #isCloudOfflineConfirmed
   rejected |-> FALSE,    \* #isAuthRejected
   started |-> FALSE, closed |-> FALSE,
   written |-> NoRows,    \* lastWritten
   missed |-> {},         \* history: the signals whose last write did not reach the store
   rows |-> rows]
-----------------------------------------------------------------------------
\* What a write leaves of the writes that were missed.
Missed(desk, ok, signal, value) ==
  IF ok \/ desk.written[signal] = value THEN desk.missed \ {signal} ELSE desk.missed \cup {signal}

\* Mistake: remembered before it is written.
WriteRemembered(desk, ok, signal, value) ==
  IF desk.written[signal] = value THEN desk
  ELSE [desk EXCEPT !.written[signal] = value, !.rows[signal] = IF ok THEN value ELSE @]

\* PagerDutySignals.write: a write that fails is tried again with the next one.
Write(desk, ok, signal, value) ==
  LET told == [desk EXCEPT !.missed = Missed(desk, ok, signal, value)]
  IN  IF desk.written[signal] = value \/ ~ok THEN told
      ELSE [told EXCEPT !.written[signal] = value, !.rows[signal] = value]

WriteCloud(desk, ok) ==
  Write(desk, ok, "cloud-offline", IF desk.confirmed /\ ~desk.rejected THEN "active" ELSE "clear")

\* Mistake: every report starts the grace afresh.
ArmOfflineGracePushed(desk) == IF desk.confirmed THEN desk ELSE [desk EXCEPT !.timer = Grace]

\* The grace runs from the first report.
ArmOfflineGrace(desk) ==
  IF desk.timer # -1 \/ desk.confirmed THEN desk ELSE [desk EXCEPT !.timer = Grace]

Start(desk) ==
  IF desk.closed \/ desk.started THEN desk
  ELSE IF desk.rejected THEN [desk EXCEPT !.started = TRUE]
  ELSE ArmOfflineGrace([desk EXCEPT !.started = TRUE])

\* Mistake: the grace left running when Alarm.com is reached.
NoteReachedArmed(desk, ok) ==
  IF desk.closed THEN desk
  ELSE LET reached == [desk EXCEPT !.rejected = FALSE, !.confirmed = FALSE]
       IN  WriteCloud(Write(reached, ok, "auth-failed", "clear"), ok)

NoteReached(desk, ok) ==
  IF desk.closed THEN desk
  ELSE LET reached == [desk EXCEPT !.rejected = FALSE, !.confirmed = FALSE, !.timer = -1]
       IN  WriteCloud(Write(reached, ok, "auth-failed", "clear"), ok)

NoteUnreachable(desk) ==
  IF desk.closed \/ desk.rejected THEN desk ELSE ArmOfflineGrace(desk)

\* Mistake: cloud-offline left as it was.
NoteSignInStoppedBesides(desk, ok, failure) ==
  IF desk.closed THEN desk
  ELSE Write([desk EXCEPT !.rejected = TRUE, !.timer = -1], ok, "auth-failed", failure)

\* Alarm.com answered: the offline page makes way for this one.
NoteSignInStopped(desk, ok, failure) ==
  IF desk.closed THEN desk
  ELSE LET stopped == [desk EXCEPT !.rejected = TRUE, !.confirmed = FALSE, !.timer = -1]
       IN  WriteCloud(Write(stopped, ok, "auth-failed", failure), ok)

\* An observation is "none", which leaves the row alone, or what is to be written.
Observe(desk, ok, signal, seen) == IF seen = "none" THEN desk ELSE Write(desk, ok, signal, seen)

NoteDevices(desk, ok, alarm, smoke) ==
  IF desk.closed THEN desk
  ELSE Observe(Observe(desk, ok, "alarm-active", alarm), ok, "smoke-active", smoke)

GraceExpired(desk, ok) ==
  LET fired == [desk EXCEPT !.timer = -1]
  IN  IF desk.closed THEN fired ELSE WriteCloud([fired EXCEPT !.confirmed = TRUE], ok)

\* Mistake: the grace left running.
CloseLeavingTimer(desk) == [desk EXCEPT !.closed = TRUE]

\* close: no row is cleared.
Close(desk) == [desk EXCEPT !.closed = TRUE, !.timer = -1]
-----------------------------------------------------------------------------
\* observedSignal
ObservedSignal(sawActive, isComplete) ==
  IF sawActive THEN "active" ELSE IF isComplete THEN "clear" ELSE "none"

\* signalFailureFrom: "none" for work that shutdown cancelled.
SignalFailureFrom(error) ==
  CASE error = "OPERATION_ABORTED" -> "none"
    [] error = "LOGIN_FORM_ERROR" -> "login-form"
    [] error \in AuthenticationErrors -> "rejected"
    [] OTHER -> "unreachable"
=============================================================================
