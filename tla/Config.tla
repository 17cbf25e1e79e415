-------------------------------- MODULE Config --------------------------------
(***************************************************************************)
(* What the plugin makes of its block of config.json                       *)
(* (src/src/utils/validators.ts).  It never throws: fatal problems become  *)
(* errors, the rest warnings, and numbers are clamped into ranges that do  *)
(* not get the account locked.                                             *)
(*                                                                         *)
(* A value is a record of what the code asks of it.  Numbers are counted   *)
(* in halves, so that rounding is there; strings are their verdicts; lists *)
(* of ignored devices are Platform's concern.                              *)
(***************************************************************************)
EXTENDS Integers

MIN_POLL_INTERVAL_SEC == 60
MAX_POLL_INTERVAL_SEC == 86400
MIN_AUTH_INTERVAL_MIN == 10
MAX_AUTH_INTERVAL_MIN == 1440
MIN_DIAGNOSTICS_INTERVAL_SEC == 30
MAX_DIAGNOSTICS_INTERVAL_SEC == 86400

Absent == [kind |-> "absent", halves |-> 0]
NotANumber == [kind |-> "other", halves |-> 0]
InHalves(n) == [kind |-> "number", halves |-> n]

\* A setting as it will be used, and whether the user is told it was changed.
Setting(value, isWarned) == [value |-> value, isWarned |-> isWarned]

\* Math.round: halves go up.
Round(halves) == (halves + 1) \div 2

\* Mistake: compared before it is rounded, and never lowered.
ClampToFloor(v, fallback, floor, ceiling) ==
  CASE v.kind = "absent" -> Setting(fallback, FALSE)
    [] v.kind = "other" -> Setting(fallback, TRUE)
    [] OTHER -> IF v.halves < 2 * floor THEN Setting(floor, TRUE)
                ELSE Setting(Round(v.halves), FALSE)

ClampToRange(v, fallback, floor, ceiling) ==
  CASE v.kind = "absent" -> Setting(fallback, FALSE)
    [] v.kind = "other" -> Setting(fallback, TRUE)
    [] v.kind = "number" /\ Round(v.halves) < floor -> Setting(floor, TRUE)
    [] v.kind = "number" /\ Round(v.halves) > ceiling -> Setting(ceiling, TRUE)
    [] OTHER -> Setting(Round(v.halves), FALSE)

\* 0 turns the heartbeats off; what is not a positive number does too, with a warning.
ParseDiagnosticsInterval(v) ==
  IF v.kind = "absent" \/ (v.kind = "number" /\ v.halves = 0) THEN Setting(0, FALSE)
  ELSE IF v.kind = "other" \/ v.halves < 0 THEN Setting(0, TRUE)
  ELSE ClampToRange(v, 0, MIN_DIAGNOSTICS_INTERVAL_SEC, MAX_DIAGNOSTICS_INTERVAL_SEC)

ParseBoolean(v, fallback) == IF v \in {"true", "false"} THEN v = "true" ELSE fallback

Credentials == {"absent", "blank", "given", "too long"}
RequiredIsMissing(v) == v # "given"

\* The two-factor cookie: a six-digit code and a whole cookie header are refused.
MfaCookies == {"absent", "not a string", "too long", "six digits", "illegal", "short", "good"}
MfaIsRefused(v) == v \in {"not a string", "too long", "six digits", "illegal"}
MfaIsWarned(v) == v \in {"absent", "short"}

\* validateConfig, with DISABLED_CONFIG for a config that is not usable.
ValidateConfig(raw) ==
  LET poll == ClampToRange(raw.pollIntervalSeconds, MIN_POLL_INTERVAL_SEC,
                           MIN_POLL_INTERVAL_SEC, MAX_POLL_INTERVAL_SEC)
      auth == ClampToRange(raw.authIntervalMinutes, MIN_AUTH_INTERVAL_MIN,
                           MIN_AUTH_INTERVAL_MIN, MAX_AUTH_INTERVAL_MIN)
      diagnostics == ParseDiagnosticsInterval(raw.diagnosticsInterval)
      isUsable == /\ ~RequiredIsMissing(raw.username) /\ ~RequiredIsMissing(raw.password)
                  /\ ~MfaIsRefused(raw.twoFactorAuthenticationId)
  IN  [isUsable |-> isUsable,
       pollIntervalSeconds |-> IF isUsable THEN poll.value ELSE 0,
       authIntervalMinutes |-> IF isUsable THEN auth.value ELSE 0,
       diagnosticsInterval |-> IF isUsable THEN diagnostics.value ELSE 0,
       useEventStream |-> isUsable /\ ParseBoolean(raw.useEventStream, TRUE),
       warnings |-> {f \in {"poll", "auth", "diagnostics", "two-factor"} :
                       \/ f = "poll" /\ poll.isWarned
                       \/ f = "auth" /\ auth.isWarned
                       \/ f = "diagnostics" /\ diagnostics.isWarned
                       \/ f = "two-factor" /\ MfaIsWarned(raw.twoFactorAuthenticationId)}]
=============================================================================
