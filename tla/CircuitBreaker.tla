--------------------------- MODULE CircuitBreaker ---------------------------
(***************************************************************************)
(* The circuit breaker around every call to Alarm.com                      *)
(* (src/src/api/circuit-breaker.ts), with the report the client makes of   *)
(* its transitions (src/src/api/client.ts:254-291).                        *)
(*                                                                         *)
(* Time is kept as ages in ticks, cut off where no comparison can tell     *)
(* them apart; #failureTimestamps is the set of the ages of its members,   *)
(* which #failureCoalesceMs keeps distinct.                                *)
(***************************************************************************)
EXTENDS Integers, FiniteSets

CONSTANTS
  Calls,              \* identities of guarded calls, reused when one has ended
  FailureThreshold,
  ResetTimeout,       \* resetTimeoutMs, in ticks
  SuccessesToClose,
  HalfOpenProbes,
  FailureWindow,      \* failureWindowMs, in ticks
  FailureCoalesce     \* failureCoalesceMs, in ticks

ASSUME BreakerAssumption ==
  /\ IsFiniteSet(Calls)
  /\ {FailureThreshold, ResetTimeout, SuccessesToClose, HalfOpenProbes,
      FailureWindow, FailureCoalesce} \subseteq Nat \ {0}
  /\ FailureCoalesce <= FailureWindow

VARIABLES
  breaker,   \* the fields of the breaker and the client's outage flag
  calls,     \* guarded calls in flight
  streak     \* history: successes recorded since the last failure or opening

vars == <<breaker, calls, streak>>

AgeCap == IF ResetTimeout > FailureWindow THEN ResetTimeout ELSE FailureWindow
Ages == 0..AgeCap

BreakerType ==
  [state : {"CLOSED", "OPEN", "HALF_OPEN"},
   successes : 0..(SuccessesToClose - 1),
   lastFailure : Ages \cup {-1},          \* -1: #lastFailureTime is null
   halfOpenRequests : 0..HalfOpenProbes,
   failures : SUBSET Ages,
   reported : BOOLEAN]                    \* #hasReportedCircuitOpen

\* "late": a probe of a half-open spell that has ended.
CallStates == {"idle", "plain", "probe", "late"}

InState(s) == {c \in Calls : calls[c] = s}
-----------------------------------------------------------------------------
(* The methods, as functions of the fields.                                *)

\* Mistake: every opening starts a new outage, those of failed probes included.
TransitionToChatty(b, next) ==
  [b EXCEPT !.state = next, !.reported = next = "OPEN"]

\* #transitionTo, and the client's listener: one report per outage.
TransitionTo(b, next) ==
  [b EXCEPT !.state = next,
            !.reported = IF next = "OPEN" THEN TRUE ELSE IF next = "CLOSED" THEN FALSE ELSE @]

Prune(b) == [b EXCEPT !.failures = {a \in @ : a < FailureWindow}]

IsCooledDown(b) == b.lastFailure >= ResetTimeout

\* Mistake: so many probes in a spell, not at a time.
CanRequestPerSpell(b) ==
  \/ b.state = "CLOSED"
  \/ b.state = "OPEN" /\ IsCooledDown(b)
  \/ b.state = "HALF_OPEN" /\ b.halfOpenRequests + b.successes < HalfOpenProbes

CanRequest(b) ==
  \/ b.state = "CLOSED"
  \/ b.state = "OPEN" /\ IsCooledDown(b)
  \/ b.state = "HALF_OPEN" /\ b.halfOpenRequests < HalfOpenProbes

\* What an admitted request leaves of the fields.
Admit(b) ==
  LET t == IF b.state = "OPEN"
           THEN TransitionTo([b EXCEPT !.halfOpenRequests = 0, !.successes = 0], "HALF_OPEN")
           ELSE b
  IN  IF t.state = "HALF_OPEN" THEN [t EXCEPT !.halfOpenRequests = @ + 1] ELSE t

Reset(b) ==
  TransitionTo([b EXCEPT !.successes = 0, !.lastFailure = -1, !.halfOpenRequests = 0,
                         !.failures = {}], "CLOSED")

\* Mistakes: closing on the first probe that succeeds; one success too late.
RecordSuccessEager(b) == IF b.state = "HALF_OPEN" THEN Reset(b) ELSE Prune(b)
RecordSuccessLate(b) ==
  IF b.state # "HALF_OPEN" THEN Prune(b)
  ELSE IF b.successes + 1 > SuccessesToClose THEN Reset(b)
  ELSE [b EXCEPT !.successes = @ + 1]

RecordSuccess(b) ==
  IF b.state # "HALF_OPEN" THEN Prune(b)
  ELSE IF b.successes + 1 >= SuccessesToClose THEN Reset(b)
  ELSE [b EXCEPT !.successes = @ + 1]

IsSameBurst(b) == \E a \in b.failures : a < FailureCoalesce

\* Mistake: every attempt of a retried request counted.
NoteEveryFailure(b) == [b EXCEPT !.lastFailure = 0, !.failures = @ \cup {0}]

NoteFailure(b) ==
  [b EXCEPT !.lastFailure = 0,
            !.failures = IF IsSameBurst(b) THEN @ ELSE @ \cup {0}]

RecordFailure(b) ==
  LET t == NoteFailure(b)
  IN  IF t.state = "HALF_OPEN"
      THEN TransitionTo([t EXCEPT !.halfOpenRequests = 0, !.successes = 0], "OPEN")
      ELSE IF t.state = "OPEN" THEN t
      ELSE IF Cardinality(Prune(t).failures) >= FailureThreshold
      THEN TransitionTo(Prune(t), "OPEN")
      ELSE Prune(t)

\* Mistake: the slot released only with the record of an outcome.
ReleaseNothing(b, c) == b

\* The finally of execute().
Release(b, c) ==
  IF calls[c] \in {"probe", "late"} /\ b.halfOpenRequests > 0
  THEN [b EXCEPT !.halfOpenRequests = @ - 1] ELSE b
-----------------------------------------------------------------------------
(* Calls start and end, and time passes.                                   *)

Init ==
  /\ breaker = [state |-> "CLOSED", successes |-> 0, lastFailure |-> -1,
                halfOpenRequests |-> 0, failures |-> {}, reported |-> FALSE]
  /\ calls = [c \in Calls |-> "idle"]
  /\ streak = 0

\* execute() admits a call; the check and the count are one synchronous step.
Execute(c) ==
  /\ calls[c] = "idle" /\ CanRequest(breaker)
  /\ breaker' = Admit(breaker)
  /\ calls' = [calls EXCEPT ![c] = IF breaker.state = "CLOSED" THEN "plain" ELSE "probe"]
  /\ streak' = IF breaker.state = "OPEN" THEN 0 ELSE streak

\* Mistake: a refused call stamped as one more failure.
RefuseAndRecord ==
  /\ ~CanRequest(breaker)
  /\ breaker' = NoteFailure(breaker)
  /\ UNCHANGED <<calls, streak>>

\* execute() throws CircuitBreakerError.
Refuse == ~CanRequest(breaker) /\ UNCHANGED vars

EndCall(c, b) ==
  /\ breaker' = Release(b, c)
  /\ calls' = [d \in Calls |->
       IF d = c THEN "idle"
       ELSE IF calls[d] = "probe" /\ b.state # "HALF_OPEN" THEN "late" ELSE calls[d]]

Succeed(c) ==
  /\ calls[c] # "idle"
  /\ EndCall(c, RecordSuccess(breaker))
  /\ streak' = IF streak < SuccessesToClose THEN streak + 1 ELSE streak

Fail(c) ==
  /\ calls[c] # "idle"
  /\ EndCall(c, RecordFailure(breaker))
  /\ streak' = 0

GetStatus == breaker' = Prune(breaker) /\ UNCHANGED <<calls, streak>>

Older(a) == IF a < AgeCap THEN a + 1 ELSE a

Tick ==
  /\ breaker' = [breaker EXCEPT !.lastFailure = IF @ = -1 THEN -1 ELSE Older(@),
                                !.failures = {Older(a) : a \in @}]
  /\ UNCHANGED <<calls, streak>>

Next ==
  \/ \E c \in Calls : Execute(c) \/ Succeed(c) \/ Fail(c)
  \/ Refuse \/ GetStatus \/ Tick

Spec == Init /\ [][Next]_vars

\* Calls are made, every call ends (http deadlines) and the clock moves.
LiveSpec ==
  /\ Spec
  /\ WF_vars(\E c \in Calls : Execute(c))
  /\ WF_vars(Refuse)
  /\ \A c \in Calls : WF_vars(Succeed(c) \/ Fail(c))
  /\ WF_vars(Tick)
-----------------------------------------------------------------------------
(* Properties.                                                             *)

\* The fields keep their type; no success or slot is counted past its limit.
BreakerTypeOK ==
  /\ breaker \in BreakerType
  /\ calls \in [Calls -> CallStates]
  /\ streak \in 0..SuccessesToClose

\* The counter never claims more probes than are in flight for this half-open
\* spell, whatever becomes of late ones: a slot that leaked would refuse every
\* request for ever (circuit-breaker.ts:274-278).
NoSlotLeaks ==
  /\ breaker.halfOpenRequests <= Cardinality(InState("probe"))
  /\ breaker.state # "HALF_OPEN" => breaker.halfOpenRequests = 0 /\ InState("probe") = {}

\* One logical request is one failure: counted failures lie a coalescing window
\* apart, however fast attempts fail (circuit-breaker.ts:190-196).
FailuresAreBursts ==
  \A a, b \in breaker.failures :
    a < b /\ b < AgeCap => b - a >= FailureCoalesce

\* The outage has been reported exactly while the circuit is not closed, through
\* every failed probe (client.ts:255-258, 268-274).
OneReportPerOutage == breaker.reported <=> breaker.state # "CLOSED"

\* What every state of the breaker satisfies: its type, no slot leaked, one report.
BreakerSound == BreakerTypeOK /\ NoSlotLeaks /\ OneReportPerOutage

\* The circuit closes only after as many successes in a row as it asks for, with
\* no failure of any call between them, late ones included.
ClosesOnRecovery ==
  [][ breaker.state # "CLOSED" /\ breaker'.state = "CLOSED"
        => breaker.state = "HALF_OPEN" /\ streak' = SuccessesToClose ]_vars

\* An open circuit comes to probe again, failures of late calls and refused calls
\* notwithstanding.
ProbesAgain == breaker.state = "OPEN" ~> breaker.state # "OPEN"

\* Probing comes to an end: no half-open spell with every slot taken for ever.
ProbingEnds == breaker.state = "HALF_OPEN" ~> breaker.state # "HALF_OPEN"

\* No state but CLOSED is a trap (circuit-breaker.ts:154-175, 274-278).
NoTrap == ProbesAgain /\ ProbingEnds
=============================================================================
