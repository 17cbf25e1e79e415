---------------------------- MODULE BreakerProofs ----------------------------
(***************************************************************************)
(* The breaker's guarantees, for every number of calls and every           *)
(* threshold, window, cooldown and number of slots.                        *)
(*                                                                         *)
(* BreakerSound says nothing of why the circuit may close, so the          *)
(* invariant adds what the successes counted in a half-open spell mean:    *)
(* there have been as many in a row, of any call.                          *)
(***************************************************************************)
EXTENDS CircuitBreaker, FiniteSetTheorems, TLAPS

SuccessesAreInARow == breaker.state = "HALF_OPEN" => streak >= breaker.successes

BreakerInv == BreakerSound /\ SuccessesAreInARow /\ FailuresAreBursts
-----------------------------------------------------------------------------
(* The fields: what the methods keep and where they lead.                  *)

LEMMA BoundsAreNatural ==
  /\ AgeCap \in Nat /\ AgeCap >= FailureWindow /\ AgeCap >= ResetTimeout
  /\ FailureThreshold \in Nat \ {0} /\ ResetTimeout \in Nat \ {0}
  /\ SuccessesToClose \in Nat \ {0} /\ HalfOpenProbes \in Nat \ {0}
  /\ FailureWindow \in Nat \ {0} /\ FailureCoalesce \in Nat \ {0}
BY BreakerAssumption DEF AgeCap

LEMMA PruneKeeps ==
  ASSUME NEW b \in BreakerType
  PROVE  Prune(b) \in BreakerType
BY DEF Prune, BreakerType

LEMMA TransitionKeeps ==
  ASSUME NEW b \in BreakerType, NEW next \in {"CLOSED", "OPEN", "HALF_OPEN"}
  PROVE  /\ TransitionTo(b, next) \in BreakerType
         /\ TransitionTo(b, next).state = next
         /\ next = "OPEN" => TransitionTo(b, next).reported
         /\ next = "CLOSED" => ~TransitionTo(b, next).reported
         /\ next = "HALF_OPEN" => TransitionTo(b, next).reported = b.reported
         /\ TransitionTo(b, next).failures = b.failures
         /\ TransitionTo(b, next).successes = b.successes
         /\ TransitionTo(b, next).halfOpenRequests = b.halfOpenRequests
<1> DEFINE r == IF next = "OPEN" THEN TRUE ELSE IF next = "CLOSED" THEN FALSE ELSE b.reported
<1>1. r \in BOOLEAN BY DEF BreakerType
<1>2. TransitionTo(b, next) = [b EXCEPT !.state = next, !.reported = r]
  BY DEF TransitionTo, BreakerType
<1> HIDE DEF r
<1>3. /\ TransitionTo(b, next) \in BreakerType
      /\ TransitionTo(b, next).state = next /\ TransitionTo(b, next).reported = r
      /\ TransitionTo(b, next).failures = b.failures
      /\ TransitionTo(b, next).successes = b.successes
      /\ TransitionTo(b, next).halfOpenRequests = b.halfOpenRequests
  BY <1>1, <1>2 DEF BreakerType
<1> QED BY <1>3 DEF r

\* A half-open spell is begun, or given up, with no success and no slot.
LEMMA RestartKeeps ==
  ASSUME NEW b \in BreakerType
  PROVE  LET r == [b EXCEPT !.halfOpenRequests = 0, !.successes = 0]
         IN  /\ r \in BreakerType /\ r.halfOpenRequests = 0 /\ r.successes = 0
             /\ r.failures = b.failures /\ r.reported = b.reported /\ r.state = b.state
<1>1. 0 \in 0..(SuccessesToClose - 1) /\ 0 \in 0..HalfOpenProbes BY BoundsAreNatural
<1> QED BY <1>1 DEF BreakerType

LEMMA ResetKeeps ==
  ASSUME NEW b \in BreakerType
  PROVE  /\ Reset(b) \in BreakerType
         /\ Reset(b).state = "CLOSED" /\ ~Reset(b).reported
         /\ Reset(b).halfOpenRequests = 0 /\ Reset(b).failures = {}
<1> DEFINE r == [b EXCEPT !.successes = 0, !.lastFailure = -1, !.halfOpenRequests = 0,
                          !.failures = {}]
<1>1. r \in BreakerType /\ r.halfOpenRequests = 0 /\ r.failures = {}
  <2>1. 0 \in 0..(SuccessesToClose - 1) /\ 0 \in 0..HalfOpenProbes BY BoundsAreNatural
  <2>2. {} \in SUBSET Ages /\ -1 \in Ages \cup {-1} OBVIOUS
  <2> QED BY <2>1, <2>2 DEF BreakerType
<1>2. Reset(b) = TransitionTo(r, "CLOSED") BY DEF Reset
<1> HIDE DEF r
<1> QED BY <1>1, <1>2, TransitionKeeps

\* A success leaves the state, or closes the circuit with everything reset.
LEMMA SuccessKeeps ==
  ASSUME NEW b \in BreakerType
  PROVE  /\ RecordSuccess(b) \in BreakerType
         /\ RecordSuccess(b).failures \subseteq b.failures
         /\ b.state # "HALF_OPEN" =>
              /\ RecordSuccess(b).state = b.state
              /\ RecordSuccess(b).reported = b.reported
              /\ RecordSuccess(b).halfOpenRequests = b.halfOpenRequests
         /\ b.state = "HALF_OPEN" /\ b.successes + 1 >= SuccessesToClose =>
              /\ RecordSuccess(b).state = "CLOSED"
              /\ ~RecordSuccess(b).reported
              /\ RecordSuccess(b).halfOpenRequests = 0
         /\ b.state = "HALF_OPEN" /\ ~(b.successes + 1 >= SuccessesToClose) =>
              /\ RecordSuccess(b).state = "HALF_OPEN"
              /\ RecordSuccess(b).reported = b.reported
              /\ RecordSuccess(b).halfOpenRequests = b.halfOpenRequests
              /\ RecordSuccess(b).successes = b.successes + 1
<1>1. CASE b.state # "HALF_OPEN"
  BY <1>1, PruneKeeps DEF RecordSuccess, Prune, BreakerType
<1>2. CASE b.state = "HALF_OPEN" /\ b.successes + 1 >= SuccessesToClose
  <2>1. RecordSuccess(b) = Reset(b) BY <1>2 DEF RecordSuccess
  <2> QED BY <1>2, <2>1, ResetKeeps
<1>3. CASE b.state = "HALF_OPEN" /\ ~(b.successes + 1 >= SuccessesToClose)
  BY <1>3, BoundsAreNatural DEF RecordSuccess, BreakerType
<1> QED BY <1>1, <1>2, <1>3

LEMMA NoteKeeps ==
  ASSUME NEW b \in BreakerType
  PROVE  /\ NoteFailure(b) \in BreakerType
         /\ NoteFailure(b).state = b.state /\ NoteFailure(b).reported = b.reported
         /\ NoteFailure(b).halfOpenRequests = b.halfOpenRequests
         /\ NoteFailure(b).failures = IF IsSameBurst(b) THEN b.failures ELSE b.failures \cup {0}
<1> DEFINE f == IF IsSameBurst(b) THEN b.failures ELSE b.failures \cup {0}
<1>1. f \in SUBSET Ages /\ 0 \in Ages BY BoundsAreNatural DEF BreakerType, Ages
<1>2. NoteFailure(b) = [b EXCEPT !.lastFailure = 0, !.failures = f]
  BY DEF NoteFailure, BreakerType
<1> HIDE DEF f
<1>3. /\ NoteFailure(b) \in BreakerType
      /\ NoteFailure(b).state = b.state /\ NoteFailure(b).reported = b.reported
      /\ NoteFailure(b).halfOpenRequests = b.halfOpenRequests
      /\ NoteFailure(b).failures = f
  BY <1>1, <1>2 DEF BreakerType
<1> QED BY <1>3 DEF f

\* A failure opens the circuit or leaves the state, and is reported if it opens it.
LEMMA FailureKeeps ==
  ASSUME NEW b \in BreakerType,
         b.reported <=> b.state # "CLOSED",
         b.state # "HALF_OPEN" => b.halfOpenRequests = 0
  PROVE  /\ RecordFailure(b) \in BreakerType
         /\ RecordFailure(b).failures \subseteq NoteFailure(b).failures
         /\ RecordFailure(b).state # "HALF_OPEN"
         /\ RecordFailure(b).reported <=> RecordFailure(b).state # "CLOSED"
         /\ RecordFailure(b).halfOpenRequests = 0
         /\ RecordFailure(b).state = "CLOSED" => b.state = "CLOSED"
<1> DEFINE t == NoteFailure(b)
<1>1. /\ t \in BreakerType /\ t.state = b.state /\ t.reported = b.reported
      /\ t.halfOpenRequests = b.halfOpenRequests
  BY NoteKeeps
<1>2. Prune(t) \in BreakerType /\ Prune(t).failures \subseteq t.failures
      /\ Prune(t).state = t.state /\ Prune(t).reported = t.reported
      /\ Prune(t).halfOpenRequests = t.halfOpenRequests
  BY <1>1, PruneKeeps DEF Prune, BreakerType
<1> HIDE DEF t
<1>3. CASE t.state = "HALF_OPEN"
  <2> DEFINE r == [t EXCEPT !.halfOpenRequests = 0, !.successes = 0]
  <2>1. RecordFailure(b) = TransitionTo(r, "OPEN") BY <1>3 DEF RecordFailure, t
  <2>2. /\ r \in BreakerType /\ r.halfOpenRequests = 0 /\ r.failures = t.failures
    BY <1>1, RestartKeeps
  <2> HIDE DEF r
  <2> QED BY <2>1, <2>2, TransitionKeeps DEF t
<1>4. CASE t.state = "OPEN"
  BY <1>1, <1>4 DEF RecordFailure, BreakerType, t
<1>5. CASE t.state = "CLOSED" /\ Cardinality(Prune(t).failures) >= FailureThreshold
  <2>1. RecordFailure(b) = TransitionTo(Prune(t), "OPEN") BY <1>5 DEF RecordFailure, t
  <2> QED BY <1>1, <1>2, <1>5, <2>1, TransitionKeeps DEF t
<1>6. CASE t.state = "CLOSED" /\ ~(Cardinality(Prune(t).failures) >= FailureThreshold)
  BY <1>1, <1>2, <1>6 DEF RecordFailure, BreakerType, t
<1> QED BY <1>1, <1>3, <1>4, <1>5, <1>6 DEF BreakerType

\* An admitted call leaves the circuit closed, or takes a slot of a half-open spell.
LEMMA AdmitKeeps ==
  ASSUME NEW b \in BreakerType, CanRequest(b), b.reported <=> b.state # "CLOSED"
  PROVE  /\ Admit(b) \in BreakerType
         /\ Admit(b).failures = b.failures
         /\ Admit(b).reported = b.reported
         /\ b.state = "CLOSED" => Admit(b) = b
         /\ b.state # "CLOSED" => Admit(b).state = "HALF_OPEN"
         /\ b.state = "OPEN" => Admit(b).halfOpenRequests = 1 /\ Admit(b).successes = 0
         /\ b.state = "HALF_OPEN" => /\ Admit(b).halfOpenRequests = b.halfOpenRequests + 1
                                     /\ Admit(b).successes = b.successes
<1>1. CASE b.state = "CLOSED"
  BY <1>1 DEF Admit, BreakerType
<1>2. CASE b.state = "OPEN"
  <2> DEFINE r == [b EXCEPT !.halfOpenRequests = 0, !.successes = 0]
             o == TransitionTo(r, "HALF_OPEN")
  <2>1. r \in BreakerType /\ r.halfOpenRequests = 0 /\ r.successes = 0
        /\ r.failures = b.failures /\ r.reported = b.reported
    BY RestartKeeps
  <2> HIDE DEF r
  <2>2. /\ o \in BreakerType /\ o.state = "HALF_OPEN" /\ o.halfOpenRequests = 0
        /\ o.successes = 0 /\ o.failures = b.failures /\ o.reported = b.reported
    BY <2>1, TransitionKeeps
  <2> HIDE DEF o
  <2>3. Admit(b) = [o EXCEPT !.halfOpenRequests = @ + 1]
    BY <1>2, <2>2 DEF Admit, o, r
  <2> QED BY <1>2, <2>2, <2>3, BoundsAreNatural DEF BreakerType
<1>3. CASE b.state = "HALF_OPEN"
  BY <1>3, BoundsAreNatural DEF Admit, CanRequest, BreakerType
<1> QED BY <1>1, <1>2, <1>3 DEF BreakerType

\* Giving a slot back changes nothing else.
LEMMA ReleaseKeeps ==
  ASSUME NEW b \in BreakerType, NEW c \in Calls
  PROVE  LET held == calls[c] \in {"probe", "late"}
         IN  /\ Release(b, c) \in BreakerType
             /\ Release(b, c).state = b.state /\ Release(b, c).failures = b.failures
             /\ Release(b, c).reported = b.reported
             /\ Release(b, c).successes = b.successes
             /\ Release(b, c).halfOpenRequests
                  = IF held /\ b.halfOpenRequests > 0 THEN b.halfOpenRequests - 1
                    ELSE b.halfOpenRequests
<1>1. CASE calls[c] \in {"probe", "late"} /\ b.halfOpenRequests > 0
  <2>1. b.halfOpenRequests - 1 \in 0..HalfOpenProbes
    BY <1>1, BoundsAreNatural DEF BreakerType
  <2> QED BY <1>1, <2>1 DEF Release, BreakerType
<1>2. CASE ~(calls[c] \in {"probe", "late"} /\ b.halfOpenRequests > 0)
  BY <1>2 DEF Release
<1> QED BY <1>1, <1>2
-----------------------------------------------------------------------------
(* The invariant.                                                          *)

LEMMA ProbesFinite ==
  ASSUME NEW s PROVE IsFiniteSet(InState(s)) /\ Cardinality(InState(s)) \in Nat
BY BreakerAssumption, FS_Subset, FS_CardinalityType DEF InState

\* A slot is taken by a call that becomes a probe.
LEMMA ExecuteKeeps ==
  ASSUME BreakerInv, NEW c \in Calls, Execute(c)
  PROVE  BreakerInv'
<1> USE DEF BreakerInv, BreakerSound, BreakerTypeOK
<1>1. /\ breaker \in BreakerType /\ CanRequest(breaker) /\ calls[c] = "idle"
      /\ breaker' = Admit(breaker) /\ calls \in [Calls -> CallStates]
      /\ calls' = [calls EXCEPT ![c] = IF breaker.state = "CLOSED" THEN "plain" ELSE "probe"]
      /\ streak' = IF breaker.state = "OPEN" THEN 0 ELSE streak
      /\ streak \in 0..SuccessesToClose
  BY DEF Execute
<1>2. breaker.reported <=> breaker.state # "CLOSED" BY DEF OneReportPerOutage
<1>3. BreakerTypeOK'
  BY <1>1, <1>2, AdmitKeeps, BoundsAreNatural DEF CallStates
<1>4. OneReportPerOutage'
  BY <1>1, <1>2, AdmitKeeps DEF OneReportPerOutage, BreakerType
<1>5. SuccessesAreInARow'
  BY <1>1, <1>2, AdmitKeeps DEF SuccessesAreInARow, BreakerType
<1>6. FailuresAreBursts'
  BY <1>1, <1>2, AdmitKeeps DEF FailuresAreBursts
<1>7. NoSlotLeaks'
  <2>1. CASE breaker.state = "CLOSED"
    <3>1. InState("probe")' = InState("probe") BY <1>1, <2>1 DEF InState
    <3> QED BY <1>1, <1>2, <2>1, <3>1, AdmitKeeps DEF NoSlotLeaks
  <2>2. CASE breaker.state # "CLOSED"
    <3>1. InState("probe")' = InState("probe") \cup {c} BY <1>1, <2>2 DEF InState
    <3>2. c \notin InState("probe") BY <1>1 DEF InState
    <3>3. /\ IsFiniteSet(InState("probe")) /\ Cardinality(InState("probe")) \in Nat
          /\ Cardinality(InState("probe")') = Cardinality(InState("probe")) + 1
      BY <3>1, <3>2, ProbesFinite, FS_AddElement
    <3>4. breaker'.state = "HALF_OPEN" BY <1>1, <1>2, <2>2, AdmitKeeps
    <3>5. breaker'.halfOpenRequests <= breaker.halfOpenRequests + 1
      <4>1. breaker.halfOpenRequests \in Nat BY <1>1, BoundsAreNatural DEF BreakerType
      <4> QED BY <1>1, <1>2, <2>2, <4>1, AdmitKeeps DEF BreakerType
    <3>6. breaker.halfOpenRequests \in Nat /\ breaker'.halfOpenRequests \in Nat
      BY <1>1, <1>3, BoundsAreNatural DEF BreakerType
    <3> QED BY <3>3, <3>4, <3>5, <3>6 DEF NoSlotLeaks
  <2> QED BY <2>1, <2>2
<1> QED BY <1>3, <1>4, <1>5, <1>6, <1>7

\* Whatever a call's outcome makes of the fields, its slot is given back and the
\* probes of a spell that ended are late.
LEMMA EndKeepsSlots ==
  ASSUME BreakerInv, NEW c \in Calls, calls[c] # "idle", NEW b \in BreakerType, EndCall(c, b),
         b.state = "HALF_OPEN" => /\ breaker.state = "HALF_OPEN"
                                  /\ b.halfOpenRequests = breaker.halfOpenRequests,
         b.state # "HALF_OPEN" => b.halfOpenRequests = 0
  PROVE  /\ breaker' \in BreakerType /\ calls' \in [Calls -> CallStates]
         /\ breaker'.state = b.state /\ breaker'.failures = b.failures
         /\ breaker'.reported = b.reported /\ breaker'.successes = b.successes
         /\ NoSlotLeaks'
<1> USE DEF BreakerInv, BreakerSound, BreakerTypeOK
<1>1. /\ breaker \in BreakerType /\ calls \in [Calls -> CallStates]
      /\ breaker' = Release(b, c)
      /\ calls' = [d \in Calls |->
           IF d = c THEN "idle"
           ELSE IF calls[d] = "probe" /\ b.state # "HALF_OPEN" THEN "late" ELSE calls[d]]
  BY DEF EndCall
<1>2. calls' \in [Calls -> CallStates] BY <1>1 DEF CallStates
<1>3. /\ breaker' \in BreakerType /\ breaker'.state = b.state
      /\ breaker'.failures = b.failures
      /\ breaker'.reported = b.reported /\ breaker'.successes = b.successes
  BY <1>1, ReleaseKeeps
<1>4. b.halfOpenRequests \in Nat /\ breaker'.halfOpenRequests \in Nat
  BY <1>3, BoundsAreNatural DEF BreakerType
<1>5. CASE b.state # "HALF_OPEN"
  <2>1. InState("probe")' = {} BY <1>1, <1>5 DEF InState
  <2>2. breaker'.halfOpenRequests = 0 BY <1>1, <1>4, <1>5, ReleaseKeeps
  <2> QED BY <1>2, <1>3, <2>1, <2>2, FS_EmptySet DEF NoSlotLeaks
<1>6. CASE b.state = "HALF_OPEN"
  <2>1. InState("probe")' = InState("probe") \ {c} BY <1>1, <1>6 DEF InState
  <2>2. /\ IsFiniteSet(InState("probe")) /\ Cardinality(InState("probe")) \in Nat
        /\ Cardinality(InState("probe")') =
             IF c \in InState("probe") THEN Cardinality(InState("probe")) - 1
             ELSE Cardinality(InState("probe"))
    BY <2>1, ProbesFinite, FS_RemoveElement
  <2>3. c \in InState("probe") <=> calls[c] = "probe" BY DEF InState
  <2>4. b.halfOpenRequests <= Cardinality(InState("probe")) BY <1>6 DEF NoSlotLeaks
  <2>5. c \in InState("probe") => Cardinality(InState("probe")) # 0
    BY <2>2, FS_EmptySet
  <2>6. breaker'.halfOpenRequests
          = IF calls[c] \in {"probe", "late"} /\ b.halfOpenRequests > 0
            THEN b.halfOpenRequests - 1 ELSE b.halfOpenRequests
    BY <1>1, ReleaseKeeps
  <2>7. breaker'.halfOpenRequests <= Cardinality(InState("probe")')
    BY <1>4, <2>2, <2>3, <2>4, <2>5, <2>6
  <2> QED BY <1>2, <1>3, <1>6, <2>7 DEF NoSlotLeaks
<1> QED BY <1>5, <1>6

LEMMA SucceedKeeps ==
  ASSUME BreakerInv, NEW c \in Calls, Succeed(c)
  PROVE  /\ BreakerInv'
         /\ breaker.state # "CLOSED" /\ breaker'.state = "CLOSED"
              => breaker.state = "HALF_OPEN" /\ streak' = SuccessesToClose
<1> USE DEF BreakerInv, BreakerSound, BreakerTypeOK
<1> DEFINE b == RecordSuccess(breaker)
<1>1. /\ breaker \in BreakerType /\ calls[c] # "idle" /\ EndCall(c, b)
      /\ streak \in 0..SuccessesToClose
      /\ streak' = IF streak < SuccessesToClose THEN streak + 1 ELSE streak
  BY DEF Succeed
<1>2. breaker.reported <=> breaker.state # "CLOSED" BY DEF OneReportPerOutage
<1>3. /\ b \in BreakerType /\ b.failures \subseteq breaker.failures
      /\ breaker.state # "HALF_OPEN" =>
           /\ b.state = breaker.state /\ b.reported = breaker.reported
           /\ b.halfOpenRequests = breaker.halfOpenRequests
      /\ breaker.state = "HALF_OPEN" /\ breaker.successes + 1 >= SuccessesToClose =>
           /\ b.state = "CLOSED" /\ ~b.reported /\ b.halfOpenRequests = 0
      /\ breaker.state = "HALF_OPEN" /\ ~(breaker.successes + 1 >= SuccessesToClose) =>
           /\ b.state = "HALF_OPEN" /\ b.reported = breaker.reported
           /\ b.halfOpenRequests = breaker.halfOpenRequests
           /\ b.successes = breaker.successes + 1
  BY <1>1, SuccessKeeps
<1> HIDE DEF b
<1>4. b.state = "HALF_OPEN" => /\ breaker.state = "HALF_OPEN"
                               /\ b.halfOpenRequests = breaker.halfOpenRequests
  BY <1>3
<1>5. b.state # "HALF_OPEN" => b.halfOpenRequests = 0
  BY <1>3 DEF NoSlotLeaks
<1>6. /\ breaker' \in BreakerType /\ calls' \in [Calls -> CallStates]
      /\ breaker'.state = b.state /\ breaker'.failures = b.failures
      /\ breaker'.reported = b.reported /\ breaker'.successes = b.successes
      /\ NoSlotLeaks'
  BY <1>1, <1>3, <1>4, <1>5, EndKeepsSlots
<1>7. BreakerTypeOK' BY <1>1, <1>6, BoundsAreNatural
<1>8. OneReportPerOutage' BY <1>2, <1>3, <1>6 DEF OneReportPerOutage
<1>9. FailuresAreBursts' BY <1>3, <1>6 DEF FailuresAreBursts
<1>10. breaker.successes \in Nat /\ breaker.successes < SuccessesToClose
  BY <1>1, BoundsAreNatural DEF BreakerType
<1>11. SuccessesAreInARow'
  BY <1>1, <1>3, <1>6, <1>10, BoundsAreNatural DEF SuccessesAreInARow
<1>12. breaker.state # "CLOSED" /\ breaker'.state = "CLOSED"
         => breaker.state = "HALF_OPEN" /\ streak' = SuccessesToClose
  BY <1>1, <1>3, <1>6, <1>10, BoundsAreNatural DEF SuccessesAreInARow
<1> QED BY <1>6, <1>7, <1>8, <1>9, <1>11, <1>12

\* A failure that is counted is a window apart from those counted before.
LEMMA FailKeeps ==
  ASSUME BreakerInv, NEW c \in Calls, Fail(c)
  PROVE  BreakerInv' /\ (breaker'.state = "CLOSED" => breaker.state = "CLOSED")
<1> USE DEF BreakerInv, BreakerSound, BreakerTypeOK
<1> DEFINE b == RecordFailure(breaker)
<1>1. /\ breaker \in BreakerType /\ calls[c] # "idle" /\ EndCall(c, b) /\ streak' = 0
  BY DEF Fail
<1>2. breaker.reported <=> breaker.state # "CLOSED" BY DEF OneReportPerOutage
<1>3. /\ b \in BreakerType /\ b.failures \subseteq NoteFailure(breaker).failures
      /\ b.state # "HALF_OPEN" /\ (b.reported <=> b.state # "CLOSED")
      /\ b.halfOpenRequests = 0 /\ (b.state = "CLOSED" => breaker.state = "CLOSED")
  BY <1>1, <1>2, FailureKeeps DEF NoSlotLeaks
<1> HIDE DEF b
<1>4. /\ breaker' \in BreakerType /\ calls' \in [Calls -> CallStates]
      /\ breaker'.state = b.state /\ breaker'.failures = b.failures
      /\ breaker'.reported = b.reported /\ NoSlotLeaks'
  BY <1>1, <1>3, EndKeepsSlots
<1>5. BreakerTypeOK' BY <1>1, <1>4, BoundsAreNatural
<1>6. OneReportPerOutage' /\ SuccessesAreInARow'
  BY <1>3, <1>4 DEF OneReportPerOutage, SuccessesAreInARow
<1>7. FailuresAreBursts'
  <2> SUFFICES ASSUME NEW x \in NoteFailure(breaker).failures,
                      NEW y \in NoteFailure(breaker).failures, x < y, y < AgeCap
               PROVE  y - x >= FailureCoalesce
    BY <1>3, <1>4 DEF FailuresAreBursts
  <2>1. breaker.failures \subseteq Ages BY <1>1 DEF BreakerType
  <2>2. NoteFailure(breaker).failures
          = IF IsSameBurst(breaker) THEN breaker.failures ELSE breaker.failures \cup {0}
    BY <1>1, NoteKeeps
  <2>3. x \in Int /\ y \in Int /\ x >= 0 BY <2>1, <2>2, BoundsAreNatural DEF Ages
  <2>4. y \in breaker.failures BY <2>1, <2>2, <2>3
  <2>5. CASE x \in breaker.failures BY <2>4, <2>5 DEF FailuresAreBursts
  <2>6. CASE x \notin breaker.failures
    <3>1. ~IsSameBurst(breaker) /\ x = 0 BY <2>2, <2>6
    <3>2. ~(y < FailureCoalesce) BY <2>4, <3>1 DEF IsSameBurst
    <3> QED BY <2>3, <3>1, <3>2, BoundsAreNatural
  <2> QED BY <2>5, <2>6
<1> QED BY <1>3, <1>4, <1>5, <1>6, <1>7

LEMMA TickKeeps ==
  ASSUME BreakerInv, Tick
  PROVE  BreakerInv' /\ breaker'.state = breaker.state
<1> USE DEF BreakerInv, BreakerSound, BreakerTypeOK
<1> DEFINE f == {Older(a) : a \in breaker.failures}
           l == IF breaker.lastFailure = -1 THEN -1 ELSE Older(breaker.lastFailure)
<1>1. \A a \in Ages : a \in Int /\ Older(a) \in Ages BY BoundsAreNatural DEF Older, Ages
<1>2. breaker \in BreakerType /\ breaker.failures \subseteq Ages BY DEF BreakerType
<1>3. f \in SUBSET Ages /\ l \in Ages \cup {-1} BY <1>1, <1>2 DEF BreakerType
<1>4. breaker' = [breaker EXCEPT !.lastFailure = l, !.failures = f]
      /\ calls' = calls /\ streak' = streak
  BY <1>2 DEF Tick, BreakerType
<1> HIDE DEF l
<1>5. FailuresAreBursts'
  <2>0. breaker'.failures = f BY <1>2, <1>4 DEF BreakerType
  <2> SUFFICES ASSUME NEW a \in breaker.failures, NEW b \in breaker.failures,
                      Older(a) < Older(b), Older(b) < AgeCap
               PROVE  Older(b) - Older(a) >= FailureCoalesce
    BY <2>0 DEF FailuresAreBursts
  <2>1. a \in 0..AgeCap /\ b \in 0..AgeCap BY <1>2 DEF Ages
  <2>2. a < b /\ b < AgeCap /\ Older(b) - Older(a) = b - a
    BY <2>1, BoundsAreNatural DEF Older
  <2> QED BY <2>2 DEF FailuresAreBursts
<1> HIDE DEF f
<1>6. /\ breaker' \in BreakerType /\ breaker'.state = breaker.state
      /\ breaker'.reported = breaker.reported /\ breaker'.successes = breaker.successes
      /\ breaker'.halfOpenRequests = breaker.halfOpenRequests
  BY <1>2, <1>3, <1>4 DEF BreakerType
<1>7. BreakerTypeOK' BY <1>4, <1>6
<1>8. NoSlotLeaks' BY <1>4, <1>6 DEF NoSlotLeaks, InState
<1>9. OneReportPerOutage' /\ SuccessesAreInARow'
  BY <1>4, <1>6 DEF OneReportPerOutage, SuccessesAreInARow
<1> QED BY <1>5, <1>6, <1>7, <1>8, <1>9

LEMMA StatusKeeps ==
  ASSUME BreakerInv, GetStatus
  PROVE  BreakerInv' /\ breaker'.state = breaker.state
<1> USE DEF BreakerInv, BreakerSound, BreakerTypeOK
<1>1. /\ breaker' \in BreakerType /\ breaker'.state = breaker.state
      /\ breaker'.reported = breaker.reported /\ breaker'.successes = breaker.successes
      /\ breaker'.halfOpenRequests = breaker.halfOpenRequests
      /\ breaker'.failures \subseteq breaker.failures
      /\ calls' = calls /\ streak' = streak
  BY PruneKeeps DEF GetStatus, Prune, BreakerType
<1>2. NoSlotLeaks' BY <1>1 DEF NoSlotLeaks, InState
<1>3. OneReportPerOutage' /\ SuccessesAreInARow' /\ FailuresAreBursts'
  BY <1>1 DEF OneReportPerOutage, SuccessesAreInARow, FailuresAreBursts
<1> QED BY <1>1, <1>2, <1>3

LEMMA BreakerInvInit == Init => BreakerInv
<1> SUFFICES ASSUME Init PROVE BreakerInv OBVIOUS
<1>1. BreakerTypeOK
  BY BoundsAreNatural DEF Init, BreakerTypeOK, BreakerType, CallStates
<1>2. InState("probe") = {} BY DEF Init, InState
<1>3. NoSlotLeaks BY <1>2, FS_EmptySet DEF Init, NoSlotLeaks
<1> QED BY <1>1, <1>3 DEF Init, BreakerInv, BreakerSound, OneReportPerOutage,
                          SuccessesAreInARow, FailuresAreBursts

\* What a step keeps, and what it is that may close the circuit.
LEMMA BreakerStep ==
  ASSUME BreakerInv, [Next]_vars
  PROVE  /\ BreakerInv'
         /\ breaker.state # "CLOSED" /\ breaker'.state = "CLOSED"
              => breaker.state = "HALF_OPEN" /\ streak' = SuccessesToClose
<1>1. ASSUME NEW c \in Calls, Execute(c)
      PROVE  BreakerInv' /\ (breaker.state # "CLOSED" => breaker'.state # "CLOSED")
  <2>1. breaker \in BreakerType /\ (breaker.reported <=> breaker.state # "CLOSED")
    BY DEF BreakerInv, BreakerSound, BreakerTypeOK, OneReportPerOutage
  <2>2. CanRequest(breaker) /\ breaker' = Admit(breaker) BY <1>1 DEF Execute
  <2>3. breaker.state # "CLOSED" => breaker'.state = "HALF_OPEN" BY <2>1, <2>2, AdmitKeeps
  <2> QED BY <1>1, <2>3, ExecuteKeeps
<1>2. CASE UNCHANGED vars
  BY <1>2 DEF vars, BreakerInv, BreakerSound, BreakerTypeOK, NoSlotLeaks, InState,
              OneReportPerOutage, SuccessesAreInARow, FailuresAreBursts
<1>3. CASE Refuse BY <1>2, <1>3 DEF Refuse
<1> QED BY <1>1, <1>2, <1>3, SucceedKeeps, FailKeeps, TickKeeps, StatusKeeps DEF Next
-----------------------------------------------------------------------------
\* The invariant holds of every behaviour.
THEOREM BreakerInvHolds == Spec => []BreakerInv
BY BreakerInvInit, BreakerStep, PTL DEF Spec

\* No slot leaks, the report stands exactly while the circuit is not closed, and the
\* fields keep their type (circuit-breaker.ts:274-278, client.ts:255-258).
THEOREM BreakerIsSound == Spec => []BreakerSound
<1>1. BreakerInv => BreakerSound BY DEF BreakerInv
<1> QED BY <1>1, BreakerInvHolds, PTL

\* Attempts that fail in a burst are one failure (circuit-breaker.ts:190-196).
THEOREM BurstsCountOnce == Spec => []FailuresAreBursts
<1>1. BreakerInv => FailuresAreBursts BY DEF BreakerInv
<1> QED BY <1>1, BreakerInvHolds, PTL

\* The circuit closes only on as many successes in a row as it asks for.
THEOREM ClosingIsEarned == Spec => ClosesOnRecovery
<1>1. BreakerInv /\ [Next]_vars =>
        [breaker.state # "CLOSED" /\ breaker'.state = "CLOSED"
           => breaker.state = "HALF_OPEN" /\ streak' = SuccessesToClose]_vars
  BY BreakerStep
<1> QED BY <1>1, BreakerInvHolds, PTL DEF Spec, ClosesOnRecovery
=============================================================================
