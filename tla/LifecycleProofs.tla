---------------------------- MODULE LifecycleProofs ----------------------------
(***************************************************************************)
(* The life of the platform, for every configuration, window of outcomes   *)
(* and number of changes of what Alarm.com does.                           *)
(*                                                                         *)
(* Startup has an await at every stage, and a shutdown may come in any of  *)
(* them.  The invariant says what each stage has armed so far: nothing but *)
(* the retry before the first discovery, everything but the heartbeat      *)
(* while the stream opens, so that what is added last makes Ready whole.   *)
(* And it says that the session of a startup that goes on has not been     *)
(* rejected, which an outage by itself never does.                         *)
(***************************************************************************)
EXTENDS Lifecycle, SequenceTheorems, FiniteSetTheorems, TLAPS

Count == 0..(CountBase - 1)

Desk ==
  [counts : [Counters -> Count], marker : [Counters -> Count],
   outcomes : BoundedSeq(BOOLEAN, OutcomeWindow),
   lastHealth : Healths, told : Healths, reported : [Counters -> Count]]

\* Heartbeats account for everything up to the marker, and say what they find.
DeskKept(desk) ==
  /\ desk \in Desk
  /\ desk.lastHealth # "none" => desk.told = desk.lastHealth
  /\ desk.reported = desk.marker

\* Before the first discovery nothing runs but the retry.
NothingYet ==
  stage \in {"inert", "loaded", "discovering", "sleeping"}
    => stream = "none" /\ timers \subseteq {"retry"}

\* While the stream opens all is armed but the heartbeat.
AlmostReady ==
  (stage = "opening" /\ ~down) =>
    /\ {"poll", "keep-alive"} \subseteq timers /\ "heartbeat" \notin timers
    /\ config.useEventStream /\ stream # "none"

LifecycleInv ==
  /\ config.diagnosticsInterval \in Nat /\ config.useEventStream \in BOOLEAN
  /\ stage \in Stages /\ stream \in Streams /\ timers \subseteq AllTimers
  /\ DeskKept(collector)
  /\ "heartbeat" \in timers => collector.lastHealth # "none"
  /\ NothingYet /\ AlmostReady
  /\ NothingOutlivesShutdown /\ ReadyIsWhole

\* A startup that goes on has not been rejected, so no login floor it meets needs a human.
SessionInv ==
  /\ session \in Sessions /\ breaker \in BOOLEAN
  /\ stage \in {"inert", "loaded", "discovering", "sleeping"} => session # "rejected" /\ ~cycle
-----------------------------------------------------------------------------
(* The settings.                                                           *)

LEMMA RoundType ==
  ASSUME NEW halves \in Int PROVE Round(halves) \in Int
<1>1. halves + 1 \in Int OBVIOUS
<1> QED BY <1>1 DEF Round

LEMMA ClampNumber ==
  ASSUME NEW v, v.kind = "number", NEW fallback, NEW floor, NEW ceiling
  PROVE  LET n == Round(v.halves)
             s == ClampToRange(v, fallback, floor, ceiling)
         IN  \/ n < floor /\ s = Setting(floor, TRUE)
             \/ n > ceiling /\ s = Setting(ceiling, TRUE)
             \/ ~(n < floor) /\ ~(n > ceiling) /\ s = Setting(n, FALSE)
<1> DEFINE n == Round(v.halves)
           under == n < floor
           over == n > ceiling
           s == CASE v.kind = "absent" -> Setting(fallback, FALSE)
                  [] v.kind = "other" -> Setting(fallback, TRUE)
                  [] v.kind = "number" /\ under -> Setting(floor, TRUE)
                  [] v.kind = "number" /\ over -> Setting(ceiling, TRUE)
                  [] OTHER -> Setting(n, FALSE)
<1>1. ClampToRange(v, fallback, floor, ceiling) = s BY DEF ClampToRange
<1> SUFFICES \/ under /\ s = Setting(floor, TRUE)
             \/ over /\ s = Setting(ceiling, TRUE)
             \/ ~under /\ ~over /\ s = Setting(n, FALSE)
  BY <1>1
<1>2. v.kind # "absent" /\ v.kind # "other" OBVIOUS
<1> HIDE DEF n, under, over
<1>3. CASE under /\ ~over BY <1>2, <1>3
<1>4. CASE over /\ ~under BY <1>2, <1>4
<1>5. CASE under /\ over BY <1>2, <1>5
<1>6. CASE ~under /\ ~over BY <1>2, <1>6
<1> QED BY <1>3, <1>4, <1>5, <1>6

\* A clamped number is in its range, and unchanged if there is no warning.
LEMMA Clamped ==
  ASSUME NEW v \in [kind : {"absent", "other", "number"}, halves : Int],
         NEW floor \in Int, NEW ceiling \in Int, floor <= ceiling,
         NEW fallback \in floor..ceiling
  PROVE  LET s == ClampToRange(v, fallback, floor, ceiling)
         IN  /\ s.value \in floor..ceiling
             /\ v.kind = "number" /\ ~s.isWarned => s.value = Round(v.halves)
<1>1. CASE v.kind = "absent" BY <1>1 DEF ClampToRange, Setting
<1>2. CASE v.kind = "other" BY <1>2 DEF ClampToRange, Setting
<1>3. CASE v.kind = "number"
  <2> DEFINE n == Round(v.halves)
             s == ClampToRange(v, fallback, floor, ceiling)
  <2>1. n \in Int BY RoundType
  <2>2. \/ n < floor /\ s = Setting(floor, TRUE)
        \/ n > ceiling /\ s = Setting(ceiling, TRUE)
        \/ ~(n < floor) /\ ~(n > ceiling) /\ s = Setting(n, FALSE)
    BY <1>3, ClampNumber
  <2> HIDE DEF n, s
  <2>3. s.value \in floor..ceiling /\ (~s.isWarned => s.value = n)
    BY <2>1, <2>2 DEF Setting
  <2> QED BY <2>3 DEF n, s
<1> QED BY <1>1, <1>2, <1>3

LEMMA DiagnosticsParsed ==
  ASSUME NEW v \in [kind : {"absent", "other", "number"}, halves : Int]
  PROVE  LET s == ParseDiagnosticsInterval(v)
         IN  /\ s.value = 0
                  \/ s.value \in MIN_DIAGNOSTICS_INTERVAL_SEC..MAX_DIAGNOSTICS_INTERVAL_SEC
             /\ v.kind = "number" /\ ~s.isWarned => s.value = Round(v.halves)
<1> DEFINE isOff == v.kind = "number" /\ v.halves = 0
           isNegative == v.halves < 0
           clamped == ClampToRange(v, 0, MIN_DIAGNOSTICS_INTERVAL_SEC,
                                   MAX_DIAGNOSTICS_INTERVAL_SEC)
<1>1. ParseDiagnosticsInterval(v) =
        IF v.kind = "absent" \/ isOff THEN Setting(0, FALSE)
        ELSE IF v.kind = "other" \/ isNegative THEN Setting(0, TRUE) ELSE clamped
  BY DEF ParseDiagnosticsInterval
<1>2. v.kind \in {"absent", "other", "number"} OBVIOUS
<1>3. CASE v.kind = "number"
  <2> DEFINE lo == MIN_DIAGNOSTICS_INTERVAL_SEC
             hi == MAX_DIAGNOSTICS_INTERVAL_SEC
             n == Round(v.halves)
  <2>1. lo \in Int /\ hi \in Int /\ lo <= hi
    BY DEF MIN_DIAGNOSTICS_INTERVAL_SEC, MAX_DIAGNOSTICS_INTERVAL_SEC
  <2>2. n \in Int BY RoundType
  <2>3. \/ n < lo /\ clamped = Setting(lo, TRUE)
        \/ n > hi /\ clamped = Setting(hi, TRUE)
        \/ ~(n < lo) /\ ~(n > hi) /\ clamped = Setting(n, FALSE)
    BY <1>3, ClampNumber
  <2>4. isOff => n = 0 BY DEF Round
  <2> HIDE DEF n, lo, hi, clamped
  <2>5. clamped.value \in lo..hi /\ (~clamped.isWarned => clamped.value = n)
    BY <2>1, <2>2, <2>3 DEF Setting
  <2> HIDE DEF isOff, isNegative
  <2> DEFINE s == ParseDiagnosticsInterval(v)
  <2>6. \/ isOff /\ s = Setting(0, FALSE)
        \/ s = Setting(0, TRUE)
        \/ s = clamped
    BY <1>1, <1>3
  <2> HIDE DEF s
  <2>7. s.value \in {0, clamped.value} /\ (~s.isWarned => s.value = n)
    BY <2>4, <2>5, <2>6 DEF Setting
  <2> QED BY <2>5, <2>7 DEF s, n, lo, hi
<1>4. CASE v.kind \in {"absent", "other"}
  <2> HIDE DEF isOff, isNegative, clamped
  <2> QED BY <1>1, <1>4 DEF Setting
<1> QED BY <1>2, <1>3, <1>4
-----------------------------------------------------------------------------
(* The counters.                                                           *)

LEMMA Residues ==
  ASSUME NEW n \in Count
  PROVE  n % CountBase = n /\ (n + CountBase) % CountBase = n
BY DiagnosticsAssumption DEF Count

LEMMA WindowIsSeq ==
  ASSUME NEW s
  PROVE  s \in BoundedSeq(BOOLEAN, OutcomeWindow)
           <=> s \in Seq(BOOLEAN) /\ Len(s) <= OutcomeWindow
<1>1. OutcomeWindow \in Nat BY DiagnosticsAssumption
<1>2. ASSUME s \in BoundedSeq(BOOLEAN, OutcomeWindow)
      PROVE  s \in Seq(BOOLEAN) /\ Len(s) <= OutcomeWindow
  <2>1. PICK m \in 0..OutcomeWindow : s \in [1..m -> BOOLEAN]
    BY <1>2 DEF BoundedSeq, SeqOf
  <2>2. m \in Nat BY <1>1
  <2>3. s \in Seq(BOOLEAN) /\ Len(s) = m BY <2>1, <2>2
  <2> QED BY <1>1, <2>2, <2>3
<1>3. ASSUME s \in Seq(BOOLEAN), Len(s) <= OutcomeWindow
      PROVE  s \in BoundedSeq(BOOLEAN, OutcomeWindow)
  <2>1. Len(s) \in 0..OutcomeWindow /\ s \in [1..Len(s) -> BOOLEAN] BY <1>1, <1>3, LenProperties
  <2> QED BY <2>1 DEF BoundedSeq, SeqOf
<1> QED BY <1>2, <1>3

LEMMA NewDeskKept == DeskKept(NewCollector)
<1>1. 0 \in Count BY DiagnosticsAssumption DEF Count
<1>2. NoCounts \in [Counters -> Count] BY <1>1 DEF NoCounts
<1>3. <<>> \in BoundedSeq(BOOLEAN, OutcomeWindow)
  <2>1. <<>> \in Seq(BOOLEAN) /\ Len(<<>>) = 0 /\ OutcomeWindow \in Nat
    BY DiagnosticsAssumption
  <2>2. Len(<<>>) <= OutcomeWindow BY <2>1
  <2> QED BY <2>1, <2>2, WindowIsSeq
<1>4. NewCollector \in Desk BY <1>2, <1>3 DEF NewCollector, Desk, Healths
<1> QED BY <1>4 DEF DeskKept, NewCollector

LEMMA ApiRequestKeeps ==
  ASSUME NEW desk, DeskKept(desk), NEW isOk \in BOOLEAN
  PROVE  /\ DeskKept(ApiRequest(desk, isOk))
         /\ ApiRequest(desk, isOk).lastHealth = desk.lastHealth
<1> DEFINE all == Append(desk.outcomes, isOk)
           kept == IF Len(all) > OutcomeWindow THEN Tail(all) ELSE all
<1>1. desk \in Desk BY DEF DeskKept
<1>2. desk.outcomes \in Seq(BOOLEAN) /\ Len(desk.outcomes) <= OutcomeWindow
  BY <1>1, WindowIsSeq DEF Desk
<1>3. all \in Seq(BOOLEAN) /\ Len(all) = Len(desk.outcomes) + 1
  <2> DEFINE outcomes == desk.outcomes
  <2>1. outcomes \in Seq(BOOLEAN) BY <1>2
  <2> HIDE DEF outcomes
  <2>2. /\ Append(outcomes, isOk) \in Seq(BOOLEAN)
        /\ Len(Append(outcomes, isOk)) = Len(outcomes) + 1
    BY <2>1, AppendProperties
  <2> QED BY <2>2 DEF outcomes
<1>4. OutcomeWindow \in Nat BY DiagnosticsAssumption
<1> HIDE DEF all
<1>5. kept \in Seq(BOOLEAN) /\ Len(kept) <= OutcomeWindow
  <2>1. Len(desk.outcomes) \in Nat /\ Len(all) \in Nat BY <1>2, <1>3, LenProperties
  <2>2. CASE Len(all) > OutcomeWindow
    <3>1. Len(all) # 0 /\ Len(all) - 1 <= OutcomeWindow BY <1>2, <1>3, <1>4, <2>1, <2>2
    <3>2. all # <<>> BY <3>1
    <3>3. Tail(all) \in Seq(BOOLEAN) /\ Len(Tail(all)) = Len(all) - 1
      BY <1>3, <3>2, HeadTailProperties
    <3> QED BY <2>2, <3>1, <3>3
  <2>3. CASE ~(Len(all) > OutcomeWindow) BY <1>3, <1>4, <2>1, <2>3
  <2> QED BY <2>2, <2>3
<1>6. kept \in BoundedSeq(BOOLEAN, OutcomeWindow) BY <1>5, WindowIsSeq
<1>7. ApiRequest(desk, isOk) = [desk EXCEPT !.outcomes = kept] BY DEF ApiRequest, all
<1> HIDE DEF kept
<1>8. ApiRequest(desk, isOk) \in Desk BY <1>1, <1>6, <1>7 DEF Desk
<1> QED BY <1>1, <1>7, <1>8 DEF DeskKept, Desk

LEMMA PollCycleKeeps ==
  ASSUME NEW desk, DeskKept(desk), NEW isOk \in BOOLEAN
  PROVE  /\ DeskKept(PollCycle(desk, isOk))
         /\ PollCycle(desk, isOk).lastHealth = desk.lastHealth
<1> DEFINE which == IF isOk THEN "pollOk" ELSE "pollFailed"
           counts == [desk.counts EXCEPT ![which] = (@ + 1) % CountBase]
<1>1. desk \in Desk /\ desk.counts \in [Counters -> Count] BY DEF DeskKept, Desk
<1>2. which \in Counters BY DEF Counters
<1>3. (desk.counts[which] + 1) % CountBase \in Count
  <2>1. desk.counts[which] \in Nat BY <1>1, <1>2, DiagnosticsAssumption DEF Count
  <2> QED BY <2>1, DiagnosticsAssumption DEF Count
<1>4. counts \in [Counters -> Count] BY <1>1, <1>2, <1>3
<1>5. PollCycle(desk, isOk) = [desk EXCEPT !.counts = counts] BY <1>1 DEF PollCycle, Desk
<1> HIDE DEF counts
<1>6. PollCycle(desk, isOk) \in Desk BY <1>1, <1>4, <1>5 DEF Desk
<1> QED BY <1>1, <1>5, <1>6 DEF DeskKept, Desk

LEMMA StartKeeps ==
  ASSUME NEW desk, DeskKept(desk), NEW health \in Healths
  PROVE  DeskKept(Start(desk, health)) /\ Start(desk, health).lastHealth = health
BY DEF DeskKept, Desk, Start

\* Counting up to the marker and then from it is counting.
LEMMA CountedThrough ==
  ASSUME NEW counts \in [Counters -> Count], NEW marker \in [Counters -> Count]
  PROVE  Plus(marker, Minus(counts, marker)) = counts
<1>1. ASSUME NEW c \in Counters
      PROVE  (marker[c] + ((counts[c] + CountBase - marker[c]) % CountBase)) % CountBase = counts[c]
  <2> DEFINE m == marker[c]
             n == counts[c]
  <2>1. /\ CountBase \in Nat /\ m \in Nat /\ n \in Nat /\ m < CountBase /\ n < CountBase
        /\ n \in Count
    BY DiagnosticsAssumption DEF Count
  <2> HIDE DEF m, n
  <2>2. CASE n >= m
    <3>1. n - m \in Count /\ n + CountBase - m = (n - m) + CountBase BY <2>1, <2>2 DEF Count
    <3>2. (n + CountBase - m) % CountBase = n - m BY <3>1, Residues
    <3>3. m + (n - m) = n /\ n % CountBase = n BY <2>1, Residues
    <3> QED BY <3>2, <3>3 DEF m, n
  <2>3. CASE n < m
    <3>1. n + CountBase - m \in Count BY <2>1, <2>3 DEF Count
    <3>2. (n + CountBase - m) % CountBase = n + CountBase - m BY <3>1, Residues
    <3>3. m + (n + CountBase - m) = n + CountBase BY <2>1
    <3>4. (n + CountBase) % CountBase = n BY <2>1, Residues
    <3> QED BY <3>2, <3>3, <3>4 DEF m, n
  <2> QED BY <2>1, <2>2, <2>3
<1>2. Plus(marker, Minus(counts, marker))
        = [c \in Counters |-> (marker[c] + ((counts[c] + CountBase - marker[c]) % CountBase))
                                % CountBase]
  BY DEF Plus, Minus
<1> QED BY <1>1, <1>2

LEMMA HeartbeatKeeps ==
  ASSUME NEW desk, DeskKept(desk), desk.lastHealth # "none", NEW health \in Healths
  PROVE  DeskKept(Heartbeat(desk, health)) /\ Heartbeat(desk, health).lastHealth = health
<1>1. /\ desk \in Desk /\ desk.counts \in [Counters -> Count]
      /\ desk.marker \in [Counters -> Count] /\ desk.reported = desk.marker
  BY DEF DeskKept, Desk
<1>2. Plus(desk.reported, Minus(desk.counts, desk.marker)) = desk.counts
  BY <1>1, CountedThrough
<1>3. Heartbeat(desk, health) =
        [desk EXCEPT !.marker = desk.counts, !.lastHealth = health, !.reported = desk.counts,
                     !.told = IF desk.lastHealth \notin {"none", health} THEN health ELSE @]
  BY <1>1, <1>2 DEF Heartbeat, Desk
<1> QED BY <1>1, <1>3 DEF DeskKept, Desk
-----------------------------------------------------------------------------
(* The steps.                                                              *)

LEMMA RollupFound ==
  ASSUME NEW desk, NEW isOpen, NEW isStreamDown
  PROVE  Rollup(desk, isOpen, isStreamDown) \in Healths \ {"none"}
BY DEF Rollup, Healths

LEMMA InitKeeps == Init => LifecycleInv
<1> SUFFICES ASSUME Init PROVE LifecycleInv OBVIOUS
<1>1. PICK raw \in RawConfigs : config = ValidateConfig(raw)
  BY LifecycleAssumption DEF Init
<1>2. config.diagnosticsInterval \in Nat /\ config.useEventStream \in BOOLEAN
  <2>1. raw.diagnosticsInterval \in [kind : {"absent", "other", "number"}, halves : Int]
    BY LifecycleAssumption
  <2>2. ParseDiagnosticsInterval(raw.diagnosticsInterval).value \in Nat
    <3> DEFINE n == ParseDiagnosticsInterval(raw.diagnosticsInterval).value
    <3>1. MIN_DIAGNOSTICS_INTERVAL_SEC \in Nat /\ MAX_DIAGNOSTICS_INTERVAL_SEC \in Nat
      BY DEF MIN_DIAGNOSTICS_INTERVAL_SEC, MAX_DIAGNOSTICS_INTERVAL_SEC
    <3>2. n = 0 \/ n \in MIN_DIAGNOSTICS_INTERVAL_SEC..MAX_DIAGNOSTICS_INTERVAL_SEC
      BY <2>1, DiagnosticsParsed
    <3> HIDE DEF n
    <3>3. n \in Nat BY <3>1, <3>2
    <3> QED BY <3>3 DEF n
  <2>3. config.diagnosticsInterval \in {0, ParseDiagnosticsInterval(raw.diagnosticsInterval).value}
    BY <1>1 DEF ValidateConfig
  <2>4. config.useEventStream \in BOOLEAN BY <1>1 DEF ValidateConfig
  <2> QED BY <2>2, <2>3, <2>4
<1>3. stage \in {"inert", "loaded"} /\ stream = "none" /\ timers = {} /\ ~down
      /\ collector = NewCollector
  BY DEF Init
<1> QED BY <1>2, <1>3, NewDeskKept
        DEF LifecycleInv, Stages, Streams, AllTimers, NothingYet, AlmostReady,
            NothingOutlivesShutdown, ReadyIsWhole

\* Ready adds the heartbeat, and its start line, to what is armed.
LEMMA BecomeReadyKeeps ==
  ASSUME LifecycleInv, NEW desk, DeskKept(desk), NEW armed \in SUBSET AllTimers,
         NEW health \in Healths \ {"none"}, BecomeReady(desk, armed, health),
         UNCHANGED <<config, down>>, stream' \in Streams, "heartbeat" \notin armed,
         down => armed = {} /\ stream' = "none",
         ~down => /\ {"poll", "keep-alive"} \subseteq armed
                  /\ config.useEventStream <=> stream' # "none"
  PROVE  LifecycleInv'
<1>1. config.diagnosticsInterval \in Nat /\ config.useEventStream \in BOOLEAN
  BY DEF LifecycleInv
<1>2. CASE down
  <2>1. stage' = "over" /\ timers' = {} /\ collector' = desk BY <1>2 DEF BecomeReady
  <2> QED BY <1>1, <1>2, <2>1
          DEF LifecycleInv, Stages, AllTimers, NothingYet, AlmostReady,
              NothingOutlivesShutdown, ReadyIsWhole, DeskKept, Desk
<1>3. CASE ~down /\ config.diagnosticsInterval > 0
  <2>1. /\ stage' = "ready" /\ timers' = armed \cup {"heartbeat"}
        /\ collector' = Start(desk, health)
    BY <1>3 DEF BecomeReady, IsEnabled
  <2>2. DeskKept(collector)' /\ collector'.lastHealth # "none"
    <3>1. DeskKept(Start(desk, health)) /\ Start(desk, health).lastHealth = health
      BY StartKeeps
    <3> QED BY <2>1, <3>1 DEF DeskKept, Desk
  <2> QED BY <1>1, <1>3, <2>1, <2>2
          DEF LifecycleInv, Stages, AllTimers, NothingYet, AlmostReady,
              NothingOutlivesShutdown, ReadyIsWhole
<1>4. CASE ~down /\ config.diagnosticsInterval = 0
  <2>1. stage' = "ready" /\ timers' = armed /\ collector' = desk
    BY <1>4 DEF BecomeReady, IsEnabled
  <2> QED BY <1>1, <1>4, <2>1
          DEF LifecycleInv, Stages, AllTimers, NothingYet, AlmostReady,
              NothingOutlivesShutdown, ReadyIsWhole, DeskKept, Desk
<1> QED BY <1>1, <1>2, <1>3, <1>4

\* Where nothing but the diagnostics changes, or is counted.
LEMMA DeskStepKeeps ==
  ASSUME LifecycleInv, DeskKept(collector)',
         collector'.lastHealth = "none" => collector.lastHealth = "none",
         UNCHANGED <<config, stage, down, timers, stream>>
  PROVE  LifecycleInv'
BY DEF LifecycleInv, NothingYet, AlmostReady, NothingOutlivesShutdown, ReadyIsWhole

LEMMA LifecycleInvStep == LifecycleInv /\ [Next]_vars => LifecycleInv'
<1> SUFFICES ASSUME LifecycleInv, [Next]_vars PROVE LifecycleInv' OBVIOUS
<1> USE DEF Stages, Streams, AllTimers
<1>1. /\ config.diagnosticsInterval \in Nat /\ config.useEventStream \in BOOLEAN
      /\ stage \in Stages /\ stream \in Streams /\ timers \subseteq AllTimers
      /\ DeskKept(collector) /\ collector \in Desk
  BY DEF LifecycleInv, DeskKept
<1>2. ASSUME NEW end, NEW isOk \in BOOLEAN
      PROVE  /\ DeskKept(Note(collector, end))
             /\ Note(collector, end).lastHealth = collector.lastHealth
             /\ DeskKept(PollCycle(Note(collector, end), isOk))
             /\ PollCycle(Note(collector, end), isOk).lastHealth = collector.lastHealth
  <2>1. DeskKept(Note(collector, end)) /\ Note(collector, end).lastHealth = collector.lastHealth
    BY <1>1, ApiRequestKeeps DEF Note
  <2> QED BY <2>1, PollCycleKeeps
<1>3. CASE Launch
  <2>1. stage = "loaded" /\ stage' \in {"over", "discovering"}
        /\ UNCHANGED <<config, down, timers, stream, collector>>
    BY <1>3 DEF Launch
  <2> QED BY <2>1
          DEF LifecycleInv, NothingYet, AlmostReady, NothingOutlivesShutdown, ReadyIsWhole,
              DeskKept, Desk
<1>4. CASE DiscoverySucceeds
  <2>1. stage = "discovering" /\ ~down /\ UNCHANGED <<config, down>>
    BY <1>4 DEF DiscoverySucceeds
  <2> PICK end \in Ends :
         LET noted == Note(collector, end)
             armed == timers \cup {"poll", "keep-alive"}
         IN  IF config.useEventStream
             THEN /\ stage' = "opening" /\ stream' = "connecting"
                  /\ timers' = armed /\ collector' = noted
             ELSE /\ BecomeReady(noted, armed, Rollup(noted, FALSE, FALSE))
                  /\ UNCHANGED stream
    BY <1>4 DEF DiscoverySucceeds
  <2> DEFINE noted == Note(collector, end)
             armed == timers \cup {"poll", "keep-alive"}
  <2>2. DeskKept(noted) /\ noted.lastHealth = collector.lastHealth BY <1>2
  <2>3. stream = "none" /\ timers \subseteq {"retry"} BY <2>1 DEF LifecycleInv, NothingYet
  <2> HIDE DEF noted
  <2>4. CASE config.useEventStream
    <3>1. /\ stage' = "opening" /\ stream' = "connecting"
          /\ timers' = armed /\ collector' = noted
      BY <2>4 DEF noted
    <3>2. DeskKept(collector)' BY <2>2, <3>1 DEF DeskKept, Desk
    <3> QED BY <1>1, <2>1, <2>3, <2>4, <3>1, <3>2
            DEF LifecycleInv, NothingYet, AlmostReady, NothingOutlivesShutdown, ReadyIsWhole
  <2>5. CASE ~config.useEventStream
    <3>1. BecomeReady(noted, armed, Rollup(noted, FALSE, FALSE)) /\ stream' = "none"
      BY <2>3, <2>5 DEF noted
    <3>2. Rollup(noted, FALSE, FALSE) \in Healths \ {"none"} BY RollupFound
    <3>3. armed \in SUBSET AllTimers /\ "heartbeat" \notin armed
          /\ {"poll", "keep-alive"} \subseteq armed
      BY <2>3
    <3> HIDE DEF armed
    <3> QED BY <2>1, <2>2, <2>5, <3>1, <3>2, <3>3, BecomeReadyKeeps
  <2> QED BY <1>1, <2>4, <2>5
<1>5. CASE DiscoveryFails
  <2>1. /\ stage = "discovering" /\ ~down /\ UNCHANGED <<config, down, stream>>
        /\ \E end \in Ends : collector' = Note(collector, end)
        /\ \/ stage' = "sleeping" /\ timers' = timers \cup {"retry"}
           \/ stage' = "failed" /\ timers' = timers
    BY <1>5 DEF DiscoveryFails
  <2>2. DeskKept(collector)' /\ collector'.lastHealth = collector.lastHealth
    BY <1>2, <2>1 DEF DeskKept, Desk
  <2> QED BY <1>1, <2>1, <2>2
          DEF LifecycleInv, NothingYet, AlmostReady, NothingOutlivesShutdown, ReadyIsWhole
<1>6. CASE DiscoveryCancelled
  <2>1. /\ down /\ stage' = "over" /\ UNCHANGED <<config, down, timers, stream>>
        /\ \E end \in Cancellations : collector' = Note(collector, end)
    BY <1>6 DEF DiscoveryCancelled
  <2>2. DeskKept(collector)' /\ collector'.lastHealth = collector.lastHealth
    BY <1>2, <2>1 DEF DeskKept, Desk
  <2> QED BY <1>1, <2>1, <2>2
          DEF LifecycleInv, NothingYet, AlmostReady, NothingOutlivesShutdown, ReadyIsWhole
<1>7. CASE RetryTimer
  <2>1. /\ stage = "sleeping" /\ stage' = "discovering" /\ timers' = timers \ {"retry"}
        /\ UNCHANGED <<config, down, stream, collector>>
    BY <1>7 DEF RetryTimer
  <2> QED BY <1>1, <2>1
          DEF LifecycleInv, NothingYet, AlmostReady, NothingOutlivesShutdown, ReadyIsWhole,
              DeskKept, Desk
<1>8. CASE StreamSettles
  <2>1. /\ stage = "opening" /\ UNCHANGED <<config, down>>
        /\ BecomeReady(collector, timers, Rollup(collector, breaker, FALSE))
        /\ stream' \in Streams /\ (down <=> stream' = "none")
    BY <1>8 DEF StreamSettles
  <2>2. /\ down => timers = {}
        /\ "heartbeat" \notin timers
        /\ ~down => {"poll", "keep-alive"} \subseteq timers /\ config.useEventStream
    BY <2>1 DEF LifecycleInv, AlmostReady, NothingOutlivesShutdown
  <2>3. Rollup(collector, breaker, FALSE) \in Healths \ {"none"} BY RollupFound
  <2> QED BY <1>1, <2>1, <2>2, <2>3, BecomeReadyKeeps
<1>9. CASE StreamDrops \/ StreamRecovers
  <2>1. /\ stage = "ready" /\ ~down /\ stream # "none" /\ stream' \in {"up", "down", "long down"}
        /\ UNCHANGED <<config, stage, down, timers, collector>>
    BY <1>9 DEF StreamDrops, StreamRecovers
  <2> QED BY <1>1, <2>1
          DEF LifecycleInv, NothingYet, AlmostReady, NothingOutlivesShutdown, ReadyIsWhole,
              DeskKept, Desk
<1>10. CASE BreakerResets \/ PollTimer \/ SessionEnds \/ FloorPasses \/ ServiceChanges
              \/ UNCHANGED vars
  <2>1. UNCHANGED <<config, stage, down, timers, stream, collector>>
    BY <1>10 DEF BreakerResets, PollTimer, SessionEnds, FloorPasses, ServiceChanges, vars
  <2> QED BY <1>1, <2>1, DeskStepKeeps DEF DeskKept, Desk
<1>11. CASE PollSucceeds \/ PollFails \/ Lapses
  <2>1. DeskKept(collector)' /\ collector'.lastHealth = collector.lastHealth
    <3>1. CASE PollSucceeds \/ PollFails
      <4>1. PICK end \in Ends \cup Cancellations, isOk \in BOOLEAN :
              collector' = PollCycle(Note(collector, end), isOk)
        BY <3>1 DEF PollSucceeds, PollFails
      <4> QED BY <1>2, <4>1 DEF DeskKept, Desk
    <3>2. CASE Lapses
      <4>1. collector' = ApiRequest(collector, FALSE) BY <3>2 DEF Lapses
      <4> QED BY <1>1, <4>1, ApiRequestKeeps DEF DeskKept, Desk
    <3> QED BY <1>11, <3>1, <3>2
  <2>2. UNCHANGED <<config, stage, down, timers, stream>>
    BY <1>11 DEF PollSucceeds, PollFails, Lapses
  <2> QED BY <2>1, <2>2, DeskStepKeeps
<1>12. CASE HeartbeatTimer
  <2>1. /\ collector' = Heartbeat(collector, Health) /\ collector.lastHealth # "none"
        /\ UNCHANGED <<config, stage, down, timers, stream>>
    BY <1>12 DEF HeartbeatTimer, LifecycleInv
  <2>2. Health \in Healths \ {"none"} BY RollupFound DEF Health
  <2>3. /\ DeskKept(Heartbeat(collector, Health))
        /\ Heartbeat(collector, Health).lastHealth = Health
    BY <1>1, <2>1, <2>2, HeartbeatKeeps
  <2>4. DeskKept(collector)' /\ collector'.lastHealth # "none"
    BY <2>1, <2>2, <2>3 DEF DeskKept, Desk
  <2> QED BY <2>1, <2>4, DeskStepKeeps
<1>13. CASE Shutdown
  <2>1. /\ down' /\ timers' = {} /\ stream' = "none" /\ stage' \in {stage, "over"}
        /\ UNCHANGED <<config, collector>>
    BY <1>13 DEF Shutdown
  <2> QED BY <1>1, <2>1
          DEF LifecycleInv, NothingYet, AlmostReady, NothingOutlivesShutdown, ReadyIsWhole,
              DeskKept, Desk
<1> QED BY <1>3, <1>4, <1>5, <1>6, <1>7, <1>8, <1>9, <1>10, <1>11, <1>12, <1>13 DEF Next

LEMMA LifecycleInvHolds == Spec => []LifecycleInv
BY InitKeeps, LifecycleInvStep, PTL DEF Spec

\* What a read leaves; only a rejection leaves a session rejected.
LEMMA EndsLeave ==
  ASSUME session \in Sessions
  PROVE  /\ \A end \in Ends : /\ end.left \in Sessions
                              /\ end.left = "rejected" => end.error \in AuthenticationErrors
         /\ \A end \in Cancellations : end.left \in Sessions
<1>1. ASSUME NEW end \in Ends
      PROVE  /\ end.left \in Sessions
             /\ end.left = "rejected" => end.error \in AuthenticationErrors
  <2>1. \/ \E e \in SignInFailures : end = End(e, "nothing", LeftBy(e))
        \/ end.left = "held"
    BY DEF Ends, End
  <2>2. ASSUME NEW e \in SignInFailures, end = End(e, "nothing", LeftBy(e))
        PROVE  /\ end.left \in Sessions
               /\ end.left = "rejected" => end.error \in AuthenticationErrors
    <3>1. end.left = LeftBy(e) /\ end.error = e BY <2>2 DEF End
    <3> QED BY <3>1 DEF LeftBy, Sessions
  <2> QED BY <2>1, <2>2 DEF Sessions
<1>2. ASSUME NEW end \in Cancellations PROVE end.left \in Sessions
  BY DEF Cancellations, End, Sessions
<1> QED BY <1>1, <1>2

LEMMA SessionInvStep == LifecycleInv /\ SessionInv /\ [Next]_vars => SessionInv'
<1> SUFFICES ASSUME LifecycleInv, SessionInv, [Next]_vars PROVE SessionInv' OBVIOUS
<1> DEFINE early == {"inert", "loaded", "discovering", "sleeping"}
<1>1. session \in Sessions /\ breaker \in BOOLEAN BY DEF SessionInv
<1>2. ASSUME NEW end \in Ends \cup Cancellations, Settled(end)
      PROVE  session' = end.left /\ session' \in Sessions /\ breaker' \in BOOLEAN
  <2>1. session' = end.left BY <1>2 DEF Settled
  <2>2. breaker' \in BOOLEAN BY <1>1, <1>2 DEF Settled
  <2> QED BY <1>1, <2>1, <2>2, EndsLeave
<1>3. CASE DiscoverySucceeds
  <2>1. PICK end \in Ends : Settled(end) BY <1>3 DEF DiscoverySucceeds
  <2>2. stage' \notin early BY <1>3 DEF DiscoverySucceeds, BecomeReady
  <2> QED BY <1>2, <2>1, <2>2 DEF SessionInv
<1>4. CASE DiscoveryFails
  <2>1. PICK end \in Ends :
          /\ Settled(end)
          /\ stage' = IF RetriesDiscovery(end.error) THEN "sleeping" ELSE "failed"
    BY <1>4 DEF DiscoveryFails
  <2>2. ~cycle /\ cycle' = cycle BY <1>4 DEF DiscoveryFails, SessionInv
  <2>3. session' = "rejected" => stage' = "failed"
    BY <1>1, <1>2, <2>1, EndsLeave DEF RetriesDiscovery, IsPermanent
  <2> QED BY <1>2, <2>1, <2>2, <2>3 DEF SessionInv
<1>5. CASE DiscoveryCancelled
  <2>1. PICK end \in Cancellations : Settled(end) BY <1>5 DEF DiscoveryCancelled
  <2>2. stage' = "over" BY <1>5 DEF DiscoveryCancelled
  <2> QED BY <1>2, <2>1, <2>2 DEF SessionInv
<1>6. CASE PollSucceeds \/ PollFails
  <2>1. PICK end \in Ends \cup Cancellations : Settled(end)
    BY <1>6 DEF PollSucceeds, PollFails
  <2>2. cycle /\ stage' = stage BY <1>6 DEF PollSucceeds, PollFails
  <2> QED BY <1>2, <2>1, <2>2 DEF SessionInv
<1>7. CASE Lapses \/ SessionEnds \/ FloorPasses
  <2>1. /\ session' \in {"none", "throttled"} /\ breaker' \in BOOLEAN
        /\ UNCHANGED <<stage, cycle>>
    BY <1>1, <1>7 DEF Lapses, SessionEnds, FloorPasses
  <2> QED BY <2>1 DEF SessionInv, Sessions
<1>8. CASE PollTimer
  <2>1. stage \notin early BY <1>8 DEF PollTimer, LifecycleInv, NothingYet
  <2>2. UNCHANGED <<stage, session, breaker>> BY <1>8 DEF PollTimer
  <2> QED BY <1>1, <2>1, <2>2 DEF SessionInv
<1>9. CASE Launch \/ RetryTimer \/ BreakerResets \/ StreamSettles \/ StreamDrops \/ StreamRecovers
             \/ HeartbeatTimer \/ Shutdown \/ ServiceChanges \/ UNCHANGED vars
  <2>1. UNCHANGED <<session, cycle>> /\ breaker' \in BOOLEAN
    BY <1>1, <1>9 DEF Launch, RetryTimer, BreakerResets, StreamSettles, StreamDrops,
                      StreamRecovers, HeartbeatTimer, Shutdown, ServiceChanges, vars
  <2>2. stage' \in early => stage \in early
    BY <1>9 DEF Launch, RetryTimer, BreakerResets, StreamSettles, BecomeReady, StreamDrops,
                StreamRecovers, HeartbeatTimer, Shutdown, ServiceChanges, vars
  <2> QED BY <1>1, <2>1, <2>2 DEF SessionInv
<1> QED BY <1>3, <1>4, <1>5, <1>6, <1>7, <1>8, <1>9 DEF Next

LEMMA SessionInvHolds == Spec => []SessionInv
<1>1. Init => SessionInv BY DEF Init, SessionInv, Sessions
<1> QED BY <1>1, SessionInvStep, LifecycleInvHolds, PTL DEF Spec

\* Whenever it is shut down, and whatever is configured: nothing outlives the shutdown,
\* Ready is whole, and the heartbeats count everything once and announce what they find.
THEOREM LifeIsSound == Spec => []LifecycleSound
<1>1. LifecycleInv /\ SessionInv => LifecycleSound
  <2> SUFFICES ASSUME LifecycleInv, SessionInv PROVE LifecycleSound OBVIOUS
  <2>1. DeskKept(collector) /\ collector \in Desk BY DEF LifecycleInv, DeskKept
  <2>2. LifecycleTypeOK BY <2>1 DEF LifecycleInv, SessionInv, LifecycleTypeOK, Desk
  <2>3. NothingOutlivesShutdown /\ ReadyIsWhole BY DEF LifecycleInv
  <2>4. ToldHealth /\ EachCountedOnce BY <2>1 DEF DeskKept, ToldHealth, EachCountedOnce
  <2> QED BY <2>2, <2>3, <2>4 DEF LifecycleSound
<1> QED BY <1>1, LifecycleInvHolds, SessionInvHolds, PTL
-----------------------------------------------------------------------------
(* Giving up.                                                              *)

\* What an outage that shows as one ends a read in, startup tries again after; so too the
\* login floor and the open breaker it leaves.
LEMMA OutageIsRetried ==
  ASSUME session # "rejected", service \in {"well", "unwell"}, NEW end \in Ends,
         end.noted # "success"
  PROVE  RetriesDiscovery(end.error)
<1> DEFINE Again == {"NETWORK_ERROR", "FORBIDDEN_ERROR", "RATE_LIMIT_ERROR", "API_RESPONSE_5XX",
                     "CIRCUIT_OPEN", "LOGIN_THROTTLED"}
<1>1. \A f \in Again : RetriesDiscovery(f)
  BY DEF RetriesDiscovery, ErrorCodes, IsPermanent, AuthenticationErrors
<1>2. ASSUME NEW s \in UnwellStatuses, NEW marker \in BOOLEAN
      PROVE  CreateApiError(s, marker) \in Again
  <2>1. CASE s = 403 BY <2>1 DEF CreateApiError
  <2>2. CASE s = 429 BY <2>2 DEF CreateApiError
  <2>3. CASE s = 503 BY <2>3 DEF CreateApiError
  <2> QED BY <2>1, <2>2, <2>3 DEF UnwellStatuses
<1>3. ASSUME NEW s \in UnwellStatuses
      PROVE  LoginVerdict(s) \in Again /\ ~IsOk(s)
  <2>1. s = 403 \/ s = 429 \/ s = 503 BY DEF UnwellStatuses
  <2>2. ~(s = 409) /\ ~(s = 200) /\ ~(s \in 300..399) /\ ~(s \in 200..299) BY <2>1
  <2>3. LoginVerdict(s) = CreateApiError(s, FALSE) BY <2>2 DEF LoginVerdict
  <2> QED BY <1>2, <2>2, <2>3 DEF IsOk
<1>4. ASSUME NEW x \in Exchanges, NEW e, e = Authenticate(x[1], x[2])
      PROVE  e \in Again
  <2>1. e = Authenticate(x[1], x[2]) BY <1>4
  <2>2. service = "unwell" BY DEF Exchanges
  <2>3. \/ x = <<Lost, Lost>> \/ x = <<GoodPage, Lost>>
        \/ \E s \in UnwellStatuses :
             x = <<Page(s, FALSE, FALSE), Lost>> \/ x = <<GoodPage, Posted(s, <<>>)>>
    BY <2>2 DEF Exchanges
  <2>4. CASE x = <<Lost, Lost>>
    <3>1. e = "NETWORK_ERROR" BY <2>1, <2>4 DEF Authenticate, Lost, Failed
    <3> QED BY <3>1
  <2>5. CASE x = <<GoodPage, Lost>>
    <3>1. /\ GoodPage.error = "none" /\ GoodPage.status = 200 /\ GoodPage.form = TRUE
          /\ Lost.error = "NETWORK_ERROR" /\ IsOk(GoodPage.status)
      BY DEF GoodPage, Page, Failed, Lost, IsOk
    <3>2. e = "NETWORK_ERROR" BY <2>1, <2>5, <3>1 DEF Authenticate
    <3> QED BY <3>2
  <2>6. ASSUME NEW s \in UnwellStatuses, x = <<Page(s, FALSE, FALSE), Lost>>
        PROVE  e \in Again
    <3> DEFINE page == Page(s, FALSE, FALSE)
    <3>1. page.error = "none" /\ page.status = s /\ page.marker = FALSE
      BY DEF Page, Failed
    <3> HIDE DEF page
    <3>2. e = Authenticate(page, Lost) BY <2>1, <2>6 DEF page
    <3>3. e = CreateApiError(s, FALSE) BY <1>3, <3>1, <3>2 DEF Authenticate
    <3> QED BY <1>2, <3>3
  <2>7. ASSUME NEW s \in UnwellStatuses, x = <<GoodPage, Posted(s, <<>>)>>
        PROVE  e \in Again
    <3> DEFINE post == Posted(s, <<>>)
    <3>1. /\ GoodPage.error = "none" /\ GoodPage.form = TRUE /\ IsOk(GoodPage.status)
          /\ post.error = "none" /\ post.status = s
      BY DEF GoodPage, Page, Posted, Failed, IsOk
    <3> HIDE DEF post
    <3>2. e = Authenticate(GoodPage, post) BY <2>1, <2>7 DEF post
    <3>3. LoginVerdict(s) # "none" BY <1>3
    <3>4. e = LoginVerdict(s) BY <3>1, <3>2, <3>3 DEF Authenticate
    <3> QED BY <1>3, <3>4
  <2> QED BY <2>3, <2>4, <2>5, <2>6, <2>7
<1>5. ASSUME NEW e \in SignInFailures PROVE e \in Again
  <2>1. \/ e = "LOGIN_THROTTLED"
        \/ \E x \in Exchanges : e = Authenticate(x[1], x[2])
    BY DEF SignInFailures
  <2> QED BY <1>4, <2>1
<1>6. ASSUME NEW e \in Refusals PROVE e \in Again
  <2>1. service = "unwell" BY DEF Refusals
  <2>2. \/ e = Lost.error
        \/ \E s \in UnwellStatuses : e = CreateApiError(s, FALSE)
    BY <2>1 DEF Refusals
  <2>3. Lost.error = "NETWORK_ERROR" BY DEF Lost, Failed
  <2> QED BY <1>2, <2>2, <2>3
<1>7. end.error \in Again
  <2>1. \/ \E e \in SignInFailures : end = End(e, "nothing", LeftBy(e))
        \/ \E e \in Refusals \cup {"CIRCUIT_OPEN"} : end = End(e, "failure", "held")
        \/ end.noted = "success"
    BY DEF Ends, End
  <2> QED BY <1>5, <1>6, <2>1 DEF End
<1> QED BY <1>1, <1>7

\* However long an outage lasts and whatever it interrupts, startup does not give up over
\* it, nor over what it leaves behind.
THEOREM OutagesAreWaitedOut == Spec => OutageIsWaitedOut
<1>1. LifecycleInv /\ SessionInv /\ service \in Services /\ [Next]_vars
        => [ stage # "failed" /\ stage' = "failed"
               => \/ service \in {"refusing", "garbled"}
                  \/ service = "well" /\ collector' = ApiRequest(collector, TRUE) ]_vars
  <2> DEFINE Fair == \/ service \in {"refusing", "garbled"}
                     \/ service = "well" /\ collector' = ApiRequest(collector, TRUE)
  <2> SUFFICES ASSUME LifecycleInv, SessionInv, service \in Services, [Next]_vars,
                      stage # "failed", stage' = "failed"
               PROVE  Fair
    OBVIOUS
  <2>1. CASE DiscoveryFails
    <3>1. PICK end \in Ends :
            ~RetriesDiscovery(end.error) /\ collector' = Note(collector, end)
      BY <2>1 DEF DiscoveryFails
    <3>2. session # "rejected" BY <2>1 DEF DiscoveryFails, SessionInv
    <3>3. CASE service \in {"well", "unwell"}
      <4>1. end.noted = "success" BY <3>1, <3>2, <3>3, OutageIsRetried
      <4>2. service = "well" BY <4>1 DEF Ends, End
      <4>3. Note(collector, end) = ApiRequest(collector, TRUE) BY <4>1 DEF Note
      <4> QED BY <3>1, <4>2, <4>3
    <3> QED BY <3>3 DEF Services
  <2>2. ~DiscoveryFails => FALSE
    BY DEF Next, vars, Launch, DiscoverySucceeds, DiscoveryCancelled, RetryTimer, StreamSettles,
           StreamDrops, StreamRecovers, BreakerResets, PollTimer, PollSucceeds, PollFails, Lapses,
           SessionEnds, FloorPasses, HeartbeatTimer, Shutdown, ServiceChanges, BecomeReady
  <2> QED BY <2>1, <2>2
<1>2. Init => service \in Services BY DEF Init
<1>3. service \in Services /\ [Next]_vars => (service \in Services)'
  BY DEF Next, vars, Launch, DiscoverySucceeds, DiscoveryFails, DiscoveryCancelled, RetryTimer,
         StreamSettles, StreamDrops, StreamRecovers, BreakerResets, PollTimer, PollSucceeds,
         PollFails, Lapses, SessionEnds, FloorPasses, HeartbeatTimer, Shutdown, ServiceChanges
<1> QED BY <1>1, <1>2, <1>3, LifecycleInvHolds, SessionInvHolds, PTL DEF Spec, OutageIsWaitedOut
-----------------------------------------------------------------------------
(* What the pure functions compute.                                        *)

\* Every setting in effect is in its range, whatever was configured.
LEMMA SettingsStayInRange == SettingsInRange
<1> SUFFICES ASSUME NEW raw \in RawConfigs, ValidateConfig(raw).isUsable
             PROVE  LET c == ValidateConfig(raw)
                    IN  /\ c.pollIntervalSeconds \in MIN_POLL_INTERVAL_SEC..MAX_POLL_INTERVAL_SEC
                        /\ c.authIntervalMinutes \in MIN_AUTH_INTERVAL_MIN..MAX_AUTH_INTERVAL_MIN
                        /\ c.diagnosticsInterval = 0
                             \/ c.diagnosticsInterval
                                  \in MIN_DIAGNOSTICS_INTERVAL_SEC..MAX_DIAGNOSTICS_INTERVAL_SEC
                        /\ IsTaken(raw.pollIntervalSeconds, c.pollIntervalSeconds, "poll", c.warnings)
                        /\ IsTaken(raw.authIntervalMinutes, c.authIntervalMinutes, "auth", c.warnings)
                        /\ IsTaken(raw.diagnosticsInterval, c.diagnosticsInterval, "diagnostics",
                                   c.warnings)
  BY DEF SettingsInRange
<1> DEFINE Raw == [kind : {"absent", "other", "number"}, halves : Int]
           poll == ClampToRange(raw.pollIntervalSeconds, MIN_POLL_INTERVAL_SEC,
                                MIN_POLL_INTERVAL_SEC, MAX_POLL_INTERVAL_SEC)
           auth == ClampToRange(raw.authIntervalMinutes, MIN_AUTH_INTERVAL_MIN,
                                MIN_AUTH_INTERVAL_MIN, MAX_AUTH_INTERVAL_MIN)
           diagnostics == ParseDiagnosticsInterval(raw.diagnosticsInterval)
           c == ValidateConfig(raw)
<1>1. /\ raw.pollIntervalSeconds \in Raw /\ raw.authIntervalMinutes \in Raw
      /\ raw.diagnosticsInterval \in Raw
  BY LifecycleAssumption
<1>2. /\ c.pollIntervalSeconds = poll.value /\ c.authIntervalMinutes = auth.value
      /\ c.diagnosticsInterval = diagnostics.value
      /\ poll.isWarned => "poll" \in c.warnings
      /\ auth.isWarned => "auth" \in c.warnings
      /\ diagnostics.isWarned => "diagnostics" \in c.warnings
  BY DEF ValidateConfig
<1>3. /\ MIN_POLL_INTERVAL_SEC \in Int /\ MAX_POLL_INTERVAL_SEC \in Int
      /\ MIN_POLL_INTERVAL_SEC <= MAX_POLL_INTERVAL_SEC
      /\ MIN_AUTH_INTERVAL_MIN \in Int /\ MAX_AUTH_INTERVAL_MIN \in Int
      /\ MIN_AUTH_INTERVAL_MIN <= MAX_AUTH_INTERVAL_MIN
  BY DEF MIN_POLL_INTERVAL_SEC, MAX_POLL_INTERVAL_SEC, MIN_AUTH_INTERVAL_MIN,
         MAX_AUTH_INTERVAL_MIN
<1>4. /\ MIN_POLL_INTERVAL_SEC \in MIN_POLL_INTERVAL_SEC..MAX_POLL_INTERVAL_SEC
      /\ MIN_AUTH_INTERVAL_MIN \in MIN_AUTH_INTERVAL_MIN..MAX_AUTH_INTERVAL_MIN
  BY <1>3
<1>5. /\ poll.value \in MIN_POLL_INTERVAL_SEC..MAX_POLL_INTERVAL_SEC
      /\ raw.pollIntervalSeconds.kind = "number" /\ ~poll.isWarned
           => poll.value = Round(raw.pollIntervalSeconds.halves)
  BY <1>1, <1>3, <1>4, Clamped
<1>6. /\ auth.value \in MIN_AUTH_INTERVAL_MIN..MAX_AUTH_INTERVAL_MIN
      /\ raw.authIntervalMinutes.kind = "number" /\ ~auth.isWarned
           => auth.value = Round(raw.authIntervalMinutes.halves)
  BY <1>1, <1>3, <1>4, Clamped
<1>7. /\ diagnostics.value = 0
           \/ diagnostics.value \in MIN_DIAGNOSTICS_INTERVAL_SEC..MAX_DIAGNOSTICS_INTERVAL_SEC
      /\ raw.diagnosticsInterval.kind = "number" /\ ~diagnostics.isWarned
           => diagnostics.value = Round(raw.diagnosticsInterval.halves)
  BY <1>1, DiagnosticsParsed
<1> HIDE DEF poll, auth, diagnostics, c
<1> QED BY <1>2, <1>5, <1>6, <1>7 DEF c, IsTaken

\* The samples a sort puts no later than the i-th.
UpTo(samples, i) ==
  {j \in DOMAIN samples : samples[j] < samples[i] \/ (samples[j] = samples[i] /\ j <= i)}

LEMMA UpToFinite ==
  ASSUME NEW s \in Seq(Int), NEW i \in DOMAIN s
  PROVE  /\ IsFiniteSet(DOMAIN s) /\ Cardinality(DOMAIN s) = Len(s)
         /\ UpTo(s, i) \in SUBSET DOMAIN s /\ i \in UpTo(s, i)
         /\ IsFiniteSet(UpTo(s, i)) /\ Place(s, i) = Cardinality(UpTo(s, i))
         /\ Place(s, i) \in DOMAIN s
<1>1. DOMAIN s = 1..Len(s) /\ Len(s) \in Nat
  OBVIOUS
<1> DEFINE n == Len(s)
<1>2. IsFiniteSet(DOMAIN s) /\ Cardinality(DOMAIN s) = n
  <2> HIDE DEF n
  <2>1. n \in Nat /\ n \in Int /\ 1 \in Int /\ DOMAIN s = 1..n
    BY <1>1 DEF n
  <2>2. IsFiniteSet(1..n) /\ Cardinality(1..n) = IF 1 > n THEN 0 ELSE n - 1 + 1
    BY <2>1, FS_Interval
  <2> QED
    BY <2>1, <2>2
<1>3. UpTo(s, i) \in SUBSET DOMAIN s /\ i \in UpTo(s, i)
  BY <1>1 DEF UpTo
<1>4. IsFiniteSet(UpTo(s, i)) /\ Cardinality(UpTo(s, i)) <= Len(s)
  BY <1>2, <1>3, FS_Subset
<1>5. Cardinality(UpTo(s, i)) \in Nat /\ Cardinality(UpTo(s, i)) # 0
  BY <1>3, <1>4, FS_CardinalityType, FS_EmptySet
<1>6. Place(s, i) = Cardinality(UpTo(s, i))
  BY DEF Place, UpTo
<1> QED
  BY <1>1, <1>2, <1>3, <1>4, <1>5, <1>6

\* No two samples have the same place.
LEMMA PlacesDiffer ==
  ASSUME NEW s \in Seq(Int), NEW i \in DOMAIN s, NEW j \in DOMAIN s,
         Place(s, i) = Place(s, j)
  PROVE  i = j
<1>1. \A k \in DOMAIN s : s[k] \in Int /\ k \in Int
  OBVIOUS
<1>2. UpTo(s, i) \in SUBSET UpTo(s, j) \/ UpTo(s, j) \in SUBSET UpTo(s, i)
  BY <1>1 DEF UpTo
<1>3. UpTo(s, i) = UpTo(s, j)
  BY <1>2, UpToFinite, FS_Subset
<1>4. i \in UpTo(s, j) /\ j \in UpTo(s, i)
  BY <1>3, UpToFinite
<1> QED
  BY <1>1, <1>4 DEF UpTo

LEMMA EveryPlaceTaken ==
  ASSUME NEW s \in Seq(Int), NEW k \in DOMAIN s
  PROVE  \E i \in DOMAIN s : Place(s, i) = k
<1> DEFINE place == [i \in DOMAIN s |-> Place(s, i)]
<1>1. place \in [DOMAIN s -> DOMAIN s]
  BY UpToFinite
<1>2. place \in Injection(DOMAIN s, DOMAIN s)
  BY <1>1, PlacesDiffer DEF Injection, IsInjective
<1>3. place \in Surjection(DOMAIN s, DOMAIN s)
  <2>1. IsFiniteSet(DOMAIN s)
    BY UpToFinite
  <2> QED BY <1>2, <2>1, FS_Injection
<1> QED
  BY <1>3 DEF Surjection

LEMMA NearestRank ==
  ASSUME NEW n \in Nat, n # 0, NEW rank \in 1..100
  PROVE  LET position == (rank * n + 99) \div 100
         IN  /\ position \in 1..n
             /\ 100 * position >= rank * n /\ 100 * (position - 1) < rank * n
<1> DEFINE x == rank * n
           position == (x + 99) \div 100
<1>1. x \in Int /\ x >= 1 /\ x <= 100 * n
  OBVIOUS
<1> HIDE DEF x
<1>2. position \in Int /\ 100 * position <= x + 99 /\ x + 99 < 100 * position + 100
  BY <1>1
<1> HIDE DEF position
<1>3. position \in 1..n /\ 100 * position >= x /\ 100 * (position - 1) < x
  BY <1>1, <1>2
<1> QED
  BY <1>3 DEF position, x

LEMMA MinMax ==
  ASSUME NEW n \in Int, NEW k \in 1..n
  PROVE  Min({n, Max({1, k})}) = k
<1>1. Max({1, k}) = k
  BY DEF Max
<1> QED
  BY <1>1 DEF Min

\* The percentile of rank of any samples is a sample that rank percent of them do not
\* exceed, and the least of those, however many are equal.
THEOREM PercentileIsRanked ==
  ASSUME NEW s \in Seq(Int), s # <<>>, NEW rank \in 1..100
  PROVE  LET p == Percentile(s, rank)
         IN  /\ 100 * Cardinality({i \in DOMAIN s : s[i] <= p}) >= rank * Len(s)
             /\ 100 * Cardinality({i \in DOMAIN s : s[i] < p}) < rank * Len(s)
<1> DEFINE n == Len(s)
           position == (rank * n + 99) \div 100
           i == CHOOSE j \in DOMAIN s : Place(s, j) = position
           AtMost == {j \in DOMAIN s : s[j] <= s[i]}
           Below == {j \in DOMAIN s : s[j] < s[i]}
           budget == rank * n
<1>1. n \in Nat /\ n # 0 /\ DOMAIN s = 1..n /\ budget \in Int
  OBVIOUS
<1>2. position \in 1..n /\ 100 * position >= budget /\ 100 * (position - 1) < budget
  <2> HIDE DEF n
  <2> QED BY <1>1, NearestRank
<1>3. i \in DOMAIN s /\ Place(s, i) = position
  <2> HIDE DEF position, n
  <2> QED BY <1>1, <1>2, EveryPlaceTaken
<1>4. Percentile(s, rank) = s[i]
  <2>1. Len(Sorted(s)) = n
    BY <1>1 DEF Sorted
  <2>2. Percentile(s, rank) = Sorted(s)[Min({n, Max({1, position})})]
    BY <2>1 DEF Percentile
  <2> HIDE DEF n, position, i
  <2>3. Min({n, Max({1, position})}) = position
    <3>1. n \in Int /\ position \in 1..n
      BY <1>1, <1>2
    <3> QED
      BY <3>1, MinMax
  <2>4. Sorted(s)[position] = s[i]
    BY <1>1, <1>2 DEF Sorted, i
  <2> QED
    BY <2>2, <2>3, <2>4
<1> HIDE DEF i, position, n, budget
<1>5. \A j \in DOMAIN s : s[j] \in Int
  OBVIOUS
<1>6. UpTo(s, i) \in SUBSET AtMost /\ AtMost \in SUBSET DOMAIN s
      /\ Below \in SUBSET (UpTo(s, i) \ {i})
  BY <1>3, <1>5 DEF UpTo
<1> HIDE DEF AtMost, Below
<1>7. /\ IsFiniteSet(DOMAIN s) /\ IsFiniteSet(UpTo(s, i))
      /\ i \in UpTo(s, i) /\ Cardinality(UpTo(s, i)) = position
  BY <1>3, UpToFinite
<1>8. Cardinality(AtMost) \in Nat /\ Cardinality(AtMost) >= position
  <2>1. IsFiniteSet(AtMost)
    BY <1>6, <1>7, FS_Subset
  <2>2. Cardinality(AtMost) \in Nat
    BY <2>1, FS_CardinalityType
  <2> QED
    BY <1>6, <1>7, <2>1, <2>2, FS_Subset
<1>9. Cardinality(Below) \in Nat /\ Cardinality(Below) <= position - 1
  <2>1. IsFiniteSet(UpTo(s, i) \ {i}) /\ Cardinality(UpTo(s, i) \ {i}) = position - 1
    BY <1>7, FS_RemoveElement
  <2>2. IsFiniteSet(Below)
    BY <1>6, <2>1, FS_Subset
  <2>3. Cardinality(Below) \in Nat
    BY <2>2, FS_CardinalityType
  <2> QED
    BY <1>6, <2>1, <2>3, FS_Subset
<1>10. 100 * Cardinality(AtMost) >= budget /\ 100 * Cardinality(Below) < budget
  <2> DEFINE a == Cardinality(AtMost)
             b == Cardinality(Below)
  <2>1. position \in Int /\ a \in Nat /\ b \in Nat /\ a >= position /\ b <= position - 1
    BY <1>1, <1>2, <1>8, <1>9
  <2> HIDE DEF a, b
  <2>2. 100 * a >= budget /\ 100 * b < budget
    BY <1>1, <1>2, <2>1
  <2> QED
    BY <2>2 DEF a, b
<1> QED
  BY <1>4, <1>10 DEF AtMost, Below, budget, n

\* What the platform computes is what it is asked for, whatever was configured or measured:
\* every setting in its range, and the percentiles of the report the nearest-rank ones.
THEOREM ComputationsAreRight == Spec => []ComputedRight
<1>1. PercentilesRanked
  <2> SUFFICES ASSUME NEW s \in BoundedSeq(0..2, 4) \ {<<>>}, NEW rank \in {50, 95}
               PROVE  LET p == Percentile(s, rank)
                      IN  /\ 100 * Cardinality({i \in DOMAIN s : s[i] <= p}) >= rank * Len(s)
                          /\ 100 * Cardinality({i \in DOMAIN s : s[i] < p}) < rank * Len(s)
    BY DEF PercentilesRanked
  <2>1. s \in Seq(Int) /\ rank \in 1..100
    <3>1. PICK m \in 0..4 : s \in [1..m -> 0..2]
      BY DEF BoundedSeq, SeqOf
    <3> QED
      BY <3>1
  <2> QED
    BY <2>1, PercentileIsRanked
<1> QED
  BY <1>1, SettingsStayInRange, PTL DEF ComputedRight
==============================================================================
