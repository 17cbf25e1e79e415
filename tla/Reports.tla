-------------------------------- MODULE Reports --------------------------------
(***************************************************************************)
(* What the platform reports of its reads (src/src/platform.ts): the alarm *)
(* and smoke signals of the devices it holds, the account signals, and the *)
(* failures it logs, through restarts that find the store as it was left.  *)
(*                                                                         *)
(* A read is one step here: Platform models how reads overlap.  A device   *)
(* is a partition, active in an alarm, or a smoke detector.                *)
(***************************************************************************)
EXTENDS Signals, FiniteSets

CONSTANTS
  Partitions, Detectors,
  Outages,       \* the errors of a read while Alarm.com is unreachable
  Rejections,    \* those while it refuses the sign-in
  Threshold,     \* POLL_FAILURE_WARN_THRESHOLD
  MaxMoves       \* bound: changes of the house, of Alarm.com, of the store, and restarts

Devices == Partitions \cup Detectors

ASSUME ReportsAssumption ==
  /\ Partitions \cap Detectors = {} /\ Devices # {}
  /\ Outages \subseteq ErrorCodes /\ Rejections \subseteq ErrorCodes
  /\ Threshold \in Nat /\ MaxMoves \in Nat

VARIABLES
  process,   \* "starting", "running", "stopped" for good, or "down"
  desk,      \* the signals and their store
  known,     \* the devices with a handler: what each last read, "none" without one
  log,       \* #consecutiveFailures, #hasWarnedAboutOutage, #lastReportedError
  active,    \* external: the devices in alarm
  service,   \* external: "well", "partial", "unreachable" or "rejecting"
  storeOk,   \* external: the store can be written
  moves,     \* bound: what is used of MaxMoves
  silence,   \* history: ticks since Alarm.com last answered, or the process started
  loud       \* history: a problem was logged as an error since the last success

outside == <<active, service, storeOk, moves>>
vars == <<process, desk, known, log, outside, silence, loud>>

NoLog == [failures |-> 0, warned |-> FALSE, last |-> <<>>]
Handled == {d \in Devices : known[d] # "none"}
-----------------------------------------------------------------------------
(* Failures.                                                               *)

\* #noteSignalFailure
NoteSignalFailure(d, error) ==
  LET failure == SignalFailureFrom(error)
  IN  CASE failure = "none" -> d
        [] failure = "unreachable" -> NoteUnreachable(d)
        [] OTHER -> NoteSignInStopped(d, storeOk, failure)

Least(a, b) == IF a < b THEN a ELSE b

\* #reportFailure, of the log: user-actionable problems are loud once in a row.
ReportFailure(problem) ==
  IF FailureLogLevel(problem[2]) = "error"
  THEN /\ log' = [log EXCEPT !.last = problem]
       /\ loud' = (loud \/ problem # log.last)
  ELSE /\ log' = [log EXCEPT !.failures = Least(@ + 1, Threshold),
                             !.warned = @ \/ log.failures + 1 >= Threshold]
       /\ UNCHANGED loud

\* Mistake: nothing to do unless an outage was announced.
ReportSuccessIfWarned ==
  /\ log' = IF log.warned THEN NoLog ELSE log
  /\ loud' = FALSE

\* #reportSuccess
ReportSuccess ==
  /\ log' = NoLog
  /\ loud' = FALSE
-----------------------------------------------------------------------------
(* Reads.                                                                  *)

\* The requests of a read of ids: a call for no ids makes none.
Requests(ids) ==
  {at \in {"partitions", "sensors"} :
     (at = "partitions" /\ ids \cap Partitions # {}) \/ (at = "sensors" /\ ids \cap Detectors # {})}
FirstRequest(ids) == IF ids \cap Partitions # {} THEN "partitions" ELSE "sensors"

\* The devices whose detail came back.
Read(ids, got, failsAt) ==
  CASE failsAt = "none" -> got
    [] failsAt = "sensors" -> got \cap Partitions
    [] OTHER -> {}

\* Alarm.com answered a request of the read.
Answered(ids, failsAt) ==
  \/ failsAt = "none"
  \/ failsAt = "sensors" /\ ids \cap Partitions # {}

Seen(d) == IF d \in active THEN "active" ELSE "calm"

\* #recordDeviceSignals, in the finally of a read.
RecordDeviceSignals(d, readings, ids, read, reached) ==
  LET observed(kind) ==
        ObservedSignal(\E x \in kind : readings[x] = "active", ids \cap kind \subseteq read)
      noted == NoteDevices(d, storeOk, observed(Partitions), observed(Detectors))
  IN  IF reached THEN NoteReached(noted, storeOk) ELSE noted

Outcome(got, at, error) == [got |-> got, at |-> at, error |-> error]

\* How a read of ids may go: what came back, where it failed, and with what error.
Outcomes(ids) ==
  CASE service = "well" -> {Outcome(ids, "none", "none")}
    [] service = "partial" ->
         {Outcome(got, "none", "none") : got \in SUBSET ids}
           \cup {Outcome(got, at, e) : got \in SUBSET ids, at \in Requests(ids), e \in Outages}
    [] service = "unreachable" -> {Outcome({}, FirstRequest(ids), e) : e \in Outages}
    [] OTHER -> {Outcome({}, FirstRequest(ids), e) : e \in Rejections}

\* Mistake: a read that failed is not looked at.
RecordedIfWhole(ids, o) ==
  LET read == Read(ids, o.got, o.at)
      readings == [d \in Devices |-> IF d \in read THEN Seen(d) ELSE known[d]]
  IN  /\ known' = readings
      /\ desk' = IF o.at = "none" THEN RecordDeviceSignals(desk, readings, ids, read, TRUE)
                 ELSE NoteSignalFailure(desk, o.error)
      /\ silence' = IF Answered(ids, o.at) THEN 0 ELSE silence

\* The handlers, signals and account of a read of ids that went so.
Recorded(ids, o) ==
  LET read == Read(ids, o.got, o.at)
      readings == [d \in Devices |-> IF d \in read THEN Seen(d) ELSE known[d]]
  IN  /\ known' = readings
      /\ desk' = LET recorded == RecordDeviceSignals(desk, readings, ids, read, o.at # "partitions")
                 IN  IF o.at = "none" THEN recorded ELSE NoteSignalFailure(recorded, o.error)
      /\ silence' = IF Answered(ids, o.at) THEN 0 ELSE silence

\* The list a discovery begins with cannot be had.
ListFails(error) ==
  /\ desk' = NoteSignalFailure(desk, error)
  /\ UNCHANGED <<known, silence>>

ListErrors ==
  CASE service = "rejecting" -> Rejections [] service = "unreachable" -> Outages [] OTHER -> {}
-----------------------------------------------------------------------------
Init ==
  /\ process = "starting" /\ desk = Start(NewDesk(NoRows))
  /\ known = [d \in Devices |-> "none"]
  /\ log = NoLog
  /\ active = {} /\ service = "well" /\ storeOk = TRUE /\ moves = 0
  /\ silence = 0 /\ loud = FALSE

AfterStartup(error) == IF error = "none" THEN "running"
                       ELSE IF RetriesDiscovery(error) THEN "starting" ELSE "stopped"

\* Startup notes its failures with the signals; it logs them in its own way.
StartupDiscovery ==
  /\ process = "starting"
  /\ \/ \E o \in Outcomes(Devices) :
          Recorded(Devices, o) /\ process' = AfterStartup(o.error)
     \/ \E e \in ListErrors : ListFails(e) /\ process' = AfterStartup(e)
  /\ UNCHANGED <<log, outside, loud>>

\* A read of a running platform, under the name its failures are logged by.  One that
\* leaves no device known, as a rediscovery can, counts as no success.
Reads(context, ids) ==
  \E o \in Outcomes(ids) :
    /\ Recorded(ids, o)
    /\ \/ o.at # "none" /\ ReportFailure(<<context, o.error>>)
       \/ o.at = "none" /\ Handled' # {} /\ ReportSuccess
       \/ o.at = "none" /\ Handled' = {} /\ UNCHANGED <<log, loud>>

Poll ==
  /\ process = "running" /\ Handled # {}
  /\ Reads("Poll failed", Handled)
  /\ UNCHANGED <<process, outside>>

Rediscovery ==
  /\ process = "running"
  /\ \/ Reads("Rediscovery failed", Devices)
     \/ \E e \in ListErrors : ListFails(e) /\ ReportFailure(<<"Rediscovery failed", e>>)
  /\ UNCHANGED <<process, outside>>

TargetedRefresh ==
  /\ process = "running"
  /\ \E ids \in SUBSET Handled \ {{}} : Reads("Targeted refresh failed", ids)
  /\ UNCHANGED <<process, outside>>

GraceTimer ==
  /\ desk.timer = 0
  /\ desk' = GraceExpired(desk, storeOk)
  /\ UNCHANGED <<process, known, log, outside, silence, loud>>

Shutdown ==
  /\ process # "down" /\ process' = "down"
  /\ desk' = Close(desk)
  /\ UNCHANGED <<known, log, outside, silence, loud>>

Moves == moves < MaxMoves /\ moves' = moves + 1

\* A new process, after a shutdown or a crash: all but the store is new.
Restart ==
  /\ Moves /\ process' = "starting"
  /\ desk' = Start(NewDesk(desk.rows))
  /\ known' = [d \in Devices |-> "none"]
  /\ log' = NoLog /\ silence' = 0 /\ loud' = FALSE
  /\ UNCHANGED <<active, service, storeOk>>

Tick ==
  /\ desk.timer # 0
  /\ desk' = [desk EXCEPT !.timer = IF @ > 0 THEN @ - 1 ELSE @]
  /\ silence' = Least(silence + 1, Grace)
  /\ UNCHANGED <<process, known, log, outside, loud>>

HouseChanges ==
  /\ Moves /\ \E d \in Devices : active' = (active \ {d}) \cup ({d} \ active)
  /\ UNCHANGED <<process, desk, known, log, service, storeOk, silence, loud>>

ServiceChanges ==
  /\ Moves /\ service' \in {"well", "partial", "unreachable", "rejecting"}
  /\ UNCHANGED <<process, desk, known, log, active, storeOk, silence, loud>>

StoreChanges ==
  /\ Moves /\ storeOk' = ~storeOk
  /\ UNCHANGED <<process, desk, known, log, active, service, silence, loud>>

Next ==
  \/ StartupDiscovery \/ Poll \/ Rediscovery \/ TargetedRefresh \/ GraceTimer
  \/ Shutdown \/ Restart \/ Tick \/ HouseChanges \/ ServiceChanges \/ StoreChanges

Spec == Init /\ [][Next]_vars

\* Timers fire: the poll's, the hour's, the retry's and the grace's.
LiveSpec ==
  /\ Spec
  /\ WF_vars(StartupDiscovery) /\ WF_vars(Poll) /\ WF_vars(Rediscovery)
  /\ WF_vars(Tick) /\ WF_vars(GraceTimer)
-----------------------------------------------------------------------------
(* Properties.                                                             *)

ReportsTypeOK ==
  /\ process \in {"starting", "running", "stopped", "down"}
  /\ desk.timer \in -1..Grace /\ desk.rows \in [SignalNames -> RowValues]
  /\ known \in [Devices -> {"none", "calm", "active"}]
  /\ log.failures \in 0..Threshold
  /\ desk.closed => desk.timer = -1

Pages(signal) == desk.rows[signal] \notin {"none", "clear"}

\* The row is this process's, and the last write of it reached the store.
Current(signal) == desk.written[signal] = desk.rows[signal] /\ signal \notin desk.missed

\* One cause sends one page: offline and rejected are never both on, unless the last
\* write of one of them was lost (alarmcom-signals.ts:155-156).
OneCauseOnePage ==
  ~(Pages("auth-failed") /\ Pages("cloud-offline")
     /\ Current("auth-failed") /\ Current("cloud-offline"))

\* An outage is paged only after the whole grace without an answer: not on one failed
\* poll, not early because of failures before a success (alarmcom-signals.ts:27-33).
OfflineAfterGrace ==
  [][ ~Pages("cloud-offline") /\ Pages("cloud-offline")' => silence >= Grace ]_vars

\* A read that finds a partition in alarm pages it at once, whatever else it missed,
\* whichever read it is and however it ended (platform.ts:1106-1107).
SeenAlarmPages ==
  [][ storeOk /\ known' # known /\ (\E p \in Partitions : known'[p] = "active")
        => Pages("alarm-active")' ]_vars

\* A problem is kept quiet only if it has been said since Alarm.com last worked
\* (platform.ts:997-1000).
QuietOnlyIfSaid == log.last # <<>> => loud

\* What every state of the reports satisfies.
ReportsSound == ReportsTypeOK /\ OneCauseOnePage /\ QuietOnlyIfSaid

\* What the rows should say.
RowsTrue ==
  /\ Pages("alarm-active") <=> active \cap Partitions # {}
  /\ Pages("smoke-active") <=> active \cap Detectors # {}
  /\ ~Pages("auth-failed") /\ ~Pages("cloud-offline")

\* Once Alarm.com and the store stay well, every page still open is true and every alarm
\* has its page, whatever was lost, written late or left by an earlier process.
PagesCatchUp ==
  <>[](service = "well" /\ storeOk /\ process = "running") => <>[]RowsTrue

\* An outage that lasts is paged, as an outage or as the refused sign-in it began with:
\* polls that go on failing do not put the page off.  The store is writable throughout,
\* since cloud-offline is written once (alarmcom-signals.ts:222-229), and no detector is
\* held: a failed read of detectors alone counts as an answer (platform.ts:887-891).
OutageIsPaged ==
  /\ []storeOk
  /\ <>[](/\ service = "unreachable" /\ process = "running"
          /\ Handled # {} /\ Handled \subseteq Partitions)
  => <>(Pages("cloud-offline") \/ Pages("auth-failed"))

\* What is paged follows what lasts, good or bad.
PagesFollow == PagesCatchUp /\ OutageIsPaged
-----------------------------------------------------------------------------
(* What the code says and does not keep.                                   *)

\* An alarm page is resolved only by reading every partition (alarmcom-signals.ts:83-86).
AlarmResolvedByReading ==
  [][ Pages("alarm-active") /\ ~Pages("alarm-active")'
        => \A p \in Partitions : known'[p] = "calm" ]_vars
=============================================================================
