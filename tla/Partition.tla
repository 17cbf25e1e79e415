----------------------------- MODULE Partition ------------------------------
(***************************************************************************)
(* The security-system accessory of one Alarm.com partition                *)
(* (src/src/devices/partition.ts): HomeKit requests, the one command that  *)
(* may be out at Alarm.com, the one-slot queue behind it, the pending      *)
(* target shown on the tile, and the readings that confirm or retire it.   *)
(*                                                                         *)
(* One action is one run of JavaScript to completion: a set handler up to  *)
(* its await, the expiry of the HAP window, the settlement of a command    *)
(* with everything it drains, a reading pushed in by the platform.  The    *)
(* panel, Alarm.com and the clock are external.                            *)
(***************************************************************************)
EXTENDS Integers, Sequences

CONSTANTS
  None,               \* null / undefined
  AllowHomeKitArming, \* config.allowHomeKitArming
  NightOffered,       \* supportsNightArming(attributes)
  BypassedTargets,    \* targets for which willBypassOpenSensors holds
  UserTargets,        \* bound: targets HomeKit asks for
  Readings,           \* bound: panel conditions that arise without HomeKit
  ContactConditions,  \* bound: whether listOpenContacts can be non-empty
  Outcomes,           \* bound: how commands may end
  ReportingMayThrow,  \* whether the logger or the refresh may throw in #settle
  HapWindow,          \* PARTITION_COMMAND_DEADLINE_MS, in ticks
  CommandLimit,       \* PARTITION_COMMAND_TIMEOUT_MS, in ticks
  SettleWindow,       \* PARTITION_TARGET_SETTLE_MS, in ticks
  MaxRequests         \* bound: requests HomeKit makes in one behaviour

STAY_ARM == 0
AWAY_ARM == 1
NIGHT_ARM == 2
DISARM == 3
ALARM_TRIGGERED == 4

Targets == {STAY_ARM, AWAY_ARM, NIGHT_ARM, DISARM}

\* What Alarm.com reports of a partition; state 0 is one no mapping knows.
PanelReading == [state : 0..4, hasActiveAlarm : BOOLEAN,
                 hasPermissionToChangeState : BOOLEAN]

\* A request as the queue holds it; "request" numbers it, for the properties.
Request == [target : Targets, request : 1..MaxRequests]

Attempt == [target : Targets, request : 1..MaxRequests, token : Nat \ {0},
            age : 0..CommandLimit, waiting : BOOLEAN]

ASSUME BoundsAssumption ==
  /\ MaxRequests \in Nat
  /\ HapWindow \in Nat /\ CommandLimit \in Nat /\ SettleWindow \in Nat
  /\ HapWindow <= CommandLimit

ASSUME InputsAssumption ==
  /\ AllowHomeKitArming \in BOOLEAN /\ NightOffered \in BOOLEAN
  /\ ReportingMayThrow \in BOOLEAN
  /\ BypassedTargets \subseteq Targets /\ UserTargets \subseteq Targets
  /\ Readings \subseteq PanelReading
  /\ ContactConditions \subseteq BOOLEAN
  /\ Outcomes \subseteq {"accepted", "refused", "unanswered"}

ASSUME NoneAssumption == None \notin PanelReading \cup Request \cup 0..4

VARIABLES
  attributes,      \* #attributes: latest reading, None before the first
  targetState,     \* #targetState: pending target, None when there is none
  lastShownTarget, \* #lastShownTarget
  targetAge,       \* Date.now() - #targetSetAt, in ticks, up to SettleWindow
  pipeline,        \* #commandSequence, #inFlight, #queued and the attempts
  refreshWanted,   \* the platform holds a debounced refresh of this partition
  panel,           \* external: what a reading taken now would say
  landing,         \* external: accepted commands the panel has yet to carry out
  orphans,         \* external: commands given up on that may yet be carried out
  contactOpen,     \* external: platform.listOpenContacts() is non-empty
  asked            \* history: the newest request

external == <<panel, landing, orphans, contactOpen>>
tile == <<attributes, targetState, lastShownTarget, targetAge>>
vars == <<tile, pipeline, refreshWanted, external, asked>>
-----------------------------------------------------------------------------
(* Pure helpers of the tile.                                               *)

PARTITION_TO_HOMEKIT ==
  [s \in 1..4 |-> CASE s = 1 -> DISARM
                    [] s = 2 -> STAY_ARM
                    [] s = 3 -> AWAY_ARM
                    [] s = 4 -> NIGHT_ARM]

\* toDisplayedSecurityState: an alarm outranks the mode, an unknown mode is None.
DisplayedState(reading) ==
  IF reading.hasActiveAlarm THEN ALARM_TRIGGERED
  ELSE IF reading.state \in 1..4 THEN PARTITION_TO_HOMEKIT[reading.state]
  ELSE None

\* Mistake: the alarm state, which is no legal target, published as one.
TargetToShowRaw(displayed, pending) == IF pending # None THEN pending ELSE displayed

TargetToShow(displayed, pending) ==
  IF pending # None THEN pending
  ELSE IF displayed = ALARM_TRIGGERED THEN lastShownTarget
  ELSE displayed

CanChangeState(reading) ==
  AllowHomeKitArming /\ reading.hasPermissionToChangeState

\* The validValues HAP lets a request carry.
ValidTargets(reading) ==
  {STAY_ARM, AWAY_ARM, DISARM}
    \cup (IF NightOffered \/ reading.state = 4 THEN {NIGHT_ARM} ELSE {})

\* toPartitionAction and buildCommandOptions, by the state they lead to: a
\* night arm is a stay arm with a modifier a panel without night arming ignores.
StateReached(target) ==
  CASE target = DISARM -> 1
    [] target = AWAY_ARM -> 3
    [] target = NIGHT_ARM /\ NightOffered -> 4
    [] OTHER -> 2
-----------------------------------------------------------------------------
(* The command pipeline: #sendCommand, #releaseAndDrain and #settle are    *)
(* functions of its fields, because a settlement may run them twice.       *)

IdlePipeline ==
  [commandSequence |-> 0, inFlight |-> 0, queued |-> None, running |-> {},
   sent |-> 0]   \* sent is history: the newest request put out

\* A request put out: it claims a token and holds HomeKit's reply.
StartCommand(p, r) ==
  LET token == p.commandSequence + 1
  IN  [p EXCEPT !.commandSequence = token,
                !.inFlight = token,
                !.sent = r.request,
                !.running = @ \cup
                  {[target |-> r.target, request |-> r.request,
                    token |-> token, age |-> 0, waiting |-> TRUE]}]

\* Mistakes: the second command raced against the first; a held request that
\* claims no token; a slot in which the oldest request wins.
SendCommandRacing(p, r) == StartCommand(p, r)
SendCommandUnclaimed(p, r) ==
  IF p.inFlight # 0 THEN [p EXCEPT !.queued = r] ELSE StartCommand(p, r)
SendCommandOldestWins(p, r) ==
  IF p.inFlight # 0
  THEN [p EXCEPT !.queued = IF @ = None THEN r ELSE @, !.commandSequence = @ + 1]
  ELSE StartCommand(p, r)

SendCommand(p, r) ==
  IF p.inFlight # 0
  THEN [p EXCEPT !.queued = r, !.commandSequence = @ + 1]
  ELSE StartCommand(p, r)

ReleaseAndDrain(p) ==
  IF p.queued = None
  THEN [p EXCEPT !.inFlight = 0]
  ELSE SendCommand([p EXCEPT !.inFlight = 0, !.queued = None], p.queued)

\* The late path catches what #settle throws and releases a second time.
Settle(p, attempt, throws) ==
  LET answered == ReleaseAndDrain([p EXCEPT !.running = @ \ {attempt}])
  IN  IF throws /\ ~attempt.waiting THEN ReleaseAndDrain(answered) ELSE answered
-----------------------------------------------------------------------------
Init ==
  /\ attributes = None
  /\ targetState = None
  /\ lastShownTarget = None
  /\ targetAge = SettleWindow
  /\ pipeline = IdlePipeline
  /\ refreshWanted = FALSE
  /\ panel \in Readings
  /\ landing = <<>>
  /\ orphans = {}
  /\ contactOpen \in ContactConditions
  /\ asked = 0

\* A refused write (no reading, no permission, an open contact that will not be
\* bypassed) changes nothing.
Admits(target) ==
  /\ attributes # None /\ CanChangeState(attributes)
  /\ target \in ValidTargets(attributes)
  /\ target = DISARM \/ target \in BypassedTargets \/ ~contactOpen

\* A write to the target characteristic.
HandleTargetState(target) ==
  /\ asked < MaxRequests
  /\ Admits(target)
  /\ targetState' = target
  /\ targetAge' = 0
  /\ pipeline' = SendCommand(pipeline, [target |-> target, request |-> asked + 1])
  /\ asked' = asked + 1
  /\ UNCHANGED <<attributes, lastShownTarget, refreshWanted, external>>

\* The HAP window closes on a command that is still out.
HapDeadline(attempt) ==
  /\ attempt.waiting
  /\ attempt.age = HapWindow
  /\ pipeline' = [pipeline EXCEPT !.running =
                    (@ \ {attempt}) \cup {[attempt EXCEPT !.waiting = FALSE]}]
  /\ UNCHANGED <<tile, refreshWanted, external, asked>>

\* Mistake: every outcome speaks for the tile, a replaced command's too.
OwnsTileAlways(attempt) == TRUE

OwnsTile(attempt) == attempt.token = pipeline.commandSequence

\* Mistake: the panel read back only after a command that was accepted.
ReadsBackOnSuccess(attempt, outcome) == OwnsTile(attempt) /\ outcome = "accepted"

ReadsBack(attempt, outcome) == OwnsTile(attempt)

\* A command ends, its outcome is recorded and the held request goes out.
Finish(attempt, outcome, throws) ==
  LET request == [target |-> attempt.target, request |-> attempt.request]
  IN  /\ throws => ReportingMayThrow
      /\ targetState' = IF OwnsTile(attempt) /\ outcome # "accepted"
                        THEN None ELSE targetState
      /\ refreshWanted' = (refreshWanted \/ (ReadsBack(attempt, outcome) /\ ~throws))
      /\ pipeline' = Settle(pipeline, attempt, throws)
      /\ landing' = IF outcome = "accepted" THEN Append(landing, request) ELSE landing
      /\ orphans' = IF outcome = "unanswered" THEN orphans \cup {request} ELSE orphans
      /\ UNCHANGED <<attributes, lastShownTarget, targetAge, panel, contactOpen, asked>>

\* Mistake: a target only ever retired by the reading that confirms it.
NeverExpired == FALSE

IsExpired == targetAge >= SettleWindow

\* The platform pushes a fresh reading in.
Update ==
  LET displayed == DisplayedState(panel)
      pending == IF targetState = displayed \/ IsExpired THEN None ELSE targetState
      shown == TargetToShow(displayed, pending)
  IN  /\ attributes' = panel
      /\ targetState' = pending
      /\ lastShownTarget' = IF displayed = None \/ shown = None
                            THEN lastShownTarget ELSE shown
      /\ refreshWanted' = FALSE
      /\ UNCHANGED <<targetAge, pipeline, external, asked>>

\* A tick of the clock, which passes no timer that is due.
Tick ==
  /\ \A a \in pipeline.running :
       a.age < CommandLimit /\ (a.waiting => a.age < HapWindow)
  /\ targetAge' = IF targetAge < SettleWindow THEN targetAge + 1 ELSE targetAge
  /\ pipeline' = [pipeline EXCEPT !.running =
                    {[a EXCEPT !.age = @ + 1] : a \in pipeline.running}]
  /\ UNCHANGED <<attributes, targetState, lastShownTarget, refreshWanted, external, asked>>

CarryOut(request) ==
  /\ panel' = [panel EXCEPT !.state = StateReached(request.target),
                            !.hasActiveAlarm = @ /\ request.target # DISARM]
  /\ UNCHANGED <<tile, pipeline, refreshWanted, contactOpen, asked>>

\* The panel carries out accepted commands in the order they completed.
Land ==
  /\ landing # <<>>
  /\ CarryOut(Head(landing))
  /\ landing' = Tail(landing)
  /\ UNCHANGED orphans

\* A command the client gave up on is carried out after all.
LandOrphan(request) ==
  /\ CarryOut(request)
  /\ orphans' = orphans \ {request}
  /\ UNCHANGED landing

\* The keypad, the siren, the account's permission, a door.
PanelChanges ==
  /\ panel' \in Readings
  /\ contactOpen' \in ContactConditions
  /\ UNCHANGED <<tile, pipeline, refreshWanted, landing, orphans, asked>>

FinishAny(attempt) ==
  \E outcome \in Outcomes, throws \in BOOLEAN : Finish(attempt, outcome, throws)

Next ==
  \/ \E target \in UserTargets : HandleTargetState(target)
  \/ \E a \in pipeline.running : HapDeadline(a)
  \/ \E a \in pipeline.running : FinishAny(a)
  \/ Update
  \/ Tick
  \/ Land
  \/ \E r \in orphans : LandOrphan(r)
  \/ PanelChanges

\* Timers fire, a command ends within its ceiling, and polls keep being answered.
Fairness ==
  /\ WF_vars(\E a \in pipeline.running : HapDeadline(a))
  /\ WF_vars(\E a \in pipeline.running : FinishAny(a))
  /\ WF_vars(Update)
  /\ WF_vars(Tick)

Spec == Init /\ [][Next]_vars

LiveSpec == Spec /\ Fairness
-----------------------------------------------------------------------------
(* Properties.                                                             *)

PipelineType ==
  [commandSequence : Nat, inFlight : Nat, queued : Request \cup {None},
   running : SUBSET Attempt, sent : 0..MaxRequests]

\* Every variable of the accessory and of the panel keeps its type.
TypeOK ==
  /\ attributes \in PanelReading \cup {None}
  /\ targetState \in Targets \cup {None}
  /\ lastShownTarget \in Targets \cup {None}
  /\ targetAge \in 0..SettleWindow
  /\ pipeline \in PipelineType
  /\ refreshWanted \in BOOLEAN
  /\ panel \in PanelReading
  /\ landing \in Seq(Request)
  /\ orphans \in SUBSET Request
  /\ contactOpen \in BOOLEAN
  /\ asked \in 0..MaxRequests

\* Two commands are never out at Alarm.com together (partition.ts:99-109: the
\* panel would land on either).
NeverTwoOut == \A a, b \in pipeline.running : a = b

\* At most one command is out at Alarm.com, and #inFlight knows whether one is
\* (partition.ts:99-109).
OneCommandOut ==
  /\ NeverTwoOut
  /\ (pipeline.inFlight = 0) <=> (pipeline.running = {})

\* A running command owns the tile unless a newer request is held: the claim
\* that lets #recordOutcome skip the read-back (partition.ts:764-771, 783-784).
SupersededOnlyByHeld ==
  \A a \in pipeline.running :
    (a.token = pipeline.commandSequence) <=> (pipeline.queued = None)

\* What every state of the accessory satisfies beside the properties below.
AccessorySound == TypeOK /\ SupersededOnlyByHeld

\* Nothing asked for is dropped: with nothing held, the newest request has
\* been sent; with something held, what is held is the newest request.
NewestIsCarried ==
  IF pipeline.queued = None THEN pipeline.sent = asked
  ELSE pipeline.queued.request = asked /\ pipeline.running # {}

\* A pending target dropped because a command ended was that command's own:
\* the failure of a replaced command leaves the tile alone (partition.ts:753-758).
OnlyNewestOutcomeDropsTarget ==
  [][ (targetState # None /\ targetState' = None /\ attributes' = attributes
         /\ pipeline' # pipeline)
        => \E a \in pipeline.running \ pipeline'.running : a.request = asked ]_vars

\* The pipeline never falls idle without a read-back of the panel being asked
\* for, so HomeKit is corrected before the next poll (partition.ts:764-785).
IdleMeansReadBack ==
  [][ (pipeline.running # {} /\ pipeline'.running = {}) => refreshWanted' ]_vars

\* A pending target is never shown for ever: it is confirmed, failed or expired
\* (settings.ts:349-356).
TargetIsRetired == (targetState # None) ~> (targetState = None)

\* The pipeline implements the latest-wins promise, and so every request goes
\* out unless a newer one replaces it (partition.ts:99-119).
Promise == INSTANCE LatestWins WITH
             sent <- pipeline.sent, isOut <- pipeline.running # {}
PromiseKept == Promise!Spec
=============================================================================
