-------------------------- MODULE PartitionProofs ---------------------------
(***************************************************************************)
(* Proofs about Partition, for every value of its constants.  The command  *)
(* pipeline is a record the handlers transform, so its invariant is proved *)
(* of the transformations first and of the actions afterwards.             *)
(***************************************************************************)
EXTENDS Partition, TLAPS

(***************************************************************************)
(* Types.                                                                  *)
(***************************************************************************)

\* A command put out gives a well-typed pipeline (#sendCommand, 616-643).
LEMMA StartCommandType ==
  ASSUME NEW p \in PipelineType, NEW r \in Request
  PROVE  StartCommand(p, r) \in PipelineType
<1> DEFINE token == p.commandSequence + 1
           attempt == [target |-> r.target, request |-> r.request,
                       token |-> token, age |-> 0, waiting |-> TRUE]
<1>1. token \in Nat \ {0}
  BY DEF PipelineType
<1>2. attempt \in Attempt
  BY <1>1, BoundsAssumption DEF Attempt, Request
<1>3. p.running \cup {attempt} \in SUBSET Attempt
  BY <1>2 DEF PipelineType
<1>4. r.request \in 0..MaxRequests
  BY BoundsAssumption DEF Request
<1> HIDE DEF attempt, token
<1>5. [p EXCEPT !.commandSequence = token, !.inFlight = token, !.sent = r.request,
                !.running = p.running \cup {attempt}] \in PipelineType
  BY <1>1, <1>3, <1>4 DEF PipelineType
<1> QED
  BY <1>5 DEF StartCommand, attempt, token

\* So does a request sent or held (#sendCommand, 595-614).
LEMMA SendCommandType ==
  ASSUME NEW p \in PipelineType, NEW r \in Request
  PROVE  SendCommand(p, r) \in PipelineType
<1> DEFINE token == p.commandSequence + 1
<1>1. token \in Nat /\ r \in Request \cup {None}
  BY DEF PipelineType
<1> HIDE DEF token
<1>2. [p EXCEPT !.queued = r, !.commandSequence = token] \in PipelineType
  BY <1>1 DEF PipelineType
<1>3. [p EXCEPT !.queued = r, !.commandSequence = @ + 1] \in PipelineType
  BY <1>2 DEF token
<1> QED
  BY <1>3, StartCommandType DEF SendCommand

\* So does a release of the slot (#releaseAndDrain).
LEMMA ReleaseAndDrainType ==
  ASSUME NEW p \in PipelineType
  PROVE  ReleaseAndDrain(p) \in PipelineType
<1>1. [p EXCEPT !.inFlight = 0] \in PipelineType
  BY DEF PipelineType
<1>2. [p EXCEPT !.inFlight = 0, !.queued = None] \in PipelineType
  BY DEF PipelineType
<1>3. p.queued # None => p.queued \in Request
  BY DEF PipelineType
<1> QED
  BY <1>1, <1>2, <1>3, SendCommandType DEF ReleaseAndDrain

\* So does a settlement, whether or not reporting it throws (#settle).
LEMMA SettleType ==
  ASSUME NEW p \in PipelineType, NEW a \in p.running, NEW throws \in BOOLEAN
  PROVE  Settle(p, a, throws) \in PipelineType
<1>1. [p EXCEPT !.running = @ \ {a}] \in PipelineType
  BY DEF PipelineType
<1> QED
  BY <1>1, ReleaseAndDrainType DEF Settle

\* A command the panel carries out leaves a condition the panel can be in.
LEMMA CarryOutType ==
  ASSUME panel \in PanelReading, NEW r \in Request, CarryOut(r)
  PROVE  panel' \in PanelReading
<1>1. StateReached(r.target) \in 0..4
  BY DEF StateReached
<1>2. (panel.hasActiveAlarm /\ r.target # DISARM) \in BOOLEAN
  OBVIOUS
<1> QED
  BY <1>1, <1>2 DEF CarryOut, PanelReading

\* The state a reading shows is a HomeKit state or None.
LEMMA DisplayedStateType ==
  ASSUME NEW r \in PanelReading
  PROVE  DisplayedState(r) \in Targets \cup {ALARM_TRIGGERED, None}
BY DEF DisplayedState, PARTITION_TO_HOMEKIT, PanelReading, Targets,
       STAY_ARM, AWAY_ARM, NIGHT_ARM, DISARM, ALARM_TRIGGERED

\* Time passing keeps attempts well-typed, for none passes its limit.
LEMMA TickType ==
  ASSUME NEW p \in PipelineType, \A a \in p.running : a.age < CommandLimit
  PROVE  [p EXCEPT !.running = {[a EXCEPT !.age = @ + 1] : a \in p.running}]
           \in PipelineType
<1> DEFINE older == {[a EXCEPT !.age = @ + 1] : a \in p.running}
<1>1. older \in SUBSET Attempt
  <2> SUFFICES ASSUME NEW a \in p.running
               PROVE  [a EXCEPT !.age = @ + 1] \in Attempt
    OBVIOUS
  <2>1. a \in Attempt
    BY DEF PipelineType
  <2>2. a.age + 1 \in 0..CommandLimit
    BY <2>1, BoundsAssumption DEF Attempt
  <2> QED
    BY <2>1, <2>2 DEF Attempt
<1> HIDE DEF older
<1>2. [p EXCEPT !.running = older] \in PipelineType
  BY <1>1 DEF PipelineType
<1> QED
  BY <1>2 DEF older

\* Every step of the accessory and of the panel keeps the types.
LEMMA NextType == TypeOK /\ [Next]_vars => TypeOK'
<1> SUFFICES ASSUME TypeOK, [Next]_vars
             PROVE  TypeOK'
  OBVIOUS
<1> USE BoundsAssumption, InputsAssumption
<1>1. ASSUME NEW target \in UserTargets, HandleTargetState(target)
      PROVE  TypeOK'
  <2>1. asked + 1 \in 1..MaxRequests /\ asked + 1 \in 0..MaxRequests /\ target \in Targets
    BY <1>1 DEF TypeOK, HandleTargetState
  <2>2. [target |-> target, request |-> asked + 1] \in Request
    BY <2>1 DEF Request
  <2>3. pipeline' \in PipelineType
    BY <1>1, <2>2, SendCommandType DEF TypeOK, HandleTargetState
  <2>4. targetState' = target /\ targetAge' \in 0..SettleWindow
    BY <1>1 DEF HandleTargetState
  <2> QED
    BY <1>1, <2>1, <2>3, <2>4 DEF TypeOK, HandleTargetState, external
<1>2. ASSUME NEW a \in pipeline.running, HapDeadline(a)
      PROVE  TypeOK'
  <2> DEFINE running == (pipeline.running \ {a}) \cup {[a EXCEPT !.waiting = FALSE]}
  <2>1. running \in SUBSET Attempt
    BY DEF TypeOK, PipelineType, Attempt
  <2> HIDE DEF running
  <2>2. [pipeline EXCEPT !.running = running] \in PipelineType
    BY <2>1 DEF TypeOK, PipelineType
  <2>3. pipeline' \in PipelineType
    BY <1>2, <2>2 DEF HapDeadline, running
  <2> QED
    BY <1>2, <2>3 DEF TypeOK, HapDeadline, tile, external
<1>3. ASSUME NEW a \in pipeline.running, FinishAny(a)
      PROVE  TypeOK'
  <2>1. PICK outcome \in Outcomes, throws \in BOOLEAN : Finish(a, outcome, throws)
    BY <1>3 DEF FinishAny
  <2>2. pipeline' \in PipelineType
    BY <2>1, SettleType DEF TypeOK, Finish
  <2>3. a \in Attempt
    BY DEF TypeOK, PipelineType
  <2>4. [target |-> a.target, request |-> a.request] \in Request
    BY <2>3 DEF Attempt, Request
  <2>5. landing' \in Seq(Request) /\ orphans' \in SUBSET Request
    BY <2>1, <2>4 DEF TypeOK, Finish
  <2>6. targetState' \in Targets \cup {None} /\ refreshWanted' \in BOOLEAN
    BY <2>1 DEF TypeOK, Finish, ReadsBack, OwnsTile
  <2> QED
    BY <2>1, <2>2, <2>5, <2>6 DEF TypeOK, Finish
<1>4. ASSUME Update
      PROVE  TypeOK'
  <2> DEFINE displayed == DisplayedState(panel)
             pending == IF targetState = displayed \/ IsExpired THEN None ELSE targetState
             shown == TargetToShow(displayed, pending)
  <2>1. displayed \in Targets \cup {ALARM_TRIGGERED, None}
    BY DisplayedStateType DEF TypeOK
  <2>2. pending \in Targets \cup {None}
    BY DEF TypeOK
  <2>3. shown \in Targets \cup {None}
    BY <2>1, <2>2 DEF TypeOK, TargetToShow
  <2>4. lastShownTarget' \in Targets \cup {None}
    BY <1>4, <2>3 DEF TypeOK, Update
  <2>5. targetState' \in Targets \cup {None}
    BY <1>4, <2>2 DEF TypeOK, Update
  <2> QED
    BY <1>4, <2>4, <2>5 DEF TypeOK, Update, external
<1>5. ASSUME Tick
      PROVE  TypeOK'
  <2>1. pipeline' \in PipelineType
    BY <1>5, TickType DEF TypeOK, Tick
  <2>2. targetAge' \in 0..SettleWindow
    BY <1>5 DEF TypeOK, Tick
  <2> QED
    BY <1>5, <2>1, <2>2 DEF TypeOK, Tick, external
<1>6. ASSUME Land
      PROVE  TypeOK'
  <2>1. Head(landing) \in Request /\ Tail(landing) \in Seq(Request)
    BY <1>6 DEF TypeOK, Land
  <2>2. panel' \in PanelReading
    BY <1>6, <2>1, CarryOutType DEF TypeOK, Land
  <2> QED
    BY <1>6, <2>1, <2>2 DEF TypeOK, Land, CarryOut, tile
<1>7. ASSUME NEW r \in orphans, LandOrphan(r)
      PROVE  TypeOK'
  <2>1. r \in Request
    BY DEF TypeOK
  <2>2. panel' \in PanelReading
    BY <1>7, <2>1, CarryOutType DEF TypeOK, LandOrphan
  <2> QED
    BY <1>7, <2>2 DEF TypeOK, LandOrphan, CarryOut, tile
<1>8. CASE PanelChanges
  BY <1>8 DEF TypeOK, PanelChanges, tile
<1>9. CASE UNCHANGED vars
  BY <1>9 DEF TypeOK, vars, tile, external
<1> QED
  BY <1>1, <1>2, <1>3, <1>4, <1>5, <1>6, <1>7, <1>8, <1>9 DEF Next

\* Every variable of the accessory and of the panel keeps its type.
THEOREM TypeCorrect == Spec => []TypeOK
<1>1. Init => TypeOK
  <2> SUFFICES ASSUME Init PROVE TypeOK
    OBVIOUS
  <2>1. IdlePipeline \in PipelineType
    BY BoundsAssumption DEF IdlePipeline, PipelineType
  <2>2. landing \in Seq(Request)
    BY DEF Init
  <2>3. panel \in PanelReading /\ contactOpen \in BOOLEAN
    BY InputsAssumption DEF Init
  <2>4. targetAge \in 0..SettleWindow /\ 0 \in 0..MaxRequests
    BY BoundsAssumption DEF Init
  <2> QED
    BY <2>1, <2>2, <2>3, <2>4 DEF Init, TypeOK
<1> QED
  BY <1>1, NextType, PTL DEF Spec
(***************************************************************************)
(* The pipeline's inductive invariant.  OneCommandOut and NewestIsCarried  *)
(* are not inductive by themselves: a settlement releases the slot knowing *)
(* only the promise that settled, so it must be known that this promise is *)
(* the one in the slot, that the sequence counter has moved past its token *)
(* exactly when something is held, and that what is held is newer.         *)
(***************************************************************************)
PipelineInv(p, newest) ==
  /\ \A a, b \in p.running : a = b
  /\ \A a \in p.running : a.token = p.inFlight /\ a.request = p.sent
  /\ (p.inFlight = 0) <=> (p.running = {})
  /\ p.running = {} => p.queued = None
  /\ p.queued = None =>
       p.sent = newest /\ (p.running # {} => p.inFlight = p.commandSequence)
  /\ p.queued # None =>
       p.queued.request = newest /\ p.sent < newest /\ p.inFlight < p.commandSequence

\* A command put into an empty pipeline is the newest request, owning the slot.
LEMMA StartCommandKeeps ==
  ASSUME NEW p \in PipelineType, NEW r \in Request, p.running = {}, p.queued = None
  PROVE  PipelineInv(StartCommand(p, r), r.request)
<1> DEFINE token == p.commandSequence + 1
           attempt == [target |-> r.target, request |-> r.request,
                       token |-> token, age |-> 0, waiting |-> TRUE]
           q == StartCommand(p, r)
<1>1. token \in Nat \ {0}
  BY DEF PipelineType
<1>2. /\ q.running = {attempt}
      /\ q.inFlight = token /\ q.commandSequence = token
      /\ q.sent = r.request /\ q.queued = None
  BY DEF StartCommand, PipelineType
<1>3. attempt.token = token /\ attempt.request = r.request
  OBVIOUS
<1> HIDE DEF token, attempt, q
<1>4. PipelineInv(q, r.request)
  BY <1>1, <1>2, <1>3 DEF PipelineInv
<1> QED
  BY <1>4 DEF q

\* A new request keeps the invariant, sent or held (#sendCommand).
LEMMA SendCommandKeeps ==
  ASSUME NEW p \in PipelineType, NEW newest \in Nat, PipelineInv(p, newest),
         NEW r \in Request, r.request = newest + 1
  PROVE  PipelineInv(SendCommand(p, r), newest + 1)
<1>1. CASE p.inFlight = 0
  <2>1. p.running = {} /\ p.queued = None
    BY <1>1 DEF PipelineInv
  <2> QED
    BY <1>1, <2>1, StartCommandKeeps DEF SendCommand
<1>2. CASE p.inFlight # 0
  <2> DEFINE q == SendCommand(p, r)
  <2>1. /\ q.running = p.running /\ q.inFlight = p.inFlight /\ q.sent = p.sent
        /\ q.queued = r /\ q.commandSequence = p.commandSequence + 1
    BY <1>2 DEF SendCommand, PipelineType
  <2>2. r # None
    BY NoneAssumption
  <2>3. p.sent < newest + 1 /\ p.inFlight < p.commandSequence + 1
    <3>1. p.sent \in Nat /\ p.inFlight \in Nat /\ p.commandSequence \in Nat
      BY BoundsAssumption DEF PipelineType
    <3>2. p.running # {}
      BY <1>2 DEF PipelineInv
    <3>3. p.sent <= newest /\ p.inFlight <= p.commandSequence
      BY <3>1, <3>2 DEF PipelineInv
    <3> QED
      BY <3>1, <3>3
  <2>4. p.running # {}
    BY <1>2 DEF PipelineInv
  <2> HIDE DEF q
  <2>5. PipelineInv(q, newest + 1)
    BY <1>2, <2>1, <2>2, <2>3, <2>4 DEF PipelineInv
  <2> QED
    BY <2>5 DEF q
<1> QED
  BY <1>1, <1>2

\* A settled command leaves the slot to the newest request, if it was not it.
LEMMA ReleaseAndDrainKeeps ==
  ASSUME NEW p \in PipelineType, NEW newest \in Nat, PipelineInv(p, newest),
         NEW a \in p.running
  PROVE  LET q == ReleaseAndDrain([p EXCEPT !.running = @ \ {a}])
         IN  /\ PipelineInv(q, newest)
             /\ q.sent = newest
             /\ (q.running # {}) <=> (p.sent < newest)
<1> DEFINE left == [p EXCEPT !.running = @ \ {a}]
<1>1. left \in PipelineType
  BY DEF PipelineType
<1>2. left.running = {} /\ left.queued = p.queued /\ left.sent = p.sent
  BY DEF PipelineInv, PipelineType
<1> HIDE DEF left
<1>3. CASE p.queued = None
  <2> DEFINE q == [left EXCEPT !.inFlight = 0]
  <2>1. /\ q.running = {} /\ q.inFlight = 0 /\ q.queued = None /\ q.sent = newest
    BY <1>1, <1>2, <1>3 DEF PipelineInv, PipelineType
  <2>2. ~(p.sent < newest)
    BY <1>3 DEF PipelineInv
  <2>3. ReleaseAndDrain(left) = q
    BY <1>2, <1>3 DEF ReleaseAndDrain
  <2> HIDE DEF q
  <2>4. PipelineInv(q, newest)
    BY <2>1 DEF PipelineInv
  <2> QED
    BY <2>1, <2>2, <2>3, <2>4 DEF left
<1>4. CASE p.queued # None
  <2> DEFINE free == [left EXCEPT !.inFlight = 0, !.queued = None]
  <2>1. free \in PipelineType
    BY <1>1 DEF PipelineType
  <2>2. free.running = {} /\ free.queued = None /\ free.inFlight = 0
    BY <1>1, <1>2 DEF PipelineType
  <2>3. p.queued \in Request /\ p.queued.request = newest /\ p.sent < newest
    BY <1>4 DEF PipelineInv, PipelineType
  <2>4. ReleaseAndDrain(left) = StartCommand(free, p.queued)
    BY <1>2, <1>4, <2>2 DEF ReleaseAndDrain, SendCommand
  <2> HIDE DEF free
  <2> DEFINE q == StartCommand(free, p.queued)
  <2>5. PipelineInv(q, newest)
    BY <2>1, <2>2, <2>3, StartCommandKeeps
  <2>6. q.sent = newest /\ q.running # {}
    BY <2>1, <2>3 DEF StartCommand, PipelineType
  <2> HIDE DEF q
  <2> QED
    BY <2>3, <2>4, <2>5, <2>6 DEF left, q
<1> QED
  BY <1>3, <1>4

\* The steps that only touch the attempts' clocks and replies keep it.
LEMMA AttemptsKeep ==
  ASSUME NEW p \in PipelineType, NEW newest \in Nat, PipelineInv(p, newest),
         NEW running, 
         \A b \in running : \E a \in p.running :
           b.token = a.token /\ b.request = a.request,
         \A b, c \in running : b = c,
         (running = {}) <=> (p.running = {})
  PROVE  PipelineInv([p EXCEPT !.running = running], newest)
<1> DEFINE q == [p EXCEPT !.running = running]
<1>1. /\ q.running = running /\ q.inFlight = p.inFlight /\ q.sent = p.sent
      /\ q.queued = p.queued /\ q.commandSequence = p.commandSequence
  BY DEF PipelineType
<1> HIDE DEF q
<1>2. PipelineInv(q, newest)
  BY <1>1 DEF PipelineInv
<1> QED
  BY <1>2 DEF q

\* A tick starts and ends no attempt.
LEMMA TickKeepsAttempts ==
  ASSUME pipeline \in PipelineType, Tick
  PROVE  /\ (pipeline'.running = {}) <=> (pipeline.running = {})
         /\ pipeline'.sent = pipeline.sent
<1> DEFINE running == {[a EXCEPT !.age = @ + 1] : a \in pipeline.running}
<1>1. pipeline' = [pipeline EXCEPT !.running = running]
  BY DEF Tick
<1>2. (running = {}) <=> (pipeline.running = {})
  OBVIOUS
<1> HIDE DEF running
<1> QED
  BY <1>1, <1>2 DEF PipelineType

\* Without a throw a settlement releases once.
LEMMA SettleOnce ==
  ASSUME TypeOK, PipelineInv(pipeline, asked), ReportingMayThrow = FALSE,
         NEW a \in pipeline.running, NEW outcome, NEW throws \in BOOLEAN,
         Finish(a, outcome, throws)
  PROVE  /\ PipelineInv(pipeline', asked)
         /\ pipeline'.sent = asked
         /\ (pipeline'.running # {}) <=> (pipeline.sent < asked)
<1>1. ~throws
  BY DEF Finish
<1>2. pipeline' = ReleaseAndDrain([pipeline EXCEPT !.running = @ \ {a}])
  BY <1>1 DEF Finish, Settle
<1>3. asked \in Nat /\ pipeline \in PipelineType
  BY BoundsAssumption DEF TypeOK
<1> QED
  BY <1>2, <1>3, ReleaseAndDrainKeeps

\* Every step keeps the pipeline's invariant.
LEMMA NextPipeline ==
  ASSUME ReportingMayThrow = FALSE
  PROVE  TypeOK /\ PipelineInv(pipeline, asked) /\ [Next]_vars
           => PipelineInv(pipeline, asked)'
<1> SUFFICES ASSUME TypeOK, PipelineInv(pipeline, asked), [Next]_vars
             PROVE  PipelineInv(pipeline', asked')
  OBVIOUS
<1>0. asked \in Nat /\ pipeline \in PipelineType
  BY BoundsAssumption DEF TypeOK
<1>1. ASSUME NEW target \in UserTargets, HandleTargetState(target)
      PROVE  PipelineInv(pipeline', asked')
  <2> DEFINE r == [target |-> target, request |-> asked + 1]
  <2>1. r \in Request /\ r.request = asked + 1
    BY <1>0, <1>1, BoundsAssumption, InputsAssumption DEF HandleTargetState, Request
  <2>2. pipeline' = SendCommand(pipeline, r) /\ asked' = asked + 1
    BY <1>1 DEF HandleTargetState
  <2> HIDE DEF r
  <2> QED
    BY <1>0, <2>1, <2>2, SendCommandKeeps
<1>2. ASSUME NEW a \in pipeline.running, HapDeadline(a)
      PROVE  PipelineInv(pipeline', asked')
  <2> DEFINE b == [a EXCEPT !.waiting = FALSE]
             running == (pipeline.running \ {a}) \cup {b}
  <2>1. a \in Attempt
    BY <1>0 DEF PipelineType
  <2>2. b.token = a.token /\ b.request = a.request
    BY <2>1 DEF Attempt
  <2>3. running = {b}
    BY DEF PipelineInv
  <2>4. pipeline' = [pipeline EXCEPT !.running = running] /\ asked' = asked
    BY <1>2 DEF HapDeadline
  <2> HIDE DEF b, running
  <2>5. PipelineInv([pipeline EXCEPT !.running = running], asked)
    BY <1>0, <2>2, <2>3, AttemptsKeep
  <2> QED
    BY <2>4, <2>5
<1>3. ASSUME NEW a \in pipeline.running, FinishAny(a)
      PROVE  PipelineInv(pipeline', asked')
  <2>1. PICK outcome \in Outcomes, throws \in BOOLEAN : Finish(a, outcome, throws)
    BY <1>3 DEF FinishAny
  <2>2. PipelineInv(pipeline', asked)
    BY <2>1, SettleOnce
  <2>3. asked' = asked
    BY <2>1 DEF Finish
  <2> QED
    BY <2>2, <2>3
<1>4. ASSUME Tick
      PROVE  PipelineInv(pipeline', asked')
  <2> DEFINE running == {[a EXCEPT !.age = @ + 1] : a \in pipeline.running}
  <2>1. pipeline' = [pipeline EXCEPT !.running = running] /\ asked' = asked
    BY <1>4 DEF Tick
  <2>2. \A b \in running : \E a \in pipeline.running :
          b.token = a.token /\ b.request = a.request
    BY <1>0 DEF PipelineType, Attempt
  <2>3. \A b, c \in running : b = c
    BY DEF PipelineInv
  <2>4. (running = {}) <=> (pipeline.running = {})
    OBVIOUS
  <2> HIDE DEF running
  <2>5. PipelineInv([pipeline EXCEPT !.running = running], asked)
    BY <1>0, <2>2, <2>3, <2>4, AttemptsKeep
  <2> QED
    BY <2>1, <2>5
<1>5. CASE Update
  BY <1>5 DEF Update
<1>6. CASE Land
  BY <1>6 DEF Land, CarryOut
<1>7. ASSUME NEW r \in orphans, LandOrphan(r)
      PROVE  PipelineInv(pipeline', asked')
  BY <1>7 DEF LandOrphan, CarryOut
<1>8. CASE PanelChanges
  BY <1>8 DEF PanelChanges
<1>9. CASE UNCHANGED vars
  BY <1>9 DEF vars
<1> QED
  BY <1>1, <1>2, <1>3, <1>4, <1>5, <1>6, <1>7, <1>8, <1>9 DEF Next

\* If reporting an outcome never throws, the pipeline keeps its invariant.
LEMMA PipelineInvariant ==
  ASSUME ReportingMayThrow = FALSE
  PROVE  Spec => [](TypeOK /\ PipelineInv(pipeline, asked))
<1>1. Init => PipelineInv(pipeline, asked)
  BY DEF Init, IdlePipeline, PipelineInv
<1>2. TypeOK /\ PipelineInv(pipeline, asked) /\ [Next]_vars
        => PipelineInv(pipeline, asked)'
  BY NextPipeline
<1> QED
  BY <1>1, <1>2, TypeCorrect, PTL DEF Spec

\* Two commands are never out at Alarm.com together, as long as nothing throws
\* while an outcome is recorded; partition_double_release shows the assumption
\* is needed.
THEOREM OneCommandAtATime ==
  ASSUME ReportingMayThrow = FALSE
  PROVE  Spec => []OneCommandOut
<1>1. PipelineInv(pipeline, asked) => OneCommandOut
  BY DEF PipelineInv, OneCommandOut, NeverTwoOut
<1> QED
  BY <1>1, PipelineInvariant, PTL

\* The newest request is never lost: it has been sent, or it is the one held.
THEOREM NewestNeverLost ==
  ASSUME ReportingMayThrow = FALSE
  PROVE  Spec => []NewestIsCarried
<1>1. PipelineInv(pipeline, asked) => NewestIsCarried
  BY DEF PipelineInv, NewestIsCarried
<1> QED
  BY <1>1, PipelineInvariant, PTL

\* A running command is superseded exactly when a newer request is held.
THEOREM SupersessionMeansHeld ==
  ASSUME ReportingMayThrow = FALSE
  PROVE  Spec => []SupersededOnlyByHeld
<1>1. TypeOK /\ PipelineInv(pipeline, asked) => SupersededOnlyByHeld
  BY DEF PipelineInv, SupersededOnlyByHeld, TypeOK, PipelineType
<1> QED
  BY <1>1, PipelineInvariant, PTL

\* What every state of the accessory satisfies: the types, and who owns the tile.
THEOREM AccessoryIsSound ==
  ASSUME ReportingMayThrow = FALSE
  PROVE  Spec => []AccessorySound
<1>1. TypeOK /\ SupersededOnlyByHeld => AccessorySound
  BY DEF AccessorySound
<1> QED
  BY <1>1, TypeCorrect, SupersessionMeansHeld, PTL

\* Only a Finish ends an attempt, and only a Finish that owns the tile drops the
\* target while a command ends: what the two action theorems below rest on.
LEMMA OwnerIsNewest ==
  ASSUME TypeOK, PipelineInv(pipeline, asked), ReportingMayThrow = FALSE,
         NEW a \in pipeline.running, NEW outcome, NEW throws \in BOOLEAN,
         Finish(a, outcome, throws)
  PROVE  /\ OwnsTile(a) => a.request = asked /\ pipeline'.running = {}
         /\ pipeline'.running = {} => OwnsTile(a)
<1>1. pipeline.inFlight = a.token /\ pipeline.sent = a.request
  BY DEF PipelineInv
<1>2. pipeline.sent \in Nat /\ asked \in Nat /\ a.token \in Nat
  BY BoundsAssumption DEF TypeOK, PipelineType, Attempt
<1>3. OwnsTile(a) => pipeline.queued = None
  BY <1>1, <1>2 DEF PipelineInv, OwnsTile
<1>4. pipeline.queued = None => OwnsTile(a) /\ a.request = asked
  BY <1>1 DEF PipelineInv, OwnsTile
<1>5. (pipeline'.running # {}) <=> (pipeline.sent < asked)
  BY SettleOnce
<1>6. pipeline.queued # None => pipeline.sent < asked
  BY DEF PipelineInv
<1> QED
  BY <1>1, <1>2, <1>3, <1>4, <1>5, <1>6

\* A pending target dropped because a command ended was that command's own.
THEOREM ReplacedOutcomesLeaveTile ==
  ASSUME ReportingMayThrow = FALSE
  PROVE  Spec => OnlyNewestOutcomeDropsTarget
<1> DEFINE Step == (targetState # None /\ targetState' = None /\ attributes' = attributes
                      /\ pipeline' # pipeline)
                     => \E a \in pipeline.running \ pipeline'.running : a.request = asked
<1>1. TypeOK /\ PipelineInv(pipeline, asked) /\ [Next]_vars => [Step]_vars
  <2> SUFFICES ASSUME TypeOK, PipelineInv(pipeline, asked), Next,
                      targetState # None, targetState' = None, pipeline' # pipeline
               PROVE  \E a \in pipeline.running \ pipeline'.running : a.request = asked
    BY DEF vars
  <2>1. ASSUME NEW target \in UserTargets, HandleTargetState(target)
        PROVE  FALSE
    BY <2>1, NoneAssumption, InputsAssumption
       DEF HandleTargetState, Targets, STAY_ARM, AWAY_ARM, NIGHT_ARM, DISARM
  <2>2. ASSUME NEW a \in pipeline.running, HapDeadline(a)
        PROVE  FALSE
    BY <2>2 DEF HapDeadline, tile
  <2>3. ASSUME NEW a \in pipeline.running, FinishAny(a)
        PROVE  \E b \in pipeline.running \ pipeline'.running : b.request = asked
    <3>1. PICK outcome \in Outcomes, throws \in BOOLEAN : Finish(a, outcome, throws)
      BY <2>3 DEF FinishAny
    <3>2. OwnsTile(a)
      BY <3>1 DEF Finish
    <3> QED
      BY <3>1, <3>2, OwnerIsNewest
  <2>4. CASE Update
    BY <2>4 DEF Update
  <2>5. CASE Tick
    BY <2>5 DEF Tick
  <2>6. CASE Land \/ \E r \in orphans : LandOrphan(r)
    BY <2>6 DEF Land, LandOrphan, CarryOut
  <2>7. CASE PanelChanges
    BY <2>7 DEF PanelChanges
  <2> QED
    BY <2>1, <2>2, <2>3, <2>4, <2>5, <2>6, <2>7 DEF Next
<1> QED
  BY <1>1, PipelineInvariant, PTL DEF Spec, OnlyNewestOutcomeDropsTarget

\* The pipeline never falls idle without asking for a read-back of the panel.
THEOREM IdlePipelineReadsBack ==
  ASSUME ReportingMayThrow = FALSE
  PROVE  Spec => IdleMeansReadBack
<1> DEFINE Step == (pipeline.running # {} /\ pipeline'.running = {}) => refreshWanted'
<1>1. TypeOK /\ PipelineInv(pipeline, asked) /\ [Next]_vars => [Step]_vars
  <2> SUFFICES ASSUME TypeOK, PipelineInv(pipeline, asked), Next,
                      pipeline.running # {}, pipeline'.running = {}
               PROVE  refreshWanted'
    BY DEF vars
  <2>0. pipeline \in PipelineType
    BY DEF TypeOK
  <2>1. ASSUME NEW target \in UserTargets, HandleTargetState(target)
        PROVE  FALSE
    BY <2>0, <2>1 DEF HandleTargetState, SendCommand, StartCommand, PipelineType
  <2>2. ASSUME NEW a \in pipeline.running, HapDeadline(a)
        PROVE  FALSE
    BY <2>0, <2>2 DEF HapDeadline, PipelineType
  <2>3. ASSUME NEW a \in pipeline.running, FinishAny(a)
        PROVE  refreshWanted'
    <3>1. PICK outcome \in Outcomes, throws \in BOOLEAN : Finish(a, outcome, throws)
      BY <2>3 DEF FinishAny
    <3>2. OwnsTile(a)
      BY <3>1, OwnerIsNewest
    <3> QED
      BY <3>1, <3>2 DEF Finish, ReadsBack
  <2>4. CASE Update
    BY <2>4 DEF Update
  <2>5. CASE Tick
    BY <2>0, <2>5, TickKeepsAttempts
  <2>6. CASE Land \/ \E r \in orphans : LandOrphan(r)
    BY <2>6 DEF Land, LandOrphan, CarryOut
  <2>7. CASE PanelChanges
    BY <2>7 DEF PanelChanges
  <2> QED
    BY <2>1, <2>2, <2>3, <2>4, <2>5, <2>6, <2>7 DEF Next
<1> QED
  BY <1>1, PipelineInvariant, PTL DEF Spec, IdleMeansReadBack

\* The pipeline implements the latest-wins promise, its liveness aside: every
\* step is a step of LatestWins or leaves it alone.
THEOREM PipelineImplementsPromise ==
  ASSUME ReportingMayThrow = FALSE
  PROVE  Spec => Promise!Init /\ [][Promise!Next]_(Promise!vars)
<1>1. Init => Promise!Init
  BY DEF Init, IdlePipeline, Promise!Init
<1>2. TypeOK /\ PipelineInv(pipeline, asked) /\ [Next]_vars
        => [Promise!Next]_(Promise!vars)
  <2> SUFFICES ASSUME TypeOK, PipelineInv(pipeline, asked), [Next]_vars
               PROVE  [Promise!Next]_(Promise!vars)
    OBVIOUS
  <2>0. pipeline \in PipelineType /\ asked \in Nat
    BY BoundsAssumption DEF TypeOK
  <2>1. ASSUME NEW target \in UserTargets, HandleTargetState(target)
        PROVE  Promise!Ask
    <3> DEFINE r == [target |-> target, request |-> asked + 1]
    <3>1. /\ asked < MaxRequests /\ asked' = asked + 1
          /\ pipeline' = SendCommand(pipeline, r)
      BY <2>1 DEF HandleTargetState
    <3>2. CASE pipeline.inFlight = 0
      <4>1. pipeline.running = {}
        BY <3>2 DEF PipelineInv
      <4>2. pipeline'.running # {} /\ pipeline'.sent = asked + 1
        BY <2>0, <3>1, <3>2 DEF SendCommand, StartCommand, PipelineType
      <4> QED
        BY <3>1, <4>1, <4>2 DEF Promise!Ask
    <3>3. CASE pipeline.inFlight # 0
      <4>1. pipeline.running # {}
        BY <3>3 DEF PipelineInv
      <4>2. pipeline'.running = pipeline.running /\ pipeline'.sent = pipeline.sent
        BY <2>0, <3>1, <3>3 DEF SendCommand, PipelineType
      <4> QED
        BY <3>1, <4>1, <4>2 DEF Promise!Ask
    <3> QED
      BY <3>2, <3>3
  <2>2. ASSUME NEW a \in pipeline.running, HapDeadline(a)
        PROVE  UNCHANGED Promise!vars
    BY <2>0, <2>2 DEF HapDeadline, PipelineType, Promise!vars
  <2>3. ASSUME NEW a \in pipeline.running, FinishAny(a)
        PROVE  Promise!Finish
    <3>1. PICK outcome \in Outcomes, throws \in BOOLEAN : Finish(a, outcome, throws)
      BY <2>3 DEF FinishAny
    <3>2. pipeline'.sent = asked /\ ((pipeline'.running # {}) <=> (pipeline.sent < asked))
      BY <3>1, SettleOnce
    <3>3. asked' = asked
      BY <3>1 DEF Finish
    <3> QED
      BY <3>2, <3>3 DEF Promise!Finish
  <2>4. CASE Update
    BY <2>4 DEF Update, Promise!vars
  <2>5. CASE Tick
    <3>1. asked' = asked
      BY <2>5 DEF Tick
    <3> QED
      BY <2>0, <2>5, <3>1, TickKeepsAttempts DEF Promise!vars
  <2>6. CASE Land \/ \E r \in orphans : LandOrphan(r)
    BY <2>6 DEF Land, LandOrphan, CarryOut, Promise!vars
  <2>7. CASE PanelChanges
    BY <2>7 DEF PanelChanges, Promise!vars
  <2>8. CASE UNCHANGED vars
    BY <2>8 DEF vars, Promise!vars
  <2> QED
    BY <2>1, <2>2, <2>3, <2>4, <2>5, <2>6, <2>7, <2>8 DEF Next, Promise!Next
<1> QED
  BY <1>1, <1>2, PipelineInvariant, PTL DEF Spec
=============================================================================
