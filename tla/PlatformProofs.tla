---------------------------- MODULE PlatformProofs ----------------------------
(***************************************************************************)
(* The platform's bookkeeping, for any account, cache and number of reads  *)
(* under way: handlers and accessories agree, cycles exclude one another,  *)
(* and an accessory is removed on evidence only.                           *)
(*                                                                         *)
(* A discovery works on a list that grows old while it reads, beside       *)
(* refreshes and events.  The invariant says what it may rely on: it is    *)
(* the only one, nothing is registered that it did not list, and what it   *)
(* has read it still handles.                                              *)
(***************************************************************************)
EXTENDS Platform, FiniteSetTheorems, WellFoundedInduction, TLAPS

Kinds == {"none", "startup", "poll", "rediscovery", "targeted"}
Ats == {"free", "list", "partitions", "sensors"}

JobType ==
  [kind : Kinds, at : Ats, ids : SUBSET Devices, read : SUBSET Partitions,
   served : BOOLEAN, answer : SUBSET ({<<d>> : d \in Devices} \cup (Devices \X (Int \cup Readings))),
   aborted : BOOLEAN]

\* What a request may be answered: each device at most once, and only those asked for.
AnswerKept(at, ids, answer) ==
  /\ at = "list" => answer \subseteq {<<d>> : d \in Devices}
  /\ at = "partitions" => answer \subseteq (ids \cap Partitions) \X Nat
  /\ at = "sensors" => answer \subseteq (ids \cap Sensors) \X Readings
  /\ \A x, y \in answer : x[1] = y[1] => x = y

JobKept(job) ==
  /\ job.kind = "none" <=> job.at = "free"
  /\ job.at = "list" => IsDiscovery(job)
  /\ IsDiscovery(job) => job.ids \cap Ignored = {}
  /\ job.served => AnswerKept(job.at, job.ids, job.answer)

\* Startup and cycles: one of them at a time.
MainKinds == CycleKinds \cup {"startup"}

MainKept ==
  /\ \A j, k \in Jobs : jobs[j].kind \in MainKinds /\ jobs[k].kind \in MainKinds => j = k
  /\ inFlight <=> \E j \in Jobs : jobs[j].kind \in CycleKinds
  /\ phase = "polling" => \A j \in Jobs : jobs[j].kind # "startup"
  /\ phase = "starting" => ~inFlight

\* What the jobs' own fields say.
JobsSound ==
  /\ jobs \in [Jobs -> JobType] /\ \A j \in Jobs : JobKept(jobs[j])
  /\ MainKept

\* What a discovery relies on once it has the list.
DiscoveryKept ==
  \A j \in Jobs :
    IsDiscovery(jobs[j]) /\ jobs[j].at \in {"partitions", "sensors"}
      => accessories \subseteq jobs[j].ids /\ jobs[j].read \subseteq Handlers

TilesKept == Handlers \subseteq accessories /\ Handlers \cap Ignored = {}

OutsideKept ==
  /\ account \subseteq Devices
  /\ changes \in [Partitions -> Nat] /\ attributes \in [Sensors -> Readings]

HourKept == lists \in {0, 1} /\ (due => lists = 0)

PlatformInv ==
  /\ PlatformTypeOK /\ OutsideKept
  /\ JobsSound /\ DiscoveryKept /\ TilesKept
  /\ HourKept /\ RequestsHaveTimer /\ DownIsQuiet
-----------------------------------------------------------------------------
(* The sensors.                                                            *)

TileKept(tile) == tile \in Tiles /\ (tile.pulse => tile.shows = "triggered")

LEMMA ServiceKindType ==
  ASSUME NEW type \in Int
  PROVE  ServiceKind(type) \in {"none", "contact", "motion", "smoke"}
<1>1. CASE type = 1 BY <1>1 DEF ServiceKind
<1>2. CASE type = 2 BY <1>2 DEF ServiceKind
<1>3. CASE type = 5 BY <1>3 DEF ServiceKind
<1>4. CASE type \notin {1, 2, 5} BY <1>4 DEF ServiceKind
<1> QED BY <1>1, <1>2, <1>3, <1>4

LEMMA UpdateKeepsTile ==
  ASSUME NEW tile, TileKept(tile), NEW raw
  PROVE  TileKept(UpdateSensor(tile, raw)) /\ UpdateSensor(tile, raw).kind = tile.kind
<1>1. tile \in Tiles BY DEF TileKept
<1>2. ReadSensorState(raw.state, raw.status) \in {"rest", "triggered"} BY DEF ReadSensorState
<1> QED BY <1>1, <1>2 DEF TileKept, Tiles, UpdateSensor, Dispose

LEMMA SyncKeepsTile ==
  ASSUME NEW tile, TileKept(tile), NEW raw \in Readings
  PROVE  /\ TileKept(SyncSensor(tile, raw))
         /\ SyncSensor(tile, raw).kind # "none" <=> IsPublished(raw)
<1>1. tile \in Tiles /\ raw.type \in Int BY PlatformAssumption DEF TileKept
<1>2. ServiceKind(raw.type) \in {"none", "contact", "motion", "smoke"} BY <1>1, ServiceKindType
<1>3. CASE ~IsPublished(raw)
  <2>1. SyncSensor(tile, raw) = NoTile BY <1>3 DEF SyncSensor
  <2> QED BY <1>3, <2>1 DEF NoTile, TileKept, Tiles
<1>4. CASE IsPublished(raw)
  <2> DEFINE base == IF tile.kind = "none" THEN NewSensor(ServiceKind(raw.type)) ELSE tile
  <2>1. ServiceKind(raw.type) # "none" BY <1>4 DEF IsPublished
  <2>2. TileKept(base) /\ base.kind # "none"
    BY <1>1, <1>2, <2>1 DEF TileKept, Tiles, NewSensor, NoTile
  <2>3. SyncSensor(tile, raw) = UpdateSensor(base, raw) BY <1>4 DEF SyncSensor
  <2> HIDE DEF base
  <2> QED BY <1>4, <2>2, <2>3, UpdateKeepsTile
<1> QED BY <1>3, <1>4

LEMMA RefreshKeepsTile ==
  ASSUME NEW tile, TileKept(tile), NEW raw
  PROVE  TileKept(RefreshedSensor(tile, raw)) /\ RefreshedSensor(tile, raw).kind = tile.kind
BY UpdateKeepsTile DEF RefreshedSensor

LEMMA HintKeepsTile ==
  ASSUME NEW tile, TileKept(tile), NEW eventType \in EventTypes
  PROVE  TileKept(Hinted(tile, eventType)) /\ Hinted(tile, eventType).kind = tile.kind
<1> DEFINE hints == EventHint(tile.kind, eventType)
           hint == CHOOSE h \in hints : TRUE
<1>1. tile \in Tiles BY DEF TileKept
<1>2. hints \subseteq [shows : {"rest", "triggered"}, transient : BOOLEAN]
  <2>1. CASE tile.kind # "contact" BY <2>1 DEF EventHint
  <2>2. CASE tile.kind = "contact" /\ eventType = 0
    <3>1. hints = {[shows |-> "rest", transient |-> FALSE]} BY <2>2 DEF EventHint
    <3> QED BY <3>1
  <2>3. CASE tile.kind = "contact" /\ eventType = 15
    <3>1. hints = {[shows |-> "triggered", transient |-> FALSE]} BY <2>3 DEF EventHint
    <3> QED BY <3>1
  <2>4. CASE tile.kind = "contact" /\ eventType = 100
    <3>1. hints = {[shows |-> "triggered", transient |-> TRUE]} BY <2>4 DEF EventHint
    <3> QED BY <3>1
  <2>5. CASE tile.kind = "contact" /\ eventType = 55 BY <2>5 DEF EventHint
  <2> QED BY <2>1, <2>2, <2>3, <2>4, <2>5 DEF EventTypes
<1>3. CASE hints = {} BY <1>3 DEF Hinted
<1>4. CASE hints # {}
  <2>1. hint \in hints BY <1>4
  <2>2. Hinted(tile, eventType) = ApplyImmediateState(tile, hint.shows, hint.transient)
    BY <1>4 DEF Hinted
  <2> HIDE DEF hints, hint
  <2>3. hint.shows \in {"rest", "triggered"} /\ hint.transient \in BOOLEAN BY <1>2, <2>1
  <2> QED BY <1>1, <2>2, <2>3 DEF ApplyImmediateState, TileKept, Tiles
<1> QED BY <1>3, <1>4

LEMMA QuietKeepsTile ==
  ASSUME NEW tile, TileKept(tile)
  PROVE  /\ TileKept(PulseOver(tile)) /\ PulseOver(tile).kind = tile.kind
         /\ TileKept(Dispose(tile)) /\ Dispose(tile).kind = tile.kind
         /\ ~Dispose(tile).pulse
BY DEF TileKept, Tiles, PulseOver, ApplyImmediateState, Dispose
-----------------------------------------------------------------------------
(* The jobs.                                                               *)

LEMMA FreeJob ==
  ASSUME Free # {} PROVE NextFree \in Jobs /\ jobs[NextFree].at = "free"
<1>1. Free \subseteq Nat BY PlatformAssumption DEF Free
<1>2. PICK j \in Free : \A k \in Free : <<k, j>> \notin OpToRel(<, Nat)
  BY <1>1, NatLessThanWellFounded, WFMin
<1>3. \A k \in Free : j <= k
  <2>1. TAKE k \in Free
  <2>2. j \in Nat /\ k \in Nat /\ ~(k < j) BY <1>1, <1>2 DEF OpToRel
  <2> QED BY <2>2
<1>4. NextFree \in Free BY <1>3 DEF NextFree
<1> QED BY <1>4 DEF Free

LEMMA NoJobKept == NoJob \in JobType /\ JobKept(NoJob)
BY DEF NoJob, JobType, JobKept, Kinds, Ats, IsDiscovery

\* A new job, on the way to its first read.
Started(kind, at, ids) ==
  \E j \in Jobs, job \in JobType :
    /\ jobs[j].kind = "none" /\ jobs' = [jobs EXCEPT ![j] = job] /\ JobKept(job)
    /\ job.kind = kind /\ job.at = at /\ job.ids = ids /\ job.aborted = FALSE

LEMMA StartsOne ==
  ASSUME JobsSound, NEW kind \in Kinds \ {"none"}, NEW at \in Ats \ {"free"},
         NEW ids \in SUBSET Devices, Starts(kind, at, ids),
         kind \in {"startup", "rediscovery"} => at = "list" /\ ids = {},
         at = "list" => kind \in {"startup", "rediscovery"}
  PROVE  Started(kind, at, ids)
<1> DEFINE job == [NoJob EXCEPT !.kind = kind, !.at = at, !.ids = ids]
           j == NextFree
<1>1. Free # {} /\ jobs' = [jobs EXCEPT ![j] = job] BY DEF Starts
<1>2. j \in Jobs /\ jobs[j].at = "free" BY <1>1, FreeJob
<1>3. jobs[j].kind = "none" BY <1>2 DEF JobsSound, JobKept
<1>4. /\ job \in JobType /\ job.kind = kind /\ job.at = at /\ job.ids = ids
      /\ job.aborted = FALSE /\ job.served = FALSE
  BY DEF NoJob, JobType, Kinds, Ats
<1> HIDE DEF job, j
<1>5. JobKept(job) BY <1>4 DEF JobKept, IsDiscovery, Kinds, Ats
<1> QED BY <1>1, <1>2, <1>3, <1>4, <1>5 DEF Started

\* A job that goes on, or is served, or cancelled.
LEMMA JobGoesOn ==
  ASSUME JobsSound, NEW j \in Jobs, NEW job \in JobType, JobKept(job),
         jobs' = [jobs EXCEPT ![j] = job], job.kind = jobs[j].kind,
         UNCHANGED <<inFlight, phase>>
  PROVE  JobsSound'
<1>1. \A k \in Jobs : jobs'[k] = IF k = j THEN job ELSE jobs[k] BY DEF JobsSound
<1>2. \A k \in Jobs : jobs'[k].kind = jobs[k].kind BY <1>1
<1>3. jobs' \in [Jobs -> JobType] /\ \A k \in Jobs : JobKept(jobs[k])' BY <1>1 DEF JobsSound, JobKept, IsDiscovery
<1>4. MainKept' BY <1>2 DEF JobsSound, MainKept
<1> QED BY <1>3, <1>4 DEF JobsSound

\* A job that is over; startup's lets polling begin.
LEMMA JobEnds ==
  ASSUME JobsSound, NEW j \in Jobs, Ends(j),
         phase' = phase \/ (phase' = "polling" /\ jobs[j].kind = "startup")
  PROVE  JobsSound'
<1>1. \A k \in Jobs : jobs'[k] = IF k = j THEN NoJob ELSE jobs[k] BY DEF JobsSound, Ends
<1>2. jobs' \in [Jobs -> JobType] /\ \A k \in Jobs : JobKept(jobs[k])'
  BY <1>1, NoJobKept DEF JobsSound, JobKept, IsDiscovery, Ends
<1>3. \A k \in Jobs : jobs'[k].kind = IF k = j THEN "none" ELSE jobs[k].kind BY <1>1 DEF NoJob
<1>4. inFlight' = (inFlight /\ jobs[j].kind \notin CycleKinds) BY DEF Ends
<1>5. MainKept' BY <1>3, <1>4 DEF JobsSound, MainKept, MainKinds, CycleKinds
<1> QED BY <1>2, <1>5 DEF JobsSound

\* A job that begins.
LEMMA JobStarts ==
  ASSUME JobsSound, NEW j \in Jobs, NEW job \in JobType, JobKept(job),
         jobs' = [jobs EXCEPT ![j] = job], jobs[j].kind = "none", phase' = phase,
         \/ job.kind = "targeted" /\ inFlight' = inFlight
         \/ /\ job.kind = "startup" /\ phase = "starting" /\ inFlight' = inFlight
            /\ \A k \in Jobs : jobs[k].kind # "startup"
         \/ job.kind \in CycleKinds /\ phase = "polling" /\ ~inFlight /\ inFlight' = TRUE
  PROVE  JobsSound'
<1>1. \A k \in Jobs : jobs'[k] = IF k = j THEN job ELSE jobs[k] BY DEF JobsSound
<1>2. jobs' \in [Jobs -> JobType] /\ \A k \in Jobs : JobKept(jobs[k])' BY <1>1 DEF JobsSound, JobKept, IsDiscovery
<1>3. \A k \in Jobs : jobs'[k].kind = IF k = j THEN job.kind ELSE jobs[k].kind BY <1>1
<1>4. MainKept'
  <2>1. CASE job.kind = "targeted" /\ inFlight' = inFlight
    BY <1>3, <2>1 DEF JobsSound, MainKept, MainKinds, CycleKinds
  <2>2. CASE /\ job.kind = "startup" /\ phase = "starting" /\ inFlight' = inFlight
             /\ \A k \in Jobs : jobs[k].kind # "startup"
    BY <1>3, <2>2 DEF JobsSound, MainKept, MainKinds, CycleKinds
  <2>3. CASE job.kind \in CycleKinds /\ phase = "polling" /\ ~inFlight /\ inFlight' = TRUE
    BY <1>3, <2>3 DEF JobsSound, MainKept, MainKinds, CycleKinds
  <2> QED BY <2>1, <2>2, <2>3
<1> QED BY <1>2, <1>4 DEF JobsSound

\* A discovery after the step was one before it, with the same list and readings.
ReadsOn ==
  \A j \in Jobs :
    (IsDiscovery(jobs[j]) /\ jobs[j].at \in {"partitions", "sensors"})'
      => /\ IsDiscovery(jobs[j]) /\ jobs[j].at \in {"partitions", "sensors"}
         /\ jobs'[j].ids = jobs[j].ids /\ jobs'[j].read = jobs[j].read

\* Steps that neither publish nor remove anything.
LEMMA NothingPublished ==
  ASSUME DiscoveryKept, TilesKept, ReadsOn, accessories' = accessories, panels' = panels,
         \A s \in Sensors : sensors'[s].kind = sensors[s].kind
  PROVE  DiscoveryKept' /\ TilesKept' /\ Handlers' = Handlers
<1>1. Handlers' = Handlers BY DEF Handlers
<1>2. TilesKept' BY <1>1 DEF TilesKept
<1>3. DiscoveryKept' BY <1>1 DEF DiscoveryKept, ReadsOn
<1> QED BY <1>1, <1>2, <1>3

\* What an answer says of a device that was asked for.
LEMMA AnswerSays ==
  ASSUME JobsSound, NEW j \in Jobs, jobs[j].served, jobs[j].at \in {"partitions", "sensors"},
         NEW got \in SUBSET jobs[j].answer, NEW d \in Told(got)
  PROVE  /\ d \in jobs[j].ids /\ d \in Told(jobs[j].answer)
         /\ Said(d, got) = Said(d, jobs[j].answer)
         /\ jobs[j].at = "partitions" => d \in Partitions /\ Said(d, got) \in Nat
         /\ jobs[j].at = "sensors" => d \in Sensors /\ Said(d, got) \in Readings
<1> DEFINE answer == jobs[j].answer
           x == CHOOSE z \in About(d, got) : TRUE
           y == CHOOSE z \in About(d, answer) : TRUE
<1>1. AnswerKept(jobs[j].at, jobs[j].ids, answer) BY DEF JobsSound, JobKept
<1>2. x \in got /\ x[1] = d
  <2>1. PICK z \in got : z[1] = d BY DEF Told
  <2> QED BY <2>1 DEF About
<1>3. y \in answer /\ y[1] = d BY <1>2 DEF About
<1>4. Said(d, got) = x[2] /\ Said(d, answer) = y[2] BY DEF Said
<1> HIDE DEF x, y, answer
<1>5. x \in answer BY <1>2 DEF answer
<1>6. x = y BY <1>1, <1>2, <1>3, <1>5 DEF AnswerKept
<1>7. d \in Told(answer) BY <1>2, <1>5 DEF Told
<1>8. CASE jobs[j].at = "partitions"
  <2>1. x \in (jobs[j].ids \cap Partitions) \X Nat BY <1>1, <1>5, <1>8 DEF AnswerKept
  <2> QED BY <1>2, <1>4, <1>6, <1>7, <1>8, <2>1 DEF answer
<1>9. CASE jobs[j].at = "sensors"
  <2>1. x \in (jobs[j].ids \cap Sensors) \X Readings BY <1>1, <1>5, <1>9 DEF AnswerKept
  <2> QED BY <1>2, <1>4, <1>6, <1>7, <1>9, <2>1 DEF answer
<1> QED BY <1>8, <1>9
-----------------------------------------------------------------------------
(* The steps.                                                              *)

LEMMA FirstReadType ==
  ASSUME NEW ids \in SUBSET Devices
  PROVE  /\ FirstRead(ids) \in {"partitions", "sensors", "free"}
         /\ ids # {} <=> FirstRead(ids) # "free"
BY DEF FirstRead, Devices

LEMMA HandlersAreDevices == Handlers \subseteq Devices
BY DEF Handlers, Devices

\* Jobs that begin publish nothing.
LEMMA StartKeepsTiles ==
  ASSUME JobsSound, DiscoveryKept, TilesKept, UNCHANGED tiles,
         NEW j \in Jobs, NEW job, jobs' = [jobs EXCEPT ![j] = job],
         IsDiscovery(job) => job.at = "list"
  PROVE  DiscoveryKept' /\ TilesKept'
<1>1. \A k \in Jobs : jobs'[k] = IF k = j THEN job ELSE jobs[k] BY DEF JobsSound
<1>2. ReadsOn BY <1>1 DEF ReadsOn, IsDiscovery
<1> QED BY <1>2, NothingPublished DEF tiles

LEMMA DiscoveryStartsKeeps == PlatformInv /\ DiscoveryStarts => PlatformInv'
<1> SUFFICES ASSUME PlatformInv, DiscoveryStarts PROVE PlatformInv'
  OBVIOUS
<1>1. PICK j \in Jobs, job \in JobType :
        /\ jobs[j].kind = "none" /\ jobs' = [jobs EXCEPT ![j] = job] /\ JobKept(job)
        /\ job.kind = "startup" /\ job.at = "list" /\ job.ids = {} /\ job.aborted = FALSE
  <2>1. JobsSound /\ Starts("startup", "list", {}) BY DEF PlatformInv, DiscoveryStarts
  <2>2. "startup" \in Kinds \ {"none"} /\ "list" \in Ats \ {"free"} BY DEF Kinds, Ats
  <2>3. {} \in SUBSET Devices OBVIOUS
  <2>4. Started("startup", "list", {}) BY <2>1, <2>2, <2>3, StartsOne
  <2> QED BY <2>4 DEF Started
<1>2. JobsSound' BY <1>1, JobStarts DEF DiscoveryStarts, PlatformInv
<1>3. DiscoveryKept' /\ TilesKept' BY <1>1, StartKeepsTiles DEF DiscoveryStarts, PlatformInv
<1>4. PlatformTypeOK' /\ OutsideKept'
  BY DEF PlatformInv, DiscoveryStarts, PlatformTypeOK, OutsideKept, tiles, refresh, outside
<1>5. HourKept' /\ RequestsHaveTimer' /\ DownIsQuiet'
  BY DEF PlatformInv, DiscoveryStarts, HourKept, RequestsHaveTimer, DownIsQuiet, refresh
<1> QED BY <1>2, <1>3, <1>4, <1>5 DEF PlatformInv

LEMMA RediscoveryStartsKeeps == PlatformInv /\ RediscoveryStarts => PlatformInv'
<1> SUFFICES ASSUME PlatformInv, RediscoveryStarts PROVE PlatformInv'
  OBVIOUS
<1>1. PICK j \in Jobs, job \in JobType :
        /\ jobs[j].kind = "none" /\ jobs' = [jobs EXCEPT ![j] = job] /\ JobKept(job)
        /\ job.kind = "rediscovery" /\ job.at = "list" /\ job.ids = {} /\ job.aborted = FALSE
  <2>1. JobsSound /\ Starts("rediscovery", "list", {}) BY DEF PlatformInv, RediscoveryStarts
  <2>2. "rediscovery" \in Kinds \ {"none"} /\ "list" \in Ats \ {"free"} BY DEF Kinds, Ats
  <2>3. {} \in SUBSET Devices OBVIOUS
  <2>4. Started("rediscovery", "list", {}) BY <2>1, <2>2, <2>3, StartsOne
  <2> QED BY <2>4 DEF Started
<1>2. JobsSound' BY <1>1, JobStarts DEF RediscoveryStarts, PlatformInv, CycleKinds
<1>3. DiscoveryKept' /\ TilesKept' BY <1>1, StartKeepsTiles DEF RediscoveryStarts, PlatformInv
<1>4. PlatformTypeOK' /\ OutsideKept'
  BY DEF PlatformInv, RediscoveryStarts, PlatformTypeOK, OutsideKept, tiles, refresh, outside
<1>5. HourKept' /\ RequestsHaveTimer' /\ DownIsQuiet'
  BY DEF PlatformInv, RediscoveryStarts, HourKept, RequestsHaveTimer, DownIsQuiet, refresh
<1> QED BY <1>2, <1>3, <1>4, <1>5 DEF PlatformInv

LEMMA PollStartsKeeps == PlatformInv /\ PollStarts => PlatformInv'
<1> SUFFICES ASSUME PlatformInv, PollStarts PROVE PlatformInv'
  OBVIOUS
<1> DEFINE at == FirstRead(Handlers)
<1>1. at \in {"partitions", "sensors"} BY HandlersAreDevices, FirstReadType DEF PollStarts
<1>2. Starts("poll", at, Handlers) BY DEF PollStarts
<1> HIDE DEF at
<1>3. PICK j \in Jobs, job \in JobType :
        /\ jobs[j].kind = "none" /\ jobs' = [jobs EXCEPT ![j] = job] /\ JobKept(job)
        /\ job.kind = "poll" /\ job.at = at /\ job.aborted = FALSE
  <2>1. JobsSound BY DEF PlatformInv
  <2>2. "poll" \in Kinds \ {"none"} /\ at \in Ats \ {"free"} BY <1>1 DEF Kinds, Ats
  <2>3. Handlers \in SUBSET Devices BY HandlersAreDevices
  <2>4. Started("poll", at, Handlers) BY <1>1, <1>2, <2>1, <2>2, <2>3, StartsOne
  <2> QED BY <2>4 DEF Started
<1>4. JobsSound' BY <1>3, JobStarts DEF PollStarts, PlatformInv, CycleKinds
<1>5. DiscoveryKept' /\ TilesKept'
  BY <1>3, StartKeepsTiles DEF PollStarts, PlatformInv, IsDiscovery
<1>6. PlatformTypeOK' /\ OutsideKept'
  BY DEF PlatformInv, PollStarts, PlatformTypeOK, OutsideKept, tiles, refresh, outside
<1>7. HourKept' /\ RequestsHaveTimer' /\ DownIsQuiet'
  BY DEF PlatformInv, PollStarts, HourKept, RequestsHaveTimer, DownIsQuiet, refresh
<1> QED BY <1>4, <1>5, <1>6, <1>7 DEF PlatformInv

LEMMA DebounceFiresKeeps == PlatformInv /\ DebounceFires => PlatformInv'
<1> SUFFICES ASSUME PlatformInv, DebounceFires PROVE PlatformInv'
  OBVIOUS
<1> DEFINE ids == pending \cap Handlers
           at == FirstRead(ids)
<1>1. JobsSound' /\ DiscoveryKept' /\ TilesKept'
  <2>1. CASE ids = {}
    <3>1. UNCHANGED <<jobs, inFlight, phase, tiles>> BY <2>1 DEF DebounceFires
    <3>2. JobsSound' BY <3>1 DEF PlatformInv, JobsSound, MainKept, JobKept, IsDiscovery
    <3>3. ReadsOn BY <3>1 DEF ReadsOn, IsDiscovery
    <3> QED BY <3>1, <3>2, <3>3, NothingPublished DEF PlatformInv, tiles
  <2>2. CASE ids # {}
    <3>1. ids \in SUBSET Devices BY HandlersAreDevices
    <3>2. at \in {"partitions", "sensors"} BY <2>2, <3>1, FirstReadType
    <3>3. Starts("targeted", at, ids) BY <2>2 DEF DebounceFires
    <3> HIDE DEF at, ids
    <3>4. PICK j \in Jobs, job \in JobType :
            /\ jobs[j].kind = "none" /\ jobs' = [jobs EXCEPT ![j] = job] /\ JobKept(job)
            /\ job.kind = "targeted" /\ job.at = at /\ job.aborted = FALSE
      <4>1. JobsSound BY DEF PlatformInv
      <4>2. "targeted" \in Kinds \ {"none"} /\ at \in Ats \ {"free"} BY <3>2 DEF Kinds, Ats
      <4>3. Started("targeted", at, ids) BY <3>1, <3>2, <3>3, <4>1, <4>2, StartsOne
      <4> QED BY <4>3 DEF Started
    <3>5. JobsSound' BY <3>4, JobStarts DEF DebounceFires, PlatformInv
    <3> QED BY <3>4, <3>5, StartKeepsTiles DEF DebounceFires, PlatformInv, IsDiscovery
  <2> QED BY <2>1, <2>2
<1>2. PlatformTypeOK' /\ OutsideKept'
  BY DEF PlatformInv, DebounceFires, PlatformTypeOK, OutsideKept, tiles, outside
<1>3. HourKept' /\ RequestsHaveTimer' BY DEF PlatformInv, DebounceFires, HourKept, RequestsHaveTimer
<1>4. DownIsQuiet' BY DEF PlatformInv, DebounceFires, DownIsQuiet
<1> QED BY <1>1, <1>2, <1>3, <1>4 DEF PlatformInv

LEMMA HourPassesKeeps == PlatformInv /\ HourPasses => PlatformInv'
<1> SUFFICES ASSUME PlatformInv, HourPasses PROVE PlatformInv'
  OBVIOUS
<1>1. UNCHANGED <<jobs, inFlight, phase, tiles>> BY DEF HourPasses
<1>2. JobsSound' BY <1>1 DEF PlatformInv, JobsSound, MainKept, JobKept, IsDiscovery
<1>3. ReadsOn BY <1>1 DEF ReadsOn, IsDiscovery
<1>4. DiscoveryKept' /\ TilesKept' BY <1>1, <1>3, NothingPublished DEF PlatformInv, tiles
<1>5. PlatformTypeOK' /\ OutsideKept'
  BY DEF PlatformInv, HourPasses, PlatformTypeOK, OutsideKept, tiles, refresh, outside
<1>6. HourKept' /\ RequestsHaveTimer' /\ DownIsQuiet'
  BY DEF PlatformInv, HourPasses, HourKept, RequestsHaveTimer, DownIsQuiet, refresh
<1> QED BY <1>2, <1>4, <1>5, <1>6 DEF PlatformInv

LEMMA ServeKeeps == ASSUME NEW j \in Jobs PROVE PlatformInv /\ Serve(j) => PlatformInv'
<1> SUFFICES ASSUME PlatformInv, Serve(j) PROVE PlatformInv'
  OBVIOUS
<1> DEFINE old == jobs[j]
           asked == IF old.at = "list" THEN account
                    ELSE old.ids \cap account \cap (IF old.at = "partitions" THEN Partitions ELSE Sensors)
           said(d) == IF d \in Partitions THEN changes[d] ELSE attributes[d]
           answer == IF old.at = "list" THEN {<<d>> : d \in asked} ELSE {<<d, said(d)>> : d \in asked}
           job == [old EXCEPT !.served = TRUE, !.answer = answer]
<1>1. old \in JobType /\ JobKept(old) /\ old.at \in Ats \ {"free"}
  BY DEF PlatformInv, JobsSound, JobType, Serve
<1>2. jobs' = [jobs EXCEPT ![j] = job] BY DEF Serve
<1>3. AnswerKept(old.at, old.ids, answer)
  <2>1. CASE old.at = "list"
    <3>1. answer = {<<d>> : d \in account} BY <2>1
    <3>2. account \subseteq Devices BY DEF PlatformInv, OutsideKept
    <3> QED BY <2>1, <3>1, <3>2 DEF AnswerKept
  <2>2. CASE old.at = "partitions"
    <3>1. asked \subseteq old.ids \cap Partitions /\ answer = {<<d, said(d)>> : d \in asked} BY <2>2
    <3>2. \A d \in asked : said(d) \in Nat BY <3>1 DEF PlatformInv, OutsideKept
    <3> HIDE DEF asked, said, answer
    <3> QED BY <2>2, <3>1, <3>2 DEF AnswerKept
  <2>3. CASE old.at = "sensors"
    <3>1. asked \subseteq old.ids \cap Sensors /\ answer = {<<d, said(d)>> : d \in asked} BY <2>3
    <3>2. \A d \in asked : said(d) \in Readings
      BY <3>1, PlatformAssumption DEF PlatformInv, OutsideKept
    <3> HIDE DEF asked, said, answer
    <3> QED BY <2>3, <3>1, <3>2 DEF AnswerKept
  <2> QED BY <1>1, <2>1, <2>2, <2>3 DEF Ats
<1> HIDE DEF answer
<1>4. answer \in SUBSET ({<<d>> : d \in Devices} \cup (Devices \X (Int \cup Readings)))
  <2>1. old.ids \subseteq Devices BY <1>1 DEF JobType
  <2> QED BY <1>1, <1>3, <2>1 DEF AnswerKept, Ats
<1>5. /\ job \in JobType /\ job.kind = old.kind /\ job.at = old.at /\ job.ids = old.ids
      /\ job.read = old.read /\ job.answer = answer /\ job.aborted = old.aborted
  BY <1>1, <1>4 DEF JobType
<1> HIDE DEF job
<1>6. JobKept(job) BY <1>1, <1>3, <1>5 DEF JobKept, IsDiscovery
<1>7. JobsSound' BY <1>2, <1>5, <1>6, JobGoesOn DEF PlatformInv, Serve
<1>8. \A k \in Jobs : jobs'[k] = IF k = j THEN job ELSE jobs[k] BY <1>2 DEF PlatformInv, JobsSound
<1>9. ReadsOn BY <1>5, <1>8 DEF ReadsOn, IsDiscovery
<1>10. DiscoveryKept' /\ TilesKept' BY <1>9, NothingPublished DEF PlatformInv, Serve, tiles
<1>11. PlatformTypeOK' /\ OutsideKept'
  BY DEF PlatformInv, Serve, PlatformTypeOK, OutsideKept, tiles, refresh, outside
<1>12. HourKept' /\ RequestsHaveTimer' BY DEF PlatformInv, Serve, HourKept, RequestsHaveTimer, refresh
<1>13. DownIsQuiet' BY <1>5, <1>8 DEF PlatformInv, Serve, DownIsQuiet, refresh, tiles
<1> QED BY <1>7, <1>10, <1>11, <1>12, <1>13 DEF PlatformInv

LEMMA ReadFailsKeeps == ASSUME NEW j \in Jobs PROVE PlatformInv /\ ReadFails(j) => PlatformInv'
<1> SUFFICES ASSUME PlatformInv, ReadFails(j) PROVE PlatformInv'
  OBVIOUS
<1>1. Ends(j) /\ UNCHANGED <<phase, due, lists, tiles, refresh, outside>> BY DEF ReadFails
<1>2. JobsSound' BY <1>1, JobEnds DEF PlatformInv
<1>3. \A k \in Jobs : jobs'[k] = IF k = j THEN NoJob ELSE jobs[k] BY <1>1 DEF PlatformInv, JobsSound, Ends
<1>4. ReadsOn BY <1>3 DEF ReadsOn, IsDiscovery, NoJob
<1>5. DiscoveryKept' /\ TilesKept' BY <1>1, <1>4, NothingPublished DEF PlatformInv, tiles
<1>6. PlatformTypeOK' /\ OutsideKept'
  BY <1>1 DEF PlatformInv, Ends, PlatformTypeOK, OutsideKept, tiles, refresh, outside
<1>7. HourKept' /\ RequestsHaveTimer' BY <1>1 DEF PlatformInv, HourKept, RequestsHaveTimer, refresh
<1>8. DownIsQuiet' BY <1>1, <1>3 DEF PlatformInv, DownIsQuiet, NoJob, refresh, tiles
<1> QED BY <1>2, <1>5, <1>6, <1>7, <1>8 DEF PlatformInv

LEMMA DeadlineKeeps == ASSUME NEW j \in Jobs PROVE PlatformInv /\ Deadline(j) => PlatformInv'
<1> SUFFICES ASSUME PlatformInv, Deadline(j) PROVE PlatformInv'
  OBVIOUS
<1> DEFINE job == [jobs[j] EXCEPT !.aborted = TRUE]
<1>1. jobs[j] \in JobType /\ JobKept(jobs[j]) BY DEF PlatformInv, JobsSound
<1>2. jobs' = [jobs EXCEPT ![j] = job] BY DEF Deadline
<1>3. /\ job \in JobType /\ job.kind = jobs[j].kind /\ job.at = jobs[j].at /\ job.ids = jobs[j].ids
      /\ job.read = jobs[j].read /\ job.answer = jobs[j].answer /\ job.served = jobs[j].served
      /\ job.aborted
  BY <1>1 DEF JobType
<1> HIDE DEF job
<1>4. JobKept(job) BY <1>1, <1>3 DEF JobKept, IsDiscovery
<1>5. JobsSound' BY <1>2, <1>3, <1>4, JobGoesOn DEF PlatformInv, Deadline
<1>6. \A k \in Jobs : jobs'[k] = IF k = j THEN job ELSE jobs[k] BY <1>2 DEF PlatformInv, JobsSound
<1>7. ReadsOn BY <1>3, <1>6 DEF ReadsOn, IsDiscovery
<1>8. DiscoveryKept' /\ TilesKept' BY <1>7, NothingPublished DEF PlatformInv, Deadline, tiles
<1>9. PlatformTypeOK' /\ OutsideKept'
  BY DEF PlatformInv, Deadline, PlatformTypeOK, OutsideKept, tiles, refresh, outside
<1>10. HourKept' /\ RequestsHaveTimer' BY DEF PlatformInv, Deadline, HourKept, RequestsHaveTimer, refresh
<1>11. DownIsQuiet' BY <1>3, <1>6 DEF PlatformInv, Deadline, DownIsQuiet, refresh, tiles
<1> QED BY <1>5, <1>8, <1>9, <1>10, <1>11 DEF PlatformInv

NextReads == {"partitions", "sensors", "free"}

\* What an answer leaves of the jobs: the next read of this one, or its end.
WentOn(j, at, ids, read) ==
  /\ JobsSound' /\ phase' \in {"starting", "polling"} /\ inFlight' \in BOOLEAN
  /\ \A k \in Jobs : k # j => jobs'[k] = jobs[k]
  /\ IsDiscovery(jobs[j])' =>
       /\ IsDiscovery(jobs[j]) /\ jobs'[j].at = at
       /\ jobs'[j].ids = ids /\ jobs'[j].read = read

\* An answer has arrived: the job makes its next read, or is over.
LEMMA ReadGoesOn ==
  ASSUME PlatformInv, NEW j \in Jobs, jobs[j].at # "free", phase # "down",
         NEW at \in NextReads,
         NEW ids \in SUBSET Devices, IsDiscovery(jobs[j]) => ids \cap Ignored = {},
         NEW read \in SUBSET Partitions, GoesOn(j, at, ids, read)
  PROVE  WentOn(j, at, ids, read)
<1>1. jobs[j] \in JobType /\ phase \in {"starting", "polling"} /\ inFlight \in BOOLEAN
  BY DEF PlatformInv, JobsSound, PlatformTypeOK
<1>2. CASE at = "free"
  <2>1. Ends(j) /\ phase' = IF jobs[j].kind = "startup" THEN "polling" ELSE phase BY <1>2 DEF GoesOn
  <2>2. JobsSound' BY <2>1, JobEnds DEF PlatformInv
  <2>3. \A k \in Jobs : jobs'[k] = IF k = j THEN NoJob ELSE jobs[k]
    BY <2>1 DEF PlatformInv, JobsSound, Ends
  <2>4. ~IsDiscovery(jobs[j])' BY <2>3 DEF IsDiscovery, NoJob
  <2> QED BY <1>1, <2>1, <2>2, <2>3, <2>4 DEF Ends, WentOn
<1>3. CASE at # "free"
  <2> DEFINE job == [NoJob EXCEPT !.kind = jobs[j].kind, !.at = at, !.ids = ids, !.read = read]
  <2>1. jobs' = [jobs EXCEPT ![j] = job] /\ UNCHANGED <<inFlight, phase>> BY <1>3 DEF GoesOn
  <2>2. /\ job \in JobType /\ job.kind = jobs[j].kind /\ job.at = at /\ job.ids = ids
        /\ job.read = read /\ job.served = FALSE
    BY <1>1 DEF NoJob, JobType, Ats, Kinds, NextReads
  <2> HIDE DEF job
  <2>3. JobKept(job) BY <1>3, <2>2 DEF PlatformInv, JobsSound, JobKept, IsDiscovery, NextReads
  <2>4. JobsSound' BY <2>1, <2>2, <2>3, JobGoesOn DEF PlatformInv
  <2>5. \A k \in Jobs : jobs'[k] = IF k = j THEN job ELSE jobs[k] BY <2>1 DEF PlatformInv, JobsSound
  <2> QED BY <1>1, <2>1, <2>2, <2>4, <2>5 DEF IsDiscovery, WentOn
<1> QED BY <1>2, <1>3

\* Nothing arrives once the reads are cancelled.
LEMMA ArrivesAlive ==
  ASSUME PlatformInv, NEW j \in Jobs, NEW at \in Ats \ {"free"}, Arrives(j, at)
  PROVE  phase # "down" /\ jobs[j].at # "free" /\ JobKept(jobs[j]) /\ jobs[j] \in JobType
BY DEF PlatformInv, JobsSound, DownIsQuiet, Arrives

\* A discovery has no other beside it.
LEMMA OneDiscovery ==
  ASSUME JobsSound, NEW j \in Jobs, NEW k \in Jobs, IsDiscovery(jobs[j]), IsDiscovery(jobs[k])
  PROVE  j = k
BY DEF JobsSound, MainKept, MainKinds, CycleKinds, IsDiscovery

LEMMA ListArrivesKeeps == ASSUME NEW j \in Jobs PROVE PlatformInv /\ ListArrives(j) => PlatformInv'
<1> SUFFICES ASSUME PlatformInv, ListArrives(j) PROVE PlatformInv'
  OBVIOUS
<1> DEFINE listed == Told(jobs[j].answer)
           wanted == listed \ Ignored
           at == FirstRead(wanted)
<1>1. phase # "down" /\ jobs[j].at = "list" /\ jobs[j].served /\ JobKept(jobs[j])
  BY ArrivesAlive DEF ListArrives, Arrives, Ats
<1>2. IsDiscovery(jobs[j]) BY <1>1 DEF JobKept
<1>3. listed \subseteq Devices
  <2>1. jobs[j].answer \subseteq {<<d>> : d \in Devices} BY <1>1 DEF JobKept, AnswerKept
  <2> QED BY <2>1 DEF Told
<1>4. /\ panels' = [p \in Partitions |-> IF p \in listed THEN panels[p] ELSE NoPanel]
      /\ sensors' = [s \in Sensors |-> IF s \in listed THEN sensors[s] ELSE NoTile]
      /\ accessories' = accessories \cap wanted /\ GoesOn(j, at, wanted, {})
      /\ UNCHANGED <<due, lists, refresh, outside>>
  BY DEF ListArrives, RemoveStale
<1> HIDE DEF listed
<1>5. at \in {"partitions", "sensors", "free"} BY <1>3, FirstReadType
<1>6. wanted \in SUBSET Devices /\ wanted \cap Ignored = {} BY <1>3
<1> HIDE DEF wanted, at
<1>7. {} \in SUBSET Partitions OBVIOUS
<1>8. /\ JobsSound' /\ phase' \in {"starting", "polling"} /\ inFlight' \in BOOLEAN
      /\ \A k \in Jobs : k # j => jobs'[k] = jobs[k]
      /\ IsDiscovery(jobs[j])' => jobs'[j].ids = wanted /\ jobs'[j].read = {}
  <2>1. GoesOn(j, at, wanted, {}) BY <1>4
  <2>2. jobs[j].at # "free" /\ phase # "down" BY <1>1
  <2>3. at \in NextReads BY <1>5 DEF NextReads
  <2>4. WentOn(j, at, wanted, {}) BY <1>6, <1>7, <2>1, <2>2, <2>3, ReadGoesOn
  <2> QED BY <2>4 DEF WentOn
<1>9. Handlers' = Handlers \cap listed
  <2>1. \A p \in Partitions : panels'[p] # NoPanel <=> panels[p] # NoPanel /\ p \in listed BY <1>4
  <2>2. \A s \in Sensors : sensors'[s].kind # "none" <=> sensors[s].kind # "none" /\ s \in listed
    BY <1>4 DEF NoTile
  <2>3. Handlers' = {p \in Partitions : panels'[p] # NoPanel} \cup {s \in Sensors : sensors'[s].kind # "none"}
    BY DEF Handlers
  <2> QED BY <2>1, <2>2, <2>3 DEF Handlers
<1>10. TilesKept' BY <1>4, <1>9 DEF PlatformInv, TilesKept, wanted
<1>11. DiscoveryKept'
  <2> SUFFICES ASSUME NEW k \in Jobs, IsDiscovery(jobs[k])'
               PROVE  accessories' \subseteq jobs'[k].ids /\ jobs'[k].read \subseteq Handlers'
    BY DEF DiscoveryKept
  <2>1. k = j
    <3>1. k # j => IsDiscovery(jobs[k]) BY <1>8 DEF IsDiscovery
    <3> QED BY <1>2, <3>1, OneDiscovery DEF PlatformInv
  <2> QED BY <1>4, <1>8, <2>1
<1>12. PlatformTypeOK' /\ OutsideKept'
  <2>1. panels' \in [Partitions -> Int] BY <1>4 DEF PlatformInv, PlatformTypeOK, NoPanel
  <2>2. NoTile \in Tiles /\ ~NoTile.pulse BY DEF NoTile, Tiles
  <2>3. sensors' \in [Sensors -> Tiles] /\ \A s \in Sensors : sensors'[s].pulse => sensors'[s].shows = "triggered"
    BY <1>4, <2>2 DEF PlatformInv, PlatformTypeOK
  <2> QED BY <1>4, <1>8, <2>1, <2>3 DEF PlatformInv, PlatformTypeOK, OutsideKept, refresh, outside
<1>13. HourKept' /\ RequestsHaveTimer' /\ DownIsQuiet'
  BY <1>4, <1>8 DEF PlatformInv, HourKept, RequestsHaveTimer, DownIsQuiet, refresh
<1> QED BY <1>8, <1>10, <1>11, <1>12, <1>13 DEF PlatformInv

LEMMA PartitionsArriveKeeps ==
  ASSUME NEW j \in Jobs, NEW got \in Details(j)
  PROVE  PlatformInv /\ PartitionsArrive(j, got) => PlatformInv'
<1> SUFFICES ASSUME PlatformInv, PartitionsArrive(j, got) PROVE PlatformInv'
  OBVIOUS
<1> DEFINE job == jobs[j]
           told == Told(got)
           at == NextRead("partitions", job.ids)
           synced == IF IsDiscovery(job) THEN told ELSE told \cap Handlers
<1>1. phase # "down" /\ job.at = "partitions" /\ job.served /\ JobKept(job) /\ job \in JobType
  BY ArrivesAlive DEF PartitionsArrive, Arrives, Ats
<1>2. \A p \in told : p \in job.ids /\ p \in Partitions /\ Said(p, got) \in Nat
  BY <1>1, AnswerSays DEF PlatformInv, Details
<1>3. /\ panels' = [p \in Partitions |-> IF p \in synced THEN Said(p, got) ELSE panels[p]]
      /\ accessories' = Pruned(job, at, Handlers \cup synced, accessories \cup synced, told)
      /\ GoesOn(j, at, job.ids, told)
      /\ UNCHANGED <<due, lists, sensors, refresh, outside>>
  BY DEF PartitionsArrive
<1>4. at \in {"partitions", "sensors", "free"} BY DEF NextRead
<1>5. told \in SUBSET Partitions /\ synced \subseteq told /\ (IsDiscovery(job) => synced = told)
  BY <1>2
<1>6. job.ids \in SUBSET Devices /\ (IsDiscovery(job) => job.ids \cap Ignored = {})
  BY <1>1 DEF JobType, JobKept
<1>7. ~IsDiscovery(job) => synced \subseteq Handlers OBVIOUS
<1> HIDE DEF told, synced, at
<1>8. /\ JobsSound' /\ phase' \in {"starting", "polling"} /\ inFlight' \in BOOLEAN
      /\ \A k \in Jobs : k # j => jobs'[k] = jobs[k]
      /\ IsDiscovery(jobs[j])' =>
           /\ IsDiscovery(job) /\ jobs'[j].at = at
           /\ jobs'[j].ids = job.ids /\ jobs'[j].read = told
  <2> DEFINE ids == job.ids
  <2>1. GoesOn(j, at, ids, told) BY <1>3
  <2>2. jobs[j].at # "free" /\ phase # "down" BY <1>1
  <2>3. ids \in SUBSET Devices /\ (IsDiscovery(jobs[j]) => ids \cap Ignored = {}) BY <1>6
  <2>4. told \in SUBSET Partitions BY <1>5
  <2> HIDE DEF ids
  <2>5. at \in NextReads BY <1>4 DEF NextReads
  <2>6. WentOn(j, at, ids, told) BY <2>1, <2>2, <2>3, <2>4, <2>5, ReadGoesOn
  <2> QED BY <2>6 DEF ids, WentOn
<1>9. Handlers' = Handlers \cup synced
  <2>1. \A p \in Partitions : panels'[p] # NoPanel <=> panels[p] # NoPanel \/ p \in synced
    BY <1>2, <1>3, <1>5 DEF NoPanel
  <2>2. Handlers' = {p \in Partitions : panels'[p] # NoPanel} \cup {s \in Sensors : sensors'[s].kind # "none"}
    BY DEF Handlers
  <2> QED BY <1>3, <1>5, <2>1, <2>2 DEF Handlers
<1>10. /\ Handlers \cup synced \subseteq accessories' /\ accessories' \subseteq accessories \cup synced
       /\ ~IsDiscovery(job) => accessories' = accessories
  <2>1. Handlers \subseteq accessories BY DEF PlatformInv, TilesKept
  <2> QED BY <1>3, <1>7, <2>1 DEF Pruned
<1>11. TilesKept'
  <2>1. Handlers \cap Ignored = {} BY DEF PlatformInv, TilesKept
  <2>2. synced \cap Ignored = {}
    <3>1. CASE IsDiscovery(job) BY <1>2, <1>5, <1>6, <3>1
    <3>2. CASE ~IsDiscovery(job) BY <1>7, <2>1, <3>2
    <3> QED BY <3>1, <3>2
  <2> QED BY <1>9, <1>10, <2>1, <2>2 DEF TilesKept
<1>12. DiscoveryKept'
  <2> SUFFICES ASSUME NEW k \in Jobs, IsDiscovery(jobs[k])', jobs'[k].at \in {"partitions", "sensors"}
               PROVE  accessories' \subseteq jobs'[k].ids /\ jobs'[k].read \subseteq Handlers'
    BY DEF DiscoveryKept
  <2>1. CASE k = j
    <3>1. IsDiscovery(job) /\ jobs'[j].ids = job.ids /\ jobs'[j].read = told BY <1>8, <2>1
    <3>2. accessories \subseteq job.ids BY <1>1, <3>1 DEF PlatformInv, DiscoveryKept
    <3> QED BY <1>2, <1>5, <1>9, <1>10, <2>1, <3>1, <3>2
  <2>2. CASE k # j
    <3>1. jobs'[k] = jobs[k] /\ IsDiscovery(jobs[k]) BY <1>8, <2>2 DEF IsDiscovery
    <3>2. accessories \subseteq jobs[k].ids /\ jobs[k].read \subseteq Handlers
      BY <3>1 DEF PlatformInv, DiscoveryKept
    <3>3. ~IsDiscovery(job) BY <2>2, <3>1, OneDiscovery DEF PlatformInv
    <3> QED BY <1>9, <1>10, <3>1, <3>2, <3>3
  <2> QED BY <2>1, <2>2
<1>13. PlatformTypeOK' /\ OutsideKept'
  <2>1. panels' \in [Partitions -> Int] BY <1>2, <1>3, <1>5 DEF PlatformInv, PlatformTypeOK
  <2>2. accessories' \subseteq Devices BY <1>5, <1>10 DEF PlatformInv, PlatformTypeOK, Devices
  <2> QED BY <1>3, <1>8, <2>1, <2>2 DEF PlatformInv, PlatformTypeOK, OutsideKept, refresh, outside
<1>14. HourKept' /\ RequestsHaveTimer' /\ DownIsQuiet'
  BY <1>3, <1>8 DEF PlatformInv, HourKept, RequestsHaveTimer, DownIsQuiet, refresh
<1> QED BY <1>8, <1>11, <1>12, <1>13, <1>14 DEF PlatformInv

LEMMA SensorsArriveKeeps ==
  ASSUME NEW j \in Jobs, NEW got \in Details(j)
  PROVE  PlatformInv /\ SensorsArrive(j, got) => PlatformInv'
<1> SUFFICES ASSUME PlatformInv, SensorsArrive(j, got) PROVE PlatformInv'
  OBVIOUS
<1> DEFINE job == jobs[j]
           told == Told(got)
           next == [s \in Sensors |->
                      IF s \notin told THEN sensors[s]
                      ELSE IF IsDiscovery(job) THEN SyncSensor(sensors[s], Said(s, got))
                      ELSE RefreshedSensor(sensors[s], Said(s, got))]
           known == {s \in Sensors : next[s].kind # "none"}
           created == IF IsDiscovery(job) THEN known ELSE {}
           panelled == Handlers \cap Partitions
<1>1. phase # "down" /\ job.at = "sensors" /\ job.served /\ JobKept(job) /\ job \in JobType
  BY ArrivesAlive DEF SensorsArrive, Arrives, Ats
<1>2. \A s \in told : s \in job.ids /\ s \in Sensors /\ Said(s, got) \in Readings
  BY <1>1, AnswerSays DEF PlatformInv, Details
<1>3. /\ sensors' = next
      /\ accessories' = Pruned(job, "free", panelled \cup known, accessories \cup created, job.read \cup told)
      /\ GoesOn(j, "free", {}, {})
      /\ UNCHANGED <<due, lists, panels, refresh, outside>>
  BY DEF SensorsArrive
<1>4. \A s \in Sensors : TileKept(sensors[s]) BY DEF PlatformInv, PlatformTypeOK, TileKept
<1>5. \A s \in Sensors : TileKept(next[s]) /\ (~IsDiscovery(job) => next[s].kind = sensors[s].kind)
  <2> SUFFICES ASSUME NEW s \in Sensors
               PROVE  TileKept(next[s]) /\ (~IsDiscovery(job) => next[s].kind = sensors[s].kind)
    OBVIOUS
  <2>1. CASE s \notin told BY <1>4, <2>1
  <2>2. CASE s \in told /\ IsDiscovery(job)
    <3>1. next[s] = SyncSensor(sensors[s], Said(s, got)) BY <2>2
    <3> HIDE DEF next
    <3> QED BY <1>2, <1>4, <2>2, <3>1, SyncKeepsTile
  <2>3. CASE s \in told /\ ~IsDiscovery(job)
    <3>1. next[s] = RefreshedSensor(sensors[s], Said(s, got)) BY <2>3
    <3> HIDE DEF next
    <3> QED BY <1>2, <1>4, <2>3, <3>1, RefreshKeepsTile
  <2> QED BY <2>1, <2>2, <2>3
<1>6. \A s \in Sensors : s \notin told => next[s] = sensors[s] OBVIOUS
<1>7. sensors' \in [Sensors -> Tiles] /\ \A s \in Sensors : TileKept(sensors'[s])
  <2>1. \A s \in Sensors : next[s] \in Tiles BY <1>5 DEF TileKept
  <2> QED BY <1>3, <1>5, <2>1
<1> HIDE DEF next
<1>8. Handlers' = panelled \cup known
  <2>1. Handlers' = {p \in Partitions : panels'[p] # NoPanel} \cup {s \in Sensors : sensors'[s].kind # "none"}
    BY DEF Handlers
  <2>2. panelled = {p \in Partitions : panels[p] # NoPanel}
    BY PlatformAssumption DEF Handlers
  <2> HIDE DEF panelled
  <2> QED BY <1>3, <2>1, <2>2
<1>9. ~IsDiscovery(job) => Handlers' = Handlers /\ accessories' = accessories
  <2>1. ASSUME ~IsDiscovery(job) PROVE known = {s \in Sensors : sensors[s].kind # "none"}
    BY <1>5, <2>1
  <2>2. Handlers = panelled \cup {s \in Sensors : sensors[s].kind # "none"}
    BY PlatformAssumption DEF Handlers
  <2>3. ~IsDiscovery(job) => accessories' = accessories BY <1>3 DEF Pruned
  <2> HIDE DEF panelled, known
  <2> QED BY <1>8, <2>1, <2>2, <2>3
<1>10. Handlers' \subseteq accessories' /\ accessories' \subseteq accessories \cup Sensors
  <2>1. Handlers \subseteq accessories BY DEF PlatformInv, TilesKept
  <2>2. CASE IsDiscovery(job)
    <3>1. accessories' = (accessories \cup known) \cap ((panelled \cup known) \cup (job.ids \ (job.read \cup told)))
      BY <1>3, <2>2 DEF Pruned
    <3>2. panelled \subseteq accessories BY <2>1
    <3> HIDE DEF panelled
    <3> QED BY <1>8, <3>1, <3>2
  <2>3. CASE ~IsDiscovery(job) BY <1>9, <2>1, <2>3
  <2> QED BY <2>2, <2>3
<1>11. Handlers' \cap Ignored = {}
  <2>1. Handlers \cap Ignored = {} BY DEF PlatformInv, TilesKept
  <2>2. CASE IsDiscovery(job)
    <3>1. \A s \in known : s \in Handlers \/ s \in told BY <1>6 DEF Handlers
    <3>2. told \cap Ignored = {} BY <1>1, <1>2, <2>2 DEF JobKept
    <3> HIDE DEF known, told
    <3> QED BY <1>8, <2>1, <3>1, <3>2
  <2>3. CASE ~IsDiscovery(job) BY <1>9, <2>1, <2>3
  <2> QED BY <2>2, <2>3
<1>12. TilesKept' BY <1>10, <1>11 DEF TilesKept
<1>13. "free" \in NextReads /\ {} \in SUBSET Devices /\ {} \in SUBSET Partitions
  BY DEF NextReads
<1>14. /\ JobsSound' /\ phase' \in {"starting", "polling"} /\ inFlight' \in BOOLEAN
       /\ \A k \in Jobs : k # j => jobs'[k] = jobs[k]
       /\ IsDiscovery(jobs[j])' => IsDiscovery(job) /\ jobs'[j].at = "free"
  <2>1. GoesOn(j, "free", {}, {}) /\ {} \cap Ignored = {} BY <1>3
  <2>2. jobs[j].at # "free" /\ phase # "down" BY <1>1
  <2>3. WentOn(j, "free", {}, {}) BY <1>13, <2>1, <2>2, ReadGoesOn
  <2> QED BY <2>3 DEF WentOn
<1>15. DiscoveryKept'
  <2> SUFFICES ASSUME NEW k \in Jobs, IsDiscovery(jobs[k])', jobs'[k].at \in {"partitions", "sensors"}
               PROVE  accessories' \subseteq jobs'[k].ids /\ jobs'[k].read \subseteq Handlers'
    BY DEF DiscoveryKept
  <2>1. k # j BY <1>14
  <2>2. jobs'[k] = jobs[k] /\ IsDiscovery(jobs[k]) BY <1>14, <2>1 DEF IsDiscovery
  <2>3. accessories \subseteq jobs[k].ids /\ jobs[k].read \subseteq Handlers
    BY <2>2 DEF PlatformInv, DiscoveryKept
  <2>4. ~IsDiscovery(job) BY <2>1, <2>2, OneDiscovery DEF PlatformInv
  <2> QED BY <1>9, <2>2, <2>3, <2>4
<1>16. PlatformTypeOK' /\ OutsideKept'
  <2>1. accessories' \subseteq Devices BY <1>10 DEF PlatformInv, PlatformTypeOK, Devices
  <2> QED BY <1>3, <1>7, <1>14, <2>1
      DEF PlatformInv, PlatformTypeOK, OutsideKept, TileKept, refresh, outside
<1>17. HourKept' /\ RequestsHaveTimer' /\ DownIsQuiet'
  BY <1>3, <1>14 DEF PlatformInv, HourKept, RequestsHaveTimer, DownIsQuiet, refresh
<1> QED BY <1>12, <1>14, <1>15, <1>16, <1>17 DEF PlatformInv

\* Steps of HomeKit, the stream, the timers and the world leave the jobs alone.
LEMMA JobsStay ==
  ASSUME JobsSound, DiscoveryKept, TilesKept, HourKept, DownIsQuiet, UNCHANGED core,
         accessories' = accessories, panels' = panels,
         \A s \in Sensors : sensors'[s].kind = sensors[s].kind
  PROVE  JobsSound' /\ DiscoveryKept' /\ TilesKept' /\ HourKept'
<1>1. UNCHANGED <<jobs, inFlight, phase, due, lists>> BY DEF core
<1>2. JobsSound' BY <1>1 DEF JobsSound, MainKept, JobKept, IsDiscovery
<1>3. ReadsOn BY <1>1 DEF ReadsOn, IsDiscovery
<1>4. HourKept' BY <1>1 DEF HourKept
<1> QED BY <1>2, <1>3, <1>4, NothingPublished

LEMMA AsksKeeps ==
  ASSUME NEW d \in Devices, PlatformInv, RequestDeviceRefresh(d), phase' = phase, UNCHANGED <<jobs>>,
         \A s \in Sensors : phase = "down" => ~sensors'[s].pulse
  PROVE  /\ pending' \subseteq Devices /\ refreshTimer' \in BOOLEAN
         /\ RequestsHaveTimer' /\ DownIsQuiet'
<1>1. pending \subseteq Devices /\ refreshTimer \in BOOLEAN BY DEF PlatformInv, PlatformTypeOK
<1>2. CASE phase = "down"
  BY <1>1, <1>2 DEF PlatformInv, RequestDeviceRefresh, refresh, RequestsHaveTimer, DownIsQuiet
<1>3. CASE phase # "down"
  BY <1>1, <1>3 DEF PlatformInv, RequestDeviceRefresh, refresh, RequestsHaveTimer, DownIsQuiet
<1> QED BY <1>2, <1>3

LEMMA AccessoryAsksKeeps ==
  ASSUME NEW p \in Partitions PROVE PlatformInv /\ AccessoryAsks(p) => PlatformInv'
<1> SUFFICES ASSUME PlatformInv, AccessoryAsks(p) PROVE PlatformInv'
  OBVIOUS
<1>1. JobsSound' /\ DiscoveryKept' /\ TilesKept' /\ HourKept'
  BY JobsStay DEF PlatformInv, AccessoryAsks, tiles
<1>2. /\ pending' \subseteq Devices /\ refreshTimer' \in BOOLEAN
      /\ RequestsHaveTimer' /\ DownIsQuiet'
  <2>1. p \in Devices /\ RequestDeviceRefresh(p) /\ phase' = phase /\ UNCHANGED <<jobs>>
    BY DEF AccessoryAsks, core, Devices
  <2>2. \A s \in Sensors : phase = "down" => ~sensors'[s].pulse
    BY DEF AccessoryAsks, tiles, PlatformInv, DownIsQuiet
  <2> QED BY <2>1, <2>2, AsksKeeps
<1>3. PlatformTypeOK' /\ OutsideKept'
  BY <1>2 DEF PlatformInv, AccessoryAsks, PlatformTypeOK, OutsideKept, core, tiles
<1> QED BY <1>1, <1>2, <1>3 DEF PlatformInv

LEMMA EventArrivesKeeps ==
  ASSUME NEW d \in Devices, NEW e \in EventTypes
  PROVE  PlatformInv /\ EventArrives(d, e) => PlatformInv'
<1> SUFFICES ASSUME PlatformInv, EventArrives(d, e) PROVE PlatformInv'
  OBVIOUS
<1>1. \A s \in Sensors : TileKept(sensors[s]) BY DEF PlatformInv, PlatformTypeOK, TileKept
<1>2. /\ sensors' \in [Sensors -> Tiles]
      /\ \A s \in Sensors : TileKept(sensors'[s]) /\ sensors'[s].kind = sensors[s].kind
  <2>1. sensors \in [Sensors -> Tiles] BY DEF PlatformInv, PlatformTypeOK
  <2>2. CASE d \notin Sensors BY <1>1, <2>1, <2>2 DEF EventArrives
  <2>3. CASE d \in Sensors
    <3> DEFINE hinted == Hinted(sensors[d], e)
    <3>1. TileKept(hinted) /\ hinted.kind = sensors[d].kind BY <1>1, <2>3, HintKeepsTile
    <3>2. sensors' = [sensors EXCEPT ![d] = hinted] BY <2>3 DEF EventArrives
    <3>3. hinted \in Tiles BY <3>1 DEF TileKept
    <3> HIDE DEF hinted
    <3> QED BY <1>1, <2>1, <3>1, <3>2, <3>3
  <2> QED BY <2>2, <2>3
<1>3. UNCHANGED core /\ phase = "polling" /\ UNCHANGED <<panels, accessories>>
  BY DEF EventArrives
<1>4. JobsSound' /\ DiscoveryKept' /\ TilesKept' /\ HourKept'
  BY <1>2, <1>3, JobsStay DEF PlatformInv
<1>5. /\ pending' \subseteq Devices /\ refreshTimer' \in BOOLEAN
      /\ RequestsHaveTimer' /\ DownIsQuiet'
  <2>1. RequestDeviceRefresh(d) /\ phase' = phase /\ UNCHANGED <<jobs>> BY <1>3 DEF EventArrives, core
  <2> QED BY <1>3, <2>1, AsksKeeps
<1>6. PlatformTypeOK' /\ OutsideKept'
  BY <1>2, <1>3, <1>5 DEF PlatformInv, EventArrives, PlatformTypeOK, OutsideKept, TileKept, core
<1> QED BY <1>4, <1>5, <1>6 DEF PlatformInv

LEMMA PulseTimerKeeps ==
  ASSUME NEW s \in Sensors PROVE PlatformInv /\ PulseTimer(s) => PlatformInv'
<1> SUFFICES ASSUME PlatformInv, PulseTimer(s) PROVE PlatformInv'
  OBVIOUS
<1> DEFINE over == PulseOver(sensors[s])
<1>1. \A t \in Sensors : TileKept(sensors[t]) BY DEF PlatformInv, PlatformTypeOK, TileKept
<1>2. TileKept(over) /\ over.kind = sensors[s].kind BY <1>1, QuietKeepsTile
<1>3. over \in Tiles BY <1>2 DEF TileKept
<1>4. sensors' = [sensors EXCEPT ![s] = over] BY DEF PulseTimer
<1> HIDE DEF over
<1>5. /\ sensors' \in [Sensors -> Tiles]
      /\ \A t \in Sensors : TileKept(sensors'[t]) /\ sensors'[t].kind = sensors[t].kind
  BY <1>1, <1>2, <1>3, <1>4 DEF PlatformInv, PlatformTypeOK
<1>6. UNCHANGED <<core, panels, accessories, refresh, outside>> BY DEF PulseTimer
<1>7. JobsSound' /\ DiscoveryKept' /\ TilesKept' /\ HourKept'
  BY <1>5, <1>6, JobsStay DEF PlatformInv
<1>8. PlatformTypeOK' /\ OutsideKept'
  BY <1>5, <1>6 DEF PlatformInv, PlatformTypeOK, OutsideKept, TileKept, core, refresh, outside
<1>9. phase # "down" BY DEF PlatformInv, DownIsQuiet, PulseTimer
<1>10. RequestsHaveTimer' /\ DownIsQuiet'
  BY <1>6, <1>9 DEF PlatformInv, RequestsHaveTimer, DownIsQuiet, core, refresh
<1> QED BY <1>7, <1>8, <1>10 DEF PlatformInv

LEMMA OutsideKeeps ==
  ASSUME PlatformInv, UNCHANGED <<core, tiles, refresh>>, OutsideKept'
  PROVE  PlatformInv'
<1>1. JobsSound' /\ DiscoveryKept' /\ TilesKept' /\ HourKept' BY JobsStay DEF PlatformInv, tiles
<1>2. PlatformTypeOK' BY DEF PlatformInv, PlatformTypeOK, core, tiles, refresh
<1>3. RequestsHaveTimer' /\ DownIsQuiet'
  BY DEF PlatformInv, RequestsHaveTimer, DownIsQuiet, core, tiles, refresh
<1> QED BY <1>1, <1>2, <1>3 DEF PlatformInv

LEMMA ShutdownKeeps == PlatformInv /\ Shutdown => PlatformInv'
<1> SUFFICES ASSUME PlatformInv, Shutdown PROVE PlatformInv'
  OBVIOUS
<1> DEFINE cancelled(j) == IF jobs[j].at = "free" THEN NoJob ELSE [jobs[j] EXCEPT !.aborted = TRUE]
<1>1. \A j \in Jobs : jobs[j] \in JobType /\ JobKept(jobs[j]) BY DEF PlatformInv, JobsSound
<1>2. jobs' = [j \in Jobs |-> cancelled(j)] BY DEF Shutdown
<1>3. \A j \in Jobs : /\ cancelled(j) \in JobType /\ JobKept(cancelled(j))
                      /\ cancelled(j).kind = jobs[j].kind
                      /\ cancelled(j).at # "free" =>
                           /\ cancelled(j).at = jobs[j].at /\ cancelled(j).ids = jobs[j].ids
                           /\ cancelled(j).read = jobs[j].read /\ cancelled(j).aborted
  <2> SUFFICES ASSUME NEW j \in Jobs
               PROVE  /\ cancelled(j) \in JobType /\ JobKept(cancelled(j))
                      /\ cancelled(j).kind = jobs[j].kind
                      /\ cancelled(j).at # "free" =>
                           /\ cancelled(j).at = jobs[j].at /\ cancelled(j).ids = jobs[j].ids
                           /\ cancelled(j).read = jobs[j].read /\ cancelled(j).aborted
    OBVIOUS
  <2>1. CASE jobs[j].at = "free"
    <3>1. cancelled(j) = NoJob BY <2>1
    <3>2. jobs[j].kind = "none" BY <1>1, <2>1 DEF JobKept
    <3>3. NoJob.kind = "none" /\ NoJob.at = "free" BY DEF NoJob
    <3> HIDE DEF cancelled
    <3> QED BY <3>1, <3>2, <3>3, NoJobKept
  <2>2. CASE jobs[j].at # "free"
    <3> DEFINE job == [jobs[j] EXCEPT !.aborted = TRUE]
    <3>1. /\ job \in JobType /\ job.kind = jobs[j].kind /\ job.at = jobs[j].at /\ job.ids = jobs[j].ids
          /\ job.read = jobs[j].read /\ job.answer = jobs[j].answer /\ job.served = jobs[j].served
          /\ job.aborted
      BY <1>1 DEF JobType
    <3>2. cancelled(j) = job BY <2>2
    <3> HIDE DEF job, cancelled
    <3>3. JobKept(job) BY <1>1, <3>1 DEF JobKept, IsDiscovery
    <3> QED BY <3>1, <3>2, <3>3
  <2> QED BY <2>1, <2>2
<1> HIDE DEF cancelled
<1>4. \A j \in Jobs : jobs'[j] = cancelled(j) BY <1>2
<1>5. JobsSound'
  <2>1. jobs' \in [Jobs -> JobType] BY <1>2, <1>3
  <2>2. \A j \in Jobs : JobKept(jobs[j])' BY <1>3, <1>4 DEF JobKept, IsDiscovery
  <2>3. \A j \in Jobs : jobs'[j].kind = jobs[j].kind BY <1>3, <1>4
  <2>4. MainKept' BY <2>3 DEF PlatformInv, JobsSound, MainKept, Shutdown
  <2> QED BY <2>1, <2>2, <2>4 DEF JobsSound
<1>6. ReadsOn BY <1>3, <1>4 DEF ReadsOn, IsDiscovery
<1>7. \A s \in Sensors : TileKept(sensors[s]) BY DEF PlatformInv, PlatformTypeOK, TileKept
<1>8. \A s \in Sensors : TileKept(sensors'[s]) /\ sensors'[s].kind = sensors[s].kind /\ ~sensors'[s].pulse
  <2>1. \A s \in Sensors : sensors'[s] = Dispose(sensors[s]) BY DEF Shutdown
  <2> QED BY <1>7, <2>1, QuietKeepsTile
<1>9. DiscoveryKept' /\ TilesKept' BY <1>6, <1>8, NothingPublished DEF PlatformInv, Shutdown
<1>10. PlatformTypeOK' /\ OutsideKept'
  <2>1. \A s \in Sensors : sensors'[s] \in Tiles BY <1>8 DEF TileKept
  <2>2. sensors' \in [Sensors -> Tiles]
    <3>1. sensors' = [s \in Sensors |-> sensors'[s]] BY DEF Shutdown
    <3> QED BY <2>1, <3>1
  <2> QED BY <1>8, <2>2 DEF PlatformInv, Shutdown, PlatformTypeOK, OutsideKept, outside
<1>11. HourKept' /\ RequestsHaveTimer' BY DEF PlatformInv, Shutdown, HourKept, RequestsHaveTimer
<1>12. DownIsQuiet'
  <2>1. \A j \in Jobs : jobs'[j].at # "free" => jobs'[j].aborted BY <1>3, <1>4
  <2> QED BY <1>8, <2>1 DEF Shutdown, DownIsQuiet
<1> QED BY <1>5, <1>9, <1>10, <1>11, <1>12 DEF PlatformInv

LEMMA InitKeeps == Init => PlatformInv
<1> SUFFICES ASSUME Init PROVE PlatformInv
  OBVIOUS
<1>1. \A j \in Jobs : jobs[j] = NoJob BY DEF Init
<1>2. JobsSound
  <2>1. jobs \in [Jobs -> JobType] BY NoJobKept DEF Init
  <2>2. \A j \in Jobs : JobKept(jobs[j]) BY <1>1, NoJobKept
  <2>3. MainKept BY <1>1 DEF Init, MainKept, MainKinds, CycleKinds, NoJob
  <2> QED BY <2>1, <2>2, <2>3 DEF JobsSound
<1>3. Handlers = {} BY DEF Init, Handlers, NoTile
<1>4. DiscoveryKept /\ TilesKept BY <1>1, <1>3 DEF DiscoveryKept, TilesKept, IsDiscovery, NoJob
<1>5. PlatformTypeOK
  <2>1. accessories \subseteq Devices BY PlatformAssumption DEF Init
  <2>2. panels \in [Partitions -> Int] BY DEF Init, NoPanel
  <2>3. NoTile \in Tiles /\ ~NoTile.pulse BY DEF NoTile, Tiles
  <2>4. sensors \in [Sensors -> Tiles] /\ \A s \in Sensors : ~sensors[s].pulse BY <2>3 DEF Init
  <2> QED BY <2>1, <2>2, <2>4 DEF Init, PlatformTypeOK
<1>6. OutsideKept BY PlatformAssumption DEF Init, OutsideKept
<1>7. HourKept /\ RequestsHaveTimer /\ DownIsQuiet
  BY DEF Init, HourKept, RequestsHaveTimer, DownIsQuiet
<1> QED BY <1>2, <1>4, <1>5, <1>6, <1>7 DEF PlatformInv

LEMMA NextKeeps == PlatformInv /\ [Next]_vars => PlatformInv'
<1> SUFFICES ASSUME PlatformInv, [Next]_vars PROVE PlatformInv'
  OBVIOUS
<1>1. CASE DiscoveryStarts \/ RediscoveryStarts \/ PollStarts \/ HourPasses
  BY <1>1, DiscoveryStartsKeeps, RediscoveryStartsKeeps, PollStartsKeeps, HourPassesKeeps
<1>2. ASSUME NEW j \in Jobs, Progress(j) PROVE PlatformInv'
  BY <1>2, ServeKeeps, ListArrivesKeeps, ReadFailsKeeps, DeadlineKeeps,
     PartitionsArriveKeeps, SensorsArriveKeeps DEF Progress
<1>3. CASE DebounceFires \/ Shutdown BY <1>3, DebounceFiresKeeps, ShutdownKeeps
<1>4. CASE HealthChanges
  BY <1>4, OutsideKeeps DEF HealthChanges, PlatformInv, OutsideKept
<1>5. ASSUME NEW p \in Partitions, AccessoryAsks(p) PROVE PlatformInv'
  BY <1>5, AccessoryAsksKeeps
<1>6. ASSUME NEW p \in Partitions, PanelChanges(p) PROVE PlatformInv'
  BY <1>6, OutsideKeeps DEF PanelChanges, PlatformInv, OutsideKept
<1>7. ASSUME NEW s \in Sensors, PulseTimer(s) PROVE PlatformInv'
  BY <1>7, PulseTimerKeeps
<1>8. ASSUME NEW s \in Sensors, SensorChanges(s) PROVE PlatformInv'
  BY <1>8, OutsideKeeps DEF SensorChanges, PlatformInv, OutsideKept
<1>9. ASSUME NEW d \in Devices, AccountChanges(d) PROVE PlatformInv'
  BY <1>9, OutsideKeeps DEF AccountChanges, PlatformInv, OutsideKept
<1>10. ASSUME NEW d \in Devices, NEW e \in EventTypes, EventArrives(d, e) PROVE PlatformInv'
  BY <1>10, EventArrivesKeeps
<1>11. CASE UNCHANGED vars
  <2>1. UNCHANGED <<core, tiles, refresh>> /\ OutsideKept'
    BY <1>11 DEF vars, outside, PlatformInv, OutsideKept
  <2> QED BY <2>1, OutsideKeeps
<1> QED
  BY <1>1, <1>2, <1>3, <1>4, <1>5, <1>6, <1>7, <1>8, <1>9, <1>10, <1>11 DEF Next

LEMMA Invariant == Spec => []PlatformInv
BY InitKeeps, NextKeeps, PTL DEF Spec
-----------------------------------------------------------------------------
(* The results.                                                            *)

\* In every state the fields keep their types, every handler has its accessory, cycles
\* exclude one another and hold polling up only while they run, the account is listed once
\* an hour, a wanted reading has a timer, and after shutdown nothing is left armed
\* (platform.ts:418-422, 823-829, 917-966, 1139-1177).
THEOREM PlatformIsSound == Spec => []PlatformSound
<1>1. PlatformInv => PlatformSound
  <2> SUFFICES ASSUME PlatformInv PROVE PlatformSound
    OBVIOUS
  <2>1. HandlersHaveAccessories BY DEF PlatformInv, TilesKept, HandlersHaveAccessories
  <2>2. OneCycle
    <3> DEFINE cycles == {j \in Jobs : jobs[j].kind \in CycleKinds}
    <3>1. \A j, k \in cycles : j = k BY DEF PlatformInv, JobsSound, MainKept, MainKinds
    <3>2. inFlight <=> cycles # {} BY DEF PlatformInv, JobsSound, MainKept
    <3>3. Cardinality(cycles) <= 1
      <4>1. CASE cycles = {} BY <4>1, FS_EmptySet
      <4>2. CASE cycles # {}
        <5>1. PICK j \in cycles : TRUE BY <4>2
        <5>2. cycles = {j} BY <3>1, <5>1
        <5> HIDE DEF cycles
        <5>3. Cardinality(cycles) = 1 BY <5>2, FS_Singleton
        <5> QED BY <5>3
      <4> QED BY <4>1, <4>2
    <3> QED BY <3>2, <3>3 DEF OneCycle
  <2>3. ListedHourly BY DEF PlatformInv, HourKept, ListedHourly
  <2> QED BY <2>1, <2>2, <2>3 DEF PlatformInv, PlatformSound
<1> QED BY <1>1, Invariant, PTL

\* What Alarm.com may have said for an accessory to be unregistered.
Evidence(d) ==
  \/ d \in Ignored
  \/ \E j \in Jobs :
       /\ IsDiscovery(jobs[j]) /\ jobs[j].served
       /\ \/ jobs[j].at = "list" /\ d \notin Told(jobs[j].answer)
          \/ jobs[j].at = "sensors" /\ d \in Told(jobs[j].answer)
             /\ ~IsPublished(Said(d, jobs[j].answer))

LEMMA ListIsEvidence ==
  ASSUME PlatformInv, NEW j \in Jobs, ListArrives(j), NEW d \in accessories \ accessories'
  PROVE  Evidence(d)
<1>1. jobs[j].at = "list" /\ jobs[j].served /\ JobKept(jobs[j])
  BY ArrivesAlive DEF ListArrives, Arrives, Ats
<1>2. accessories' = accessories \cap (Told(jobs[j].answer) \ Ignored) BY DEF ListArrives, RemoveStale
<1> QED BY <1>1, <1>2 DEF Evidence, JobKept

\* A discovery that ends with the partitions has read, or registered, what it wanted.
LEMMA PartitionsRemoveNothing ==
  ASSUME PlatformInv, NEW j \in Jobs, NEW got \in Details(j), PartitionsArrive(j, got)
  PROVE  accessories \subseteq accessories'
<1> DEFINE told == Told(got)
           at == NextRead("partitions", jobs[j].ids)
           synced == IF IsDiscovery(jobs[j]) THEN told ELSE told \cap Handlers
<1>1. jobs[j].at = "partitions" BY DEF PartitionsArrive, Arrives
<1>2. accessories' = Pruned(jobs[j], at, Handlers \cup synced, accessories \cup synced, told)
  BY DEF PartitionsArrive
<1>3. CASE IsDiscovery(jobs[j])
  <2>1. accessories \subseteq jobs[j].ids BY <1>1, <1>3 DEF PlatformInv, DiscoveryKept
  <2>2. synced = told BY <1>3
  <2> HIDE DEF told, at, synced
  <2> QED BY <1>2, <2>1, <2>2 DEF Pruned
<1>4. CASE ~IsDiscovery(jobs[j]) BY <1>2, <1>4 DEF Pruned
<1> QED BY <1>3, <1>4

LEMMA DetailIsEvidence ==
  ASSUME PlatformInv, NEW j \in Jobs, NEW got \in Details(j), SensorsArrive(j, got),
         NEW d \in accessories \ accessories'
  PROVE  Evidence(d)
<1> DEFINE job == jobs[j]
           told == Told(got)
           next == [s \in Sensors |->
                      IF s \notin told THEN sensors[s]
                      ELSE IF IsDiscovery(job) THEN SyncSensor(sensors[s], Said(s, got))
                      ELSE RefreshedSensor(sensors[s], Said(s, got))]
           known == {s \in Sensors : next[s].kind # "none"}
           created == IF IsDiscovery(job) THEN known ELSE {}
           panelled == Handlers \cap Partitions
<1>1. job.at = "sensors" /\ job.served /\ JobKept(job) /\ job \in JobType
  BY ArrivesAlive DEF SensorsArrive, Arrives, Ats
<1>2. accessories' = Pruned(job, "free", panelled \cup known, accessories \cup created, job.read \cup told)
  BY DEF SensorsArrive
<1>3. IsDiscovery(job) BY <1>2 DEF Pruned
<1>4. accessories' = (accessories \cup known) \cap ((panelled \cup known) \cup (job.ids \ (job.read \cup told)))
  BY <1>2, <1>3 DEF Pruned
<1>5. accessories \subseteq job.ids /\ job.read \subseteq Handlers
  BY <1>1, <1>3 DEF PlatformInv, DiscoveryKept
<1>6. job.read \subseteq panelled BY <1>1, <1>5 DEF JobType
<1> HIDE DEF panelled, known
<1>7. d \in told /\ d \notin known BY <1>4, <1>5, <1>6
<1>8. /\ d \in Sensors /\ d \in Told(job.answer) /\ Said(d, got) \in Readings
      /\ Said(d, got) = Said(d, job.answer)
  BY <1>1, <1>7, AnswerSays DEF PlatformInv, Details
<1>9. next[d] = SyncSensor(sensors[d], Said(d, got)) BY <1>3, <1>7, <1>8
<1>10. next[d].kind = "none" BY <1>7, <1>8 DEF known
<1> HIDE DEF next
<1>11. TileKept(sensors[d]) BY <1>8 DEF PlatformInv, PlatformTypeOK, TileKept
<1>12. ~IsPublished(Said(d, got)) BY <1>8, <1>9, <1>10, <1>11, SyncKeepsTile
<1> QED BY <1>1, <1>3, <1>8, <1>12 DEF Evidence

\* An accessory is unregistered only on evidence: it is ignored, a list came without it, or
\* a detail says that it is not to be published.  A detail that did not come removes
\* nothing (platform.ts:475-479).
THEOREM RemovedOnlyOnEvidence == Spec => RemovedOnEvidence
<1>1. PlatformInv /\ [Next]_vars => \A d \in accessories \ accessories' : Evidence(d)
  <2> SUFFICES ASSUME PlatformInv, [Next]_vars, NEW d \in accessories \ accessories'
               PROVE  Evidence(d)
    OBVIOUS
  <2>1. ASSUME NEW j \in Jobs, ListArrives(j) PROVE Evidence(d) BY <2>1, ListIsEvidence
  <2>2. ASSUME NEW j \in Jobs, NEW got \in Details(j),
               PartitionsArrive(j, got) \/ SensorsArrive(j, got)
        PROVE  Evidence(d)
    BY <2>2, PartitionsRemoveNothing, DetailIsEvidence
  <2>3. \A j \in Jobs : ~(Serve(j) \/ ReadFails(j) \/ Deadline(j))
    BY DEF Serve, ReadFails, Deadline, tiles
  <2>4. ~(DiscoveryStarts \/ RediscoveryStarts \/ PollStarts \/ HourPasses \/ DebounceFires
          \/ Shutdown \/ HealthChanges \/ UNCHANGED vars)
    BY DEF DiscoveryStarts, RediscoveryStarts, PollStarts, HourPasses, DebounceFires,
           Shutdown, HealthChanges, vars, tiles
  <2>5. \A p \in Partitions : ~(AccessoryAsks(p) \/ PanelChanges(p))
    BY DEF AccessoryAsks, PanelChanges, tiles
  <2>6. \A s \in Sensors : ~(PulseTimer(s) \/ SensorChanges(s))
    BY DEF PulseTimer, SensorChanges, tiles
  <2>7. \A e \in Devices : ~AccountChanges(e) /\ \A t \in EventTypes : ~EventArrives(e, t)
    BY DEF AccountChanges, EventArrives, tiles
  <2> QED BY <2>1, <2>2, <2>3, <2>4, <2>5, <2>6, <2>7 DEF Next, Progress
<1>2. PlatformInv /\ [Next]_vars => [\A d \in accessories \ accessories' : Evidence(d)]_vars
  BY <1>1
<1> QED BY <1>2, Invariant, PTL DEF Spec, RemovedOnEvidence, Evidence
==============================================================================
