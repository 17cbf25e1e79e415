------------------------------- MODULE Platform -------------------------------
(***************************************************************************)
(* The platform (src/src/platform.ts): discovery and the hourly            *)
(* rediscovery, polling, targeted refreshes, push events, and shutdown,    *)
(* all reading the account through the client and publishing what they     *)
(* read to HomeKit.                                                        *)
(*                                                                         *)
(* A read in progress is a job.  Its request is served, when the answer    *)
(* is fixed, and delivered later, so that jobs overtake one another.  The  *)
(* selected system, asked for once, is part of the list's request, and so  *)
(* are the batches of one read.  A partition is known by how many times    *)
(* its panel changed (Partition models what is made of a reading), a       *)
(* sensor by its attributes.                                               *)
(***************************************************************************)
EXTENDS Sensor, FiniteSets, Functions

CONSTANTS
  Partitions, Sensors,
  Ignored,     \* ignoredDeviceIds
  IncludeUnmonitored, \* includeUnmonitoredSensors
  Readings,    \* the attributes a sensor may have: [type, state, status, monitored]
  Tripped,     \* those of a sensor that is tripped
  AtFirst,     \* bound: the attributes all of them may have when Homebridge starts
  Caches,      \* bound: the accessories Homebridge may have cached
  Jobs,        \* bound: the jobs at one time
  MaxMoves     \* bound: what the world, HomeKit and the stream do unprompted

Devices == Partitions \cup Sensors

ASSUME PlatformAssumption ==
  /\ Partitions \cap Sensors = {} /\ Ignored \subseteq Devices
  /\ IncludeUnmonitored \in BOOLEAN
  /\ Readings \subseteq [type : Int, state : Int, status : Int, monitored : BOOLEAN]
  /\ Tripped \subseteq Readings /\ AtFirst \subseteq [Sensors -> Readings]
  /\ Caches \subseteq SUBSET Devices
  /\ Jobs \subseteq Nat /\ Jobs # {}
  /\ MaxMoves \in Nat

VARIABLES
  phase,        \* "starting", "polling", or "down"
  due,          \* an hour has passed since #lastDiscoveryAt
  inFlight,     \* #refreshAllInFlight
  jobs,         \* the reads under way
  panels,       \* #partitions: the change each one shows
  sensors,      \* #sensors
  accessories,  \* #cachedAccessories: the devices registered with Homebridge
  pending,      \* #pendingRefreshIds
  refreshTimer, \* #refreshTimer
  account,      \* external: the devices on the account
  changes,      \* external: how often each panel has changed
  attributes,   \* external: what each sensor is
  healthy,      \* external: Alarm.com answers, in time and in full
  moves,        \* bound: what is left of MaxMoves
  lists         \* history: lists asked for since the hour before last passed

core == <<phase, due, inFlight, jobs, lists>>
tiles == <<panels, sensors, accessories>>
refresh == <<pending, refreshTimer>>
outside == <<account, changes, attributes, healthy, moves>>
vars == <<core, tiles, refresh, outside>>

NoPanel == -1
NoJob == [kind |-> "none", at |-> "free", ids |-> {}, read |-> {},
          served |-> FALSE, answer |-> {}, aborted |-> FALSE]

CycleKinds == {"poll", "rediscovery"}
IsDiscovery(job) == job.kind \in {"startup", "rediscovery"}

Handlers == {p \in Partitions : panels[p] # NoPanel}
              \cup {s \in Sensors : sensors[s].kind # "none"}

\* Policy: a sensor of no supported kind is not published, nor one that is not monitored
\* unless the user asked for it.
IsPublished(raw) ==
  ServiceKind(raw.type) # "none" /\ (raw.monitored \/ IncludeUnmonitored)

\* #removeStaleAccessories
RemoveStale(live) == accessories \cap live
-----------------------------------------------------------------------------
(* Jobs.                                                                   *)

Free == {j \in Jobs : jobs[j].at = "free"}
NextFree == CHOOSE j \in Free : \A k \in Free : j <= k

\* The read a job that wants ids makes next, and "free" after the last.
FirstRead(ids) ==
  IF ids \cap Partitions # {} THEN "partitions"
  ELSE IF ids \cap Sensors # {} THEN "sensors" ELSE "free"
NextRead(at, ids) ==
  IF at = "partitions" /\ ids \cap Sensors # {} THEN "sensors" ELSE "free"

Starts(kind, at, ids) ==
  /\ Free # {}
  /\ jobs' = [jobs EXCEPT ![NextFree] = [NoJob EXCEPT !.kind = kind, !.at = at, !.ids = ids]]

\* The job is over; a cycle's finally lets the next one begin.
Ends(j) ==
  /\ jobs' = [jobs EXCEPT ![j] = NoJob]
  /\ inFlight' = (inFlight /\ jobs[j].kind \notin CycleKinds)

\* The job goes on to its next read, or is over, when startup may begin to poll.
GoesOn(j, at, ids, read) ==
  IF at = "free"
  THEN /\ Ends(j)
       /\ phase' = IF jobs[j].kind = "startup" THEN "polling" ELSE phase
  ELSE /\ jobs' = [jobs EXCEPT ![j] = [NoJob EXCEPT !.kind = jobs[j].kind, !.at = at,
                                                    !.ids = ids, !.read = read]]
       /\ UNCHANGED <<inFlight, phase>>
-----------------------------------------------------------------------------
Init ==
  /\ phase = "starting" /\ due = FALSE /\ inFlight = FALSE
  /\ jobs = [j \in Jobs |-> NoJob]
  /\ panels = [p \in Partitions |-> NoPanel]
  /\ sensors = [s \in Sensors |-> NoTile]
  /\ accessories \in Caches     \* configureAccessory
  /\ pending = {} /\ refreshTimer = FALSE
  /\ account = Devices
  /\ changes = [p \in Partitions |-> 0]
  /\ attributes \in AtFirst
  /\ healthy \in BOOLEAN /\ moves = 0 /\ lists = 0

\* #awaitInitialDiscovery: the first attempt, or one after a failure.
DiscoveryStarts ==
  /\ phase = "starting" /\ \A j \in Jobs : jobs[j].kind # "startup"
  /\ Starts("startup", "list", {})
  /\ due' = FALSE
  /\ UNCHANGED <<phase, inFlight, lists, tiles, refresh, outside>>

\* Mistake: the time of discovery taken once it has succeeded.
RediscoveryUnstamped ==
  /\ phase = "polling" /\ ~inFlight /\ due
  /\ Starts("rediscovery", "list", {})
  /\ inFlight' = TRUE
  /\ lists' = lists + 1
  /\ UNCHANGED <<phase, due, tiles, refresh, outside>>

\* #refreshAll, an hour after the last discovery; stamped before the work.
RediscoveryStarts ==
  /\ phase = "polling" /\ ~inFlight /\ due
  /\ Starts("rediscovery", "list", {})
  /\ inFlight' = TRUE /\ due' = FALSE
  /\ lists' = lists + 1
  /\ UNCHANGED <<phase, tiles, refresh, outside>>

\* #refreshAll: the known devices are read again.  With none there is no read.
PollStarts ==
  /\ phase = "polling" /\ ~inFlight /\ ~due /\ Handlers # {}
  /\ Starts("poll", FirstRead(Handlers), Handlers)
  /\ inFlight' = TRUE
  /\ UNCHANGED <<phase, due, lists, tiles, refresh, outside>>

HourPasses ==
  /\ phase = "polling" /\ ~due
  /\ due' = TRUE /\ lists' = 0
  /\ UNCHANGED <<phase, inFlight, jobs, tiles, refresh, outside>>

\* External: Alarm.com takes the request up; what it will say is fixed.
Serve(j) ==
  LET job == jobs[j]
      asked == IF job.at = "list" THEN account
               ELSE job.ids \cap account \cap (IF job.at = "partitions" THEN Partitions ELSE Sensors)
  IN  /\ job.at # "free" /\ ~job.served /\ ~job.aborted
      /\ jobs' = [jobs EXCEPT ![j] = [job EXCEPT !.served = TRUE, !.answer =
           IF job.at = "list" THEN {<<d>> : d \in asked}
           ELSE {<<d, IF d \in Partitions THEN changes[d] ELSE attributes[d]>> : d \in asked}]]
      /\ UNCHANGED <<phase, due, inFlight, lists, tiles, refresh, outside>>

Arrives(j, at) == jobs[j].at = at /\ jobs[j].served /\ ~jobs[j].aborted

\* The details that arrive: all of them, or some while Alarm.com is unwell.
Details(j) ==
  {got \in SUBSET jobs[j].answer : healthy => got = jobs[j].answer}
About(d, got) == {x \in got : x[1] = d}
Said(d, got) == (CHOOSE x \in About(d, got) : TRUE)[2]
Told(got) == {x[1] : x \in got}

\* #discover: the list is authoritative.  Handlers of devices that are not on it are
\* forgotten (#reconcileKnownDevices), their accessories and the ignored ones removed.
ListArrives(j) ==
  /\ Arrives(j, "list")
  /\ LET listed == Told(jobs[j].answer)
         wanted == listed \ Ignored
     IN  /\ panels' = [p \in Partitions |-> IF p \in listed THEN panels[p] ELSE NoPanel]
         /\ sensors' = [s \in Sensors |-> IF s \in listed THEN sensors[s] ELSE NoTile]
         /\ accessories' = RemoveStale(wanted)
         /\ GoesOn(j, FirstRead(wanted), wanted, {})
  /\ UNCHANGED <<due, lists, refresh, outside>>

\* What #publishDevices removes once everything is read.
Pruned(job, at, known, registered, read) ==
  IF IsDiscovery(job) /\ at = "free"
  THEN registered \cap (known \cup (job.ids \ read)) ELSE registered

\* #publishDevices and #refreshDevices: partitions.  A discovery creates the handlers and
\* accessories that are missing; a refresh updates the handlers there are.
PartitionsArrive(j, got) ==
  /\ Arrives(j, "partitions")
  /\ LET job == jobs[j]
         at == NextRead("partitions", job.ids)
         synced == IF IsDiscovery(job) THEN Told(got) ELSE Told(got) \cap Handlers
     IN  /\ panels' = [p \in Partitions |-> IF p \in synced THEN Said(p, got) ELSE panels[p]]
         /\ accessories' = Pruned(job, at, Handlers \cup synced, accessories \cup synced, Told(got))
         /\ GoesOn(j, at, job.ids, Told(got))
  /\ UNCHANGED <<due, lists, sensors, refresh, outside>>

\* #syncSensor: declined, or created if it is new and updated.
SyncSensor(sensor, raw) ==
  IF ~IsPublished(raw) THEN NoTile
  ELSE UpdateSensor(IF sensor.kind = "none" THEN NewSensor(ServiceKind(raw.type)) ELSE sensor, raw)

\* Mistake: the reading of a forgotten device brings it back.
RefreshedSensorSynced(sensor, raw) == SyncSensor(sensor, raw)

\* A refresh: #sensors.get(id)?.update
RefreshedSensor(sensor, raw) ==
  IF sensor.kind = "none" THEN sensor ELSE UpdateSensor(sensor, raw)

\* Mistake: a device without a detail is removed like one that was declined.
SensorsArriveDroppingUnread(j, got) ==
  /\ Arrives(j, "sensors")
  /\ LET job == jobs[j]
         next == [s \in Sensors |->
           IF s \notin Told(got) THEN sensors[s]
           ELSE IF IsDiscovery(job) THEN SyncSensor(sensors[s], Said(s, got))
           ELSE RefreshedSensor(sensors[s], Said(s, got))]
         known == {s \in Sensors : next[s].kind # "none"}
     IN  /\ sensors' = next
         /\ accessories' = IF IsDiscovery(job)
                           THEN (accessories \cup known) \cap ((Handlers \cap Partitions) \cup known)
                           ELSE accessories
         /\ GoesOn(j, "free", {}, {})
  /\ UNCHANGED <<due, lists, panels, refresh, outside>>

\* #publishDevices and #refreshDevices: sensors, and the pruning that ends a discovery.
SensorsArrive(j, got) ==
  /\ Arrives(j, "sensors")
  /\ LET job == jobs[j]
         next == [s \in Sensors |->
           IF s \notin Told(got) THEN sensors[s]
           ELSE IF IsDiscovery(job) THEN SyncSensor(sensors[s], Said(s, got))
           ELSE RefreshedSensor(sensors[s], Said(s, got))]
         known == {s \in Sensors : next[s].kind # "none"}
         created == IF IsDiscovery(job) THEN known ELSE {}
     IN  /\ sensors' = next
         /\ accessories' = Pruned(job, "free", (Handlers \cap Partitions) \cup known,
                                  accessories \cup created, job.read \cup Told(got))
         /\ GoesOn(j, "free", {}, {})
  /\ UNCHANGED <<due, lists, panels, refresh, outside>>

\* Mistake: a read that failed is made again, a cancelled one too.
ReadFailsRetrying(j) ==
  /\ jobs[j].at # "free" /\ (~healthy \/ jobs[j].aborted)
  /\ jobs' = [jobs EXCEPT ![j].served = FALSE, ![j].answer = {}]
  /\ UNCHANGED <<phase, due, inFlight, lists, tiles, refresh, outside>>

\* The read rejects: refused, timed out, or cancelled.  Startup will try again.
ReadFails(j) ==
  /\ jobs[j].at # "free" /\ (~healthy \/ jobs[j].aborted)
  /\ Ends(j)
  /\ UNCHANGED <<phase, due, lists, tiles, refresh, outside>>

\* Mistake: the cycle's wait given up, the cycle left to run.
DeadlineAbandons(j) ==
  /\ jobs[j].kind \in CycleKinds /\ ~healthy /\ ~jobs[j].aborted
  /\ inFlight' = FALSE
  /\ UNCHANGED <<phase, due, jobs, lists, tiles, refresh, outside>>

\* #withCycleDeadline: cancelled, not abandoned.  A request that queues for its slot
\* finds out when its turn comes.
Deadline(j) ==
  /\ jobs[j].kind \in CycleKinds /\ ~healthy /\ ~jobs[j].aborted
  /\ jobs' = [jobs EXCEPT ![j].aborted = TRUE]
  /\ UNCHANGED <<phase, due, inFlight, lists, tiles, refresh, outside>>
-----------------------------------------------------------------------------
(* Targeted refreshes and push events.                                     *)

\* Mistake: no look at #isShuttingDown.
RequestDeviceRefreshAlways(d) ==
  /\ pending' = pending \cup {d}
  /\ refreshTimer' = TRUE

\* requestDeviceRefresh
RequestDeviceRefresh(d) ==
  IF phase = "down" THEN UNCHANGED refresh
  ELSE /\ pending' = pending \cup {d}
       /\ refreshTimer' = TRUE

Moves == moves < MaxMoves /\ moves' = moves + 1

\* An accessory asks for a reading, at the end of a command.
AccessoryAsks(p) ==
  /\ Moves /\ panels[p] # NoPanel
  /\ RequestDeviceRefresh(p)
  /\ UNCHANGED <<core, tiles, account, changes, attributes, healthy>>

\* #handleDeviceEvent: what the event implies is shown at once, the re-read scheduled.
EventArrives(d, eventType) ==
  /\ phase = "polling" /\ Moves
  /\ sensors' = IF d \in Sensors THEN [sensors EXCEPT ![d] = Hinted(@, eventType)] ELSE sensors
  /\ RequestDeviceRefresh(d)
  /\ UNCHANGED <<core, panels, accessories, account, changes, attributes, healthy>>

PulseTimer(s) ==
  /\ sensors[s].pulse
  /\ sensors' = [sensors EXCEPT ![s] = PulseOver(@)]
  /\ UNCHANGED <<core, panels, accessories, refresh, outside>>

\* Mistake: the set emptied, the timer's handle kept.
DebounceFiresKeeping ==
  /\ refreshTimer
  /\ LET ids == pending \cap Handlers
     IN  IF ids = {} THEN UNCHANGED jobs ELSE Starts("targeted", FirstRead(ids), ids)
  /\ pending' = {}
  /\ UNCHANGED <<phase, due, inFlight, lists, tiles, refreshTimer, outside>>

\* The debounce is over: the devices that still have a handler are read.
DebounceFires ==
  /\ refreshTimer
  /\ LET ids == pending \cap Handlers
     IN  IF ids = {} THEN UNCHANGED jobs ELSE Starts("targeted", FirstRead(ids), ids)
  /\ pending' = {} /\ refreshTimer' = FALSE
  /\ UNCHANGED <<phase, due, inFlight, lists, tiles, outside>>

\* #shutdown: the reads are cancelled, the timers cleared, the sensors disposed of.
Shutdown ==
  /\ phase # "down" /\ phase' = "down"
  /\ jobs' = [j \in Jobs |-> IF jobs[j].at = "free" THEN NoJob ELSE [jobs[j] EXCEPT !.aborted = TRUE]]
  /\ sensors' = [s \in Sensors |-> Dispose(sensors[s])]
  /\ pending' = {} /\ refreshTimer' = FALSE
  /\ UNCHANGED <<due, inFlight, lists, panels, accessories, outside>>
-----------------------------------------------------------------------------
(* External: the house and Alarm.com.                                      *)

PanelChanges(p) ==
  /\ Moves /\ changes' = [changes EXCEPT ![p] = @ + 1]
  /\ UNCHANGED <<core, tiles, refresh, account, attributes, healthy>>

SensorChanges(s) ==
  /\ Moves /\ attributes' \in {[attributes EXCEPT ![s] = raw] : raw \in Readings}
  /\ UNCHANGED <<core, tiles, refresh, account, changes, healthy>>

AccountChanges(d) ==
  /\ Moves /\ account' = (account \ {d}) \cup ({d} \ account)
  /\ UNCHANGED <<core, tiles, refresh, changes, attributes, healthy>>

HealthChanges ==
  /\ Moves /\ healthy' = ~healthy
  /\ UNCHANGED <<core, tiles, refresh, account, changes, attributes>>

\* Whatever moves a job on.
Progress(j) ==
  \/ Serve(j) \/ ListArrives(j) \/ ReadFails(j) \/ Deadline(j)
  \/ \E got \in Details(j) : PartitionsArrive(j, got) \/ SensorsArrive(j, got)

Next ==
  \/ DiscoveryStarts \/ RediscoveryStarts \/ PollStarts \/ HourPasses
  \/ \E j \in Jobs : Progress(j)
  \/ DebounceFires \/ Shutdown \/ HealthChanges
  \/ \E p \in Partitions : AccessoryAsks(p) \/ PanelChanges(p)
  \/ \E s \in Sensors : PulseTimer(s) \/ SensorChanges(s)
  \/ \E d \in Devices : AccountChanges(d) \/ \E e \in EventTypes : EventArrives(d, e)

Spec == Init /\ [][Next]_vars

\* Timers fire, and a request is answered or fails by its deadline.
LiveSpec ==
  /\ Spec
  /\ WF_vars(DiscoveryStarts) /\ WF_vars(RediscoveryStarts)
  /\ WF_vars(PollStarts) /\ WF_vars(HourPasses)
  /\ WF_vars(DebounceFires)
  /\ \A j \in Jobs : WF_vars(Progress(j))
  /\ \A s \in Sensors : WF_vars(PulseTimer(s))
-----------------------------------------------------------------------------
(* Properties.                                                             *)

Tiles == [kind : {"none", "contact", "motion", "smoke"},
          shows : {"unread", "rest", "triggered"}, pulse : BOOLEAN]

\* The fields keep their type; a sensor with a pulse to end shows it.
PlatformTypeOK ==
  /\ phase \in {"starting", "polling", "down"}
  /\ due \in BOOLEAN /\ inFlight \in BOOLEAN /\ refreshTimer \in BOOLEAN
  /\ accessories \subseteq Devices /\ pending \subseteq Devices
  /\ panels \in [Partitions -> Int] /\ sensors \in [Sensors -> Tiles]
  /\ \A s \in Sensors : sensors[s].pulse => sensors[s].shows = "triggered"

\* A device that has a handler has its accessory: what is polled and updated is what
\* HomeKit shows, through removals, partial answers and refreshes that overlap them.
HandlersHaveAccessories == Handlers \subseteq accessories

\* One cycle runs at a time, and polling stands still only while one does
\* (platform.ts:917-920, 953-966).
OneCycle ==
  LET cycles == {j \in Jobs : jobs[j].kind \in CycleKinds}
  IN  /\ Cardinality(cycles) <= 1
      /\ inFlight <=> cycles # {}

\* The account is listed once an hour, however rediscovery fails (platform.ts:418-422).
ListedHourly == lists <= 1

\* A request for a reading waits for a timer that will take it along.
RequestsHaveTimer == pending # {} <=> refreshTimer

\* After shutdown nothing is armed and every read is cancelled, whatever HomeKit still
\* asks for (platform.ts:823-829, 1139-1177).
DownIsQuiet ==
  phase = "down" =>
    /\ ~refreshTimer /\ pending = {}
    /\ \A s \in Sensors : ~sensors[s].pulse
    /\ \A j \in Jobs : jobs[j].at # "free" => jobs[j].aborted

\* What every state of the platform satisfies.
PlatformSound ==
  /\ PlatformTypeOK /\ HandlersHaveAccessories /\ OneCycle /\ ListedHourly
  /\ RequestsHaveTimer /\ DownIsQuiet

\* An accessory is unregistered only on what Alarm.com said: a list without the device, or
\* a detail that is not to be published; a detail that did not come is not enough
\* (platform.ts:475-479).
RemovedOnEvidence ==
  [][ \A d \in accessories \ accessories' :
        \/ d \in Ignored
        \/ \E j \in Jobs :
             /\ IsDiscovery(jobs[j]) /\ jobs[j].served
             /\ \/ jobs[j].at = "list" /\ d \notin Told(jobs[j].answer)
                \/ jobs[j].at = "sensors" /\ d \in Told(jobs[j].answer)
                   /\ ~IsPublished(Said(d, jobs[j].answer)) ]_vars

\* What HomeKit shows once everything has been read.
ShouldShow(d) ==
  d \in account \ Ignored /\ (d \in Sensors => IsPublished(attributes[d]))

InStep ==
  /\ accessories = {d \in Devices : ShouldShow(d)} /\ Handlers = accessories
  /\ \A p \in Handlers \cap Partitions : panels[p] = changes[p]
  /\ \A s \in Handlers \cap Sensors :
       sensors[s].kind = ServiceKind(attributes[s].type) =>
         (sensors[s].shows = "triggered" <=> attributes[s] \in Tripped)

\* Once Alarm.com stays well, HomeKit falls in step with the account and stays so: hints,
\* answers out of order, partial answers, failed and abandoned reads are all made good.
CatchesUp == <>[]healthy => <>[](phase = "down" \/ InStep)

\* No cycle stops polling for good.
CycleEnds == inFlight ~> ~inFlight
=============================================================================
