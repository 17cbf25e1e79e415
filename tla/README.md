# Formal model of homebridge-myalarmcom

TLA+ models of the plugin, the TLC configurations that check them on small
instances, and theorems about them checked by TLAPS. Source paths are relative to
the repository; line numbers refer to the commit modelled. `PROJECT.json` names,
for every definition, the lines it stands for.

1. [The system](#the-system)
2. [Modules](#modules)
3. [What is checked, and within which bounds](#what-is-checked)
4. [Fairness](#fairness)
5. [What is proved](#what-is-proved)
6. [Where the code departs from what it says](#findings)
7. [What is not modelled](#what-is-not-modelled)
8. [Plan](#plan)

## The system

One Node.js process. All state lives in the objects below; JavaScript runs one
callback to completion, so interleaving happens at every `await`, timer and
listener. Homebridge calls in (HomeKit writes, launch, shutdown); Alarm.com is
called over HTTPS and calls back through one WebSocket. The only thing that outlives
the process is the SQLite store of the PagerDuty signals, besides Homebridge's own
cache of accessories.

| Component (`src/`) | State it keeps | Operations | Talks to | Module |
|---|---|---|---|---|
| `devices/partition.ts` | latest reading, pending target and when it was set, last target shown, one command in flight, one held, a sequence number | HomeKit write, HAP deadline, outcome of a command, reading pushed in | client (command), platform (refresh, open contacts), HomeKit | `Partition` |
| `api/event-stream.ts` | live socket, refresh candidate, three timers, failure and give-up counters, a generation, the reason of the next connection | `start`, `stop`, token fetched or not, socket open / close / timeout, refresh, reconnect, recovery | client (token), platform (events, unavailable, reconnect, recovered) | `EventStream` |
| `api/circuit-breaker.ts` | state, half-open slots and successes, failure timestamps | `execute` of every call, `reset`, status | client (transition listener) | `CircuitBreaker` |
| `api/session-manager.ts` | the session and when it was verified, last sign-in, permanent failure, pending login, keep-alive failures | `getSession`, `touch`, `invalidate` | `auth.ts`, client, platform timer | `SessionManager` |
| `api/auth.ts`, `cookie-jar.ts`, `http.ts` | the cookies of one exchange | two requests, their verdicts, keep-alive | session manager | `SignIn` |
| `api/client.ts`, `utils/retry.ts` | composes session, limiter and breaker around one request; the outage flag | reads in batches, commands, stream token; retry with back-off, recovery of a lapsed session | all of `api/` | `Client` |
| `api/rate-limiter.ts` | timestamps, a promise chain of waiters | `acquire` | client | `RateLimiter` |
| `errors/`, `failure-log-level.ts`, `discovery-retry.ts` | none | classification | everyone | `Errors` |
| `platform.ts` | known devices, cached accessories, debounced refresh set, in-flight guard, failure report, timers | discovery, poll, targeted refresh, push events, startup, shutdown | everything | `Platform`, `Reports`, `Lifecycle` |
| `devices/sensor.ts`, `types/`, `utils/mappers.ts` | last reading, momentary-pulse timer | push hint, authoritative update; decoding | HomeKit | `Sensor` |
| `alarmcom-signals.ts`, `pagerduty-signals.ts` | offline grace timer, sign-in flag, last written values; the rows | notes from the platform, SQLite writes | platform | `Signals` |
| `diagnostics/` | counters, outcome window, marker, last health | record, roll up, start, heartbeat | platform | `Diagnostics` |
| `utils/validators.ts` | none | validate and clamp the configuration | platform | `Config` |
| `utils/logger.ts`, `version.ts`, `scripts/` | none of the plugin's | formatting; development tools | | none |

**How they interact.** A HomeKit write goes platform → partition accessory →
client: session, retry or single recovery, pacing, breaker, HTTP. Its outcome asks
the platform for a debounced re-read of the partition; polls and push events ask for
readings too, and every reading comes back into the accessory. What a read found or
how it failed goes to the signals and the log. The stream asks the client for a
token at each connection, so a token fetch can wait on the session, the limiter and
the breaker.

**What is hard.**

- *Overlap*: requests while a command is out, outcomes after the HAP deadline, a
  refresh, a poll and a rediscovery reading the same device, several callers without
  a session, a shutdown inside any of the awaits of startup.
- *State read before an await and used after it*: the stream's token fetch, the
  session a request was sent with, the permission checked when a request is made, a
  device forgotten while its reading is fetched.
- *Failure*: commands given up on that the panel still carries out, refused upgrades,
  hung handshakes, failing sign-ins, partial answers, a store that cannot be written,
  callbacks into Homebridge that throw.
- *Time*: HAP window against command ceiling against settle window; token expiry
  against refresh; the login floor; cooldown, burst and sliding windows; the offline
  grace.
- *Restarts*: a new process finds the pages an earlier one opened.

**What makes each component correct.** *Partition*: one command at a time, the
newest request wins, the outcome of a replaced one leaves the tile alone, and nothing
is pending for ever. *Stream*: it never waits for nothing, one attempt owns the
connection, a live socket is only ever replaced, the platform hears of an outage
once. *Breaker*: no slot leaks, one report per outage, closing needs consecutive
successes, no state is a trap. *Session*: one sign-in at a time and never within the
floor, an answer about one session leaves every other alone, nobody waits in vain.
*Client and limiter*: every request sent keeps gap and window, a command is repeated
only after an outright rejection, no waiter wedges the queue. *Platform*: accessories
go only on evidence, HomeKit falls in step with the account, one cycle at a time,
nothing after shutdown. *Signals*: one page per cause, none early, none lost or left
open. *Startup and diagnostics*: waits outages out, Ready means all timers,
a change of health is announced once.

## Modules

| Module | What it is |
|---|---|
| `LatestWins` | abstract: what the command pipeline promises |
| `Partition`, `MCPartition` | the accessory, its pipeline, the panel and the clock |
| `PushLink` | abstract: what the stream promises the platform |
| `EventStream`, `MCEventStream` | the stream's connection life cycle |
| `CircuitBreaker`, `MCCircuitBreaker` | the breaker and the client's outage report |
| `Errors` | the codes, and what each makes of retry, lapse, permanence and log level |
| `SignIn` | the sign-in exchange, as operators from replies to an error or a session |
| `SessionManager`, `MCSessionManager` | the session, its callers and the keep-alive, with `SignIn`'s outcomes |
| `RateLimiter` | the queue of claims; abstract for `Client` |
| `Client`, `MCClient` | calls through session, limiter, breaker, request, recovery and retry |
| `Sensor` | the sensor accessory, decoding of readings and push hints, as operators |
| `Platform`, `MCPlatform` | the reads that overlap and what they publish |
| `Signals` | the alarm signals and the writer of their store, as operators |
| `Reports`, `MCReports` | what the platform reports of its reads, through restarts |
| `Config`, `Diagnostics` | validation; collector and reporter; as operators |
| `Lifecycle`, `MCLifecycle` | startup, timers, heartbeats and shutdown |
| `PartitionProofs`, `StreamProofs`, `BreakerProofs`, `SessionProofs`, `ClientProofs`, `PlatformProofs`, `ReportsProofs`, `LifecycleProofs` | theorems; those of `RateLimiter` are in `ClientProofs` |

Each component module has the same shape: the code's fields (a record where the
code's methods call one another, so that a method is an operator from fields to
fields), `Init`, one action per callback run to completion, `Next`, `Spec`, a
`LiveSpec` with fairness, then the properties. Definitions headed *Mistake* are
plausible bugs of the definition after them; no action uses them, and each shows
that a property would notice the bug.

**Partition.** `SendCommand`, `ReleaseAndDrain` and `Settle` are the methods of those
names. `HandleTargetState` is a whole set handler up to its await: the refusals
(`Admits`), the pending target, and the send or the hold. A command that ends
(`Finish`) records its outcome, frees the slot and sends what was held, in one
step, as the code's promise callbacks do. `Update` is a reading: confirm or expire
the target, then compute what is shown. The panel is external: it carries accepted
commands out in order (`Land`), may carry out one that was given up on
(`LandOrphan`), and changes by itself (`PanelChanges`). A reading is what the panel
is when it is applied; how old it may be is `Platform`'s business. `asked`
and `pipeline.sent` are history. A refused write changes nothing in the
code and is no step here; the reply HomeKit sees, names, fault flags and log lines
are left out.

**EventStream.** One action per listener, timer or settled promise. The generation
counter is not counted: an attempt and a handshake carry a flag that says it was
bumped since, which is all the code compares. A socket that has lost its listeners is
gone. `closing` is the readyState between the end of a connection and its `close`
event, when `isConnected` is already false. A refused upgrade keeps a socket
`connecting`, because a listener on `unexpected-response` takes the abort over, until
the handshake times out or a close arrives; both are actions. `SocketRefused` is the
constructor that throws.

**CircuitBreaker.** Timestamps are ages, cut off at the longer of the two windows,
and the set of failure ages is exact because the coalescing window keeps members
apart. A call in flight is `plain`, a `probe` of the current half-open spell, or a
`late` probe of an earlier one; the code does not tell the last two apart, the
properties do.

**SessionManager.** Requests are `idle`, in the `floor` sleep, `signing`, `joined` to
another's sign-in or `using` a session; `Lapses` is the client's recovery, whose
invalidate and second `getSession` are one synchronous step; it may discard a session
that still works, for an answer that is not JSON is taken for a lapse too. A sign-in fails with any
of `SignIn!SignInErrors`, the set of what the two requests can end in. `server` says
which sessions Alarm.com still honours and when each was last proved good. `quiet` is
history: the ticks the last sign-in's outcome forbids another one for.

**RateLimiter and Client.** `#tail` is the sequence `chain`: the first claim is the
one being settled, and `sleeping` is what is left of its wait. A call is one record:
resolving the session, in the queue, sent, in back-off or ended. The guards of the
limiter's actions are conjuncts of the client's (`PacingRefuses` is `Refused` and
what the refusal makes of the call), which is what makes the refinement a proof by
cases. `sends`, `rejected` and `held` are history.

**Platform.** A read under way is a *job*: a cycle, a targeted refresh or the
startup. Its request is served when Alarm.com fixes what it will say (`Serve`), and
its answer arrives later (`ListArrives`, `PartitionsArrive`, `SensorsArrive`), so that
an older answer can be applied after a newer one. A partition is known by how often
its panel changed, a sensor by its raw attributes, which `Sensor` decodes. While
Alarm.com is unwell an answer may lack details.

**Signals and Reports.** The fields of both signal objects and the rows of the store
are one `desk`; every public method is an operator from desk to desk. `missed` is history:
the signals whose last write did not reach the store. In `Reports` a
read is one step (its overlap is `Platform`'s question) that ends whole, with some
details missing, or in an error after some requests were answered; the `finally` that
records what was read is part of it. `Restart` is a crash or a shutdown: all but the
rows starts afresh.

**Lifecycle.** `stage` is the await `#start` stands at. The discovery and a poll are
one request each and the sign-in it may need; `Ends` lists how one may end, with what
`#timedAttempt` notes of it (nothing of a sign-in) and the session it leaves. Failures
are drawn from the replies of the two exchanges, so that which of them startup gives
up on is computed by `SignIn` and `Errors`. Alarm.com is `well`, `unwell` (requests
lost, the statuses of an outage), `garbled` (an outage that answers as if it were none:
a page without the form, the form again, a redirect without the CSRF cookie) or
`refusing`. Publishing what came may trip over a defect, which startup gives up on.
Requests that pacing refuses and the stream's token requests are left out. The collector's
counters are kept modulo `CountBase`, which is exact for sums and differences.

## What is checked

Every run below passes unless it is listed under [findings](#findings). Every
property of a passing run has at least one mutant in `PROJECT.json`: a plausible bug
in a mapped definition under which the run reports that property violated. Names that
end in *Sound* are conjunctions of a type invariant and named parts; each part has a
mutant of its own.

| Run | Question | Properties |
|---|---|---|
| `partition` | three requests against every outcome, deadline, reading, door and permission change; night arms that land on stay, commands given up on and carried out all the same | `AccessorySound` (type; a running command has lost the tile exactly when a newer request is held), `OneCommandOut`, `NewestIsCarried`, `OnlyNewestOutcomeDropsTarget`, `IdleMeansReadBack`; `TargetIsRetired`; `PromiseKept`: the pipeline implements `LatestWins` with its fairness |
| `event_stream` | every order of tokens, opens, closes, time-outs, timers, stop and restart | `ConnectionSound` (type; `OneOwner`, `StopIsFinal`, `OutageIsDated`), `NeverStranded`, `RefreshIsKept`, `LiveIsOnlyReplaced`; `LinkKept`: it implements `PushLink`; `ComesBack` through give-up |
| `breaker` | four concurrent calls, ending early, late, and after their spell | `BreakerSound` (type; `NoSlotLeaks`, `OneReportPerOutage`), `FailuresAreBursts`, `ClosesOnRecovery`, `NoTrap` (`ProbesAgain`, `ProbingEnds`) |
| `session` | three requests, keep-alives, lapses and failing sign-ins | `SignInSound` (type; `OneSignIn`, `NobodyWaitsInVain`), `FloorIsKept`, `OldProbeSparesNewSession`, `HandedOutWasVerified`, `RequestsEnd` |
| `client` | a two-batch read and an arming command that queue, lapse, back off, are refused and are aborted | `CallsSound` (type; `WindowKept`, `SendsBounded`), `CommandNotRepeated`, `SendsArePaced`, `SendsAreDue`, `EveryCallEnds` |
| `platform` | discovery, poll, rediscovery, targeted refresh, push hints and shutdown in every order, answers out of order, partial or failed | `PlatformSound` (type; `HandlersHaveAccessories`, `OneCycle`, `ListedHourly`, `RequestsHaveTimer`, `DownIsQuiet`), `RemovedOnEvidence`, `CatchesUp`, `CycleEnds` |
| `reports` | alarms, outages, refused sign-ins, failing writes and restarts | `ReportsSound` (type; `OneCauseOnePage`, `QuietOnlyIfSaid`), `SeenAlarmPages`, `OfflineAfterGrace`, `PagesFollow` (`PagesCatchUp`, `OutageIsPaged`) |
| `lifecycle` | startup against outages, garbled answers, refusals, defects and a shutdown at every await; the pure functions over their boundary values | `LifecycleSound` (type; `NothingOutlivesShutdown`, `ReadyIsWhole`, `ToldHealth`, `EachCountedOnce`), `ComputedRight` (`SettingsInRange`, `PercentilesRanked`), `OutageIsWaitedOut`, `Settles` (`StartupEnds`, `HealthFollows`) |

**Bounds and why they are enough.**

- *Partition*: three requests are one running, one held and one that replaces the
  held one; a fourth repeats the third. Night and disarm: a target is only compared
  for equality and mapped, and a night arm lands on stay where nights are not offered. A tick is about 30 s: the command
  ceiling (60 s) is 2, the settle window (90 s) is 3; the HAP window (9 s) ends with
  the first tick, before anything of another tick. Order of the three windows is what
  the code depends on, and it is kept.
- *EventStream*: give-up after two failures instead of five; the counter is only
  compared to the limit. Three token fetches outstanding: two superseded ones beside
  the owner; more are alike.
- *CircuitBreaker*: a tick is 7.5 s, so 2 for the burst window and 4 for the
  cooldown are the real ratios; threshold 3 and a sliding window of 7 ticks are
  scaled. Four calls outnumber the probe slots. Two slots for three successes (the
  default is three and three) force slots to be reused within a spell.
- *SessionManager*: a tick is about 2.5 s: the floor after a failed sign-in is one,
  the longest inline wait two. The lifetime (10 min or more) is three ticks, the
  smallest that lets a floor be waited for in part and refused in part. Two sessions:
  the old and the new. Keep-alive limit two instead of three.
- *Client*: a tick is a second, the gap between requests one; the window is 3 ticks
  with 2 grants, the longest wait one, so that a full window is both slept through
  and refused. Three attempts, back-off of 2 to 3 ticks, a Retry-After within and
  beyond the cap and one already past. Two calls suffice for a waiter and the one it
  waits for. One error of each kind the client distinguishes.
- *Platform*: one panel, one door, one ignored shed; a reading of the door in a known
  state, in a state not seen before, of an unsupported kind, and not monitored, which
  `includeUnmonitoredSensors`, off as by default, leaves out. Two jobs: one
  that another overtakes; a third read would wait. Two unprompted moves of the world,
  HomeKit or the stream.
- *Reports*: a partition and a smoke detector, one error per class, grace and warning
  threshold of two, three moves: an outage, a change of the store and a restart can
  coincide. A page that stays on because its clear was lost takes a fourth; there the
  theorems of `ReportsProofs` speak, which hold for any number.
- *Lifecycle*: configurations at, below, above and between the bounds of each number;
  a platform is run with and without the stream and the heartbeat. An outcome window
  of 4 with 3 samples needed, counters modulo 3, two changes of Alarm.com: from any of
  its four kinds into another and out of that.

Deadlock is checked except in `platform` and `lifecycle`, where a platform that has
been shut down, or never had a usable configuration, has nothing more to do.

## Fairness

Weak fairness is assumed of timers (the event loop fires them), of ends of HTTP calls
and handshakes (each has a deadline in `http.ts` or a handshake timer) and of polls
(the interval keeps firing). Two assumptions are about Alarm.com and are stated as
strong fairness in `EventStream!LiveSpec`: it does not refuse every token for ever,
or give only tokens that open no socket, nor let every handshake die. Nothing is assumed of users, doors, the keypad, or the
death of sockets and sessions. `CircuitBreaker!LiveSpec` also assumes that calls keep
being made: polling does that, and without it an open circuit has nothing to probe
with. In `Client`, fairness is per call: its session is resolved or refused, its turn
in the queue comes, its request ends. In `Platform` a job makes progress (it is
served, answered, or fails by its deadline); in `Lifecycle` a read ends one way or
the other, an open breaker resets, the login floor passes, and a stream that is down
reconnects or is down for long. `CatchesUp`, `PagesFollow` and `Settles` are
implications from Alarm.com (and the store) staying as it is, since nothing can catch
up with what keeps changing.

## What is proved

For every value of the constants that the named `ASSUME`s of the module allow.

| Module | Theorem | Says |
|---|---|---|
| `PartitionProofs` | `TypeCorrect` | `TypeOK`, throwing reports included |
| | `AccessoryIsSound` | `AccessorySound` |
| | `OneCommandAtATime`, `NewestNeverLost`, `SupersessionMeansHeld` | `OneCommandOut`, `NewestIsCarried`, `SupersededOnlyByHeld` |
| | `ReplacedOutcomesLeaveTile`, `IdlePipelineReadsBack` | `OnlyNewestOutcomeDropsTarget`, `IdleMeansReadBack` |
| | `PipelineImplementsPromise` | initial states and steps of `LatestWins` (its safety part) |
| `StreamProofs` | `ConnectionIsSound`, `SomethingUnderWay` | `ConnectionSound`, `NeverStranded` |
| | `RefreshNeverForgotten`, `LiveNeverDropped` | `RefreshIsKept`, `LiveIsOnlyReplaced` |
| | `StreamKeepsLink` | `LinkKept`: the stream implements `PushLink` |
| `BreakerProofs` | `BreakerIsSound`, `BurstsCountOnce`, `ClosingIsEarned` | `BreakerSound`, `FailuresAreBursts`, `ClosesOnRecovery` |
| `SessionProofs` | `SignInIsSound`, `FloorHolds` | `SignInSound`, `FloorIsKept` |
| | `VerifiedOnly`, `OldProbesSpare` | `HandedOutWasVerified`, `OldProbeSparesNewSession` |
| `ClientProofs` | `PacingTypeCorrect`, `PacingKeepsWindow`, `PacingKeepsGap` | types, `WindowKept`, `GapKept` of the limiter alone |
| | `ClientPaces` | the client implements the limiter |
| | `ClientKeepsWindow`, `ClientSendsPaced` | `WindowKept` and `SendsArePaced` of the client |
| | `CallsAreSound`, `CommandsAreNotRepeated` | `CallsSound`, `CommandNotRepeated` |
| | `NothingSentEarly` | `SendsAreDue` |
| `PlatformProofs` | `PlatformIsSound`, `RemovedOnlyOnEvidence` | `PlatformSound`, `RemovedOnEvidence` |
| `ReportsProofs` | `ReportsAreSound` | `ReportsSound` |
| | `OfflineOnlyAfterGrace`, `SeenAlarmsArePaged` | `OfflineAfterGrace`, `SeenAlarmPages` |
| | `WholeReadsTellTruth` | a whole read of a well service, the store writable, leaves every row true: the step `PagesCatchUp` rests on |
| | `ExpiryPages` | a grace that runs out pages, if the row can be written: the step `OutageIsPaged` rests on |
| `LifecycleProofs` | `LifeIsSound`, `OutagesAreWaitedOut` | `LifecycleSound`, `OutageIsWaitedOut` |
| | `ComputationsAreRight` | `ComputedRight`: every setting in effect is in its range, and as given unless a warning says otherwise; percentiles are nearest-rank |
| | `PercentileIsRanked` | the same of a percentile, for samples of any number and size and ranks 1 to 100 |

*Partition.* All but `TypeCorrect` assume that recording an outcome does not throw
(`ReportingMayThrow = FALSE`): with a throw the code breaks them, see
`partition_double_release`. The argument rests on `PipelineInv`. `OneCommandOut`
alone is not inductive: a settlement frees the slot and sends the held request, and
only if the freed slot was the one running command's does that leave one. So the
invariant ties the attempt to the slot (its token is `#inFlight`, its request the last
sent), an idle pipeline to an empty queue, and the queue to the numbers: nothing held
means the newest was sent and owns the sequence number, something held means it is
the newest and the running token is older.

*Stream.* `StreamInv` adds to what the run checks what the class relies on without
saying so: a handshake belongs to the socket or the candidate it was made for
(`SocketsAgree`), handshake, timers and attempts exclude one another (`OneWayBack`),
a failure count past the limit waits for the recovery that resets it (`CountedOut`),
and a give-up is counted while it lasts (`GivenUpCounted`). Because the methods call
one another, the invariant is stated of a record, and each method has a lemma:
of the small ones what they change and leave, of `Connect`, `ScheduleReconnect` and
`ScheduleRefreshRetry`, which end every callback, when they restore it. One lemma
per callback then gives the invariant, the action properties and the step of
`PushLink` together. That a live socket's replacement is coming (`LiveIsRefreshed`) is
no invariant, because of `SocketRefused`; what is proved is that every other step keeps
it.

*Breaker.* `BreakerSound` says nothing of why the circuit may close. The invariant
adds what the successes counted in a half-open spell mean (`SuccessesAreInARow`): at
least as many in a row, of any call.

*Session.* A request that sleeps out the floor looks at no clock when it wakes, so
the invariant says what its sleep is worth: at least the quiet that is left
(`SleepersOutlastFloor`), which no other sign-in can lengthen, there being no other.
And the clock of the held session never runs behind its last proof (`HeldIsProved`).

*Limiter and client.* `PacingInv` says that the entries the list keeps within the
window are the grants of the window, and that by the end of a sleep there is room for
one more, in the gap and in the window: a sleeper claims its slot without looking
again. The client's steps are steps of the limiter or leave it alone, so the
guarantees carry over whatever session, breaker, retry and abort do.

What the limiter does not know takes two more invariants. `ClientInv` gives a call a
budget of two sends an attempt, the second for its one recovery (`Budget`); a command,
which is never retried, has one, and a second only when the first was rejected
(`CommandKept`). `RespiteInv` says that what is left of the time a call was told to
wait never exceeds what is left of its back-off, and is nothing outside it. The
provers know nothing of `^`, hence `PowersAssumption`, which TLC evaluates.

*Platform.* Reads overlap, so a discovery works on a list that grows old. `PlatformInv`
says what it relies on all the same. Startup and cycles exclude one another
(`MainKept`), so the accessories cannot grow past what the only discovery listed, nor
can a handler of what it has read be forgotten (`DiscoveryKept`); a targeted refresh,
which may run beside it, creates and removes nothing. An answer names a device at
most once and only if it was asked for (`JobKept`), so a partial answer says of a
device what the whole one would. Removal then leaves two cases, an absent device and
a declined one, and both are evidence.

*Reports.* That two pages exclude each other does not follow from the rows, which may
be an earlier process's or behind what the plugin meant to write. `ReportsInvariant`
therefore ties each row to `#isAuthRejected`, the flag both are written from: a row
whose last write was not lost is on only if the flag says so (`DeskSound`). And
what is left of a running grace covers the silence still missing (`GraceCovers`): the
only step that puts `cloud-offline` on is its expiry. Every operation of the signals
has a lemma that says what it carries from desk to desk, so the lemma of a read
composes those of the operations it makes. `WholeReadsTellTruth` needs no history: a
successful read of every device writes every row from what it read (`RowsSay`), whatever
was lost before. That such a read comes, and comes in time, is left to TLC.

*Lifecycle.* The invariant adds what each stage has armed (`NothingYet` before startup
is through, `AlmostReady` when only Ready is missing), and that the session of a startup
that goes on has not been rejected (`SessionInv`): the rejection that made it so would
have ended startup. `OutagesAreWaitedOut` goes through every way a read may end while
Alarm.com is unwell, or has become well with the floor, the lapse or the open breaker
of an outage left over: each is one that startup retries, a defect excepted. A percentile is right because sorting puts each sample at a place of
its own (`Place`): places differ (`PlacesDiffer`), so each is taken, and as many
samples as the place counts are no greater.

Only model-checked: liveness (`TargetIsRetired`, the fair half of `PromiseKept`,
`ComesBack`, `NoTrap`, `RequestsEnd`, `EveryCallEnds`, `CatchesUp`, `CycleEnds`,
`PagesFollow`, `Settles`), which the prover does not reach. Every safety property of a
passing run is stated by a theorem.

## Findings

Each is a run that TLC finds violated, with the line the statement comes from.

| Run | Statement | What the code does |
|---|---|---|
| `partition_double_release` | "Sending both is what let the panel finish on the countermanded one" (`partition.ts:602`) | a throw while recording a late outcome releases the slot twice; the next request then runs beside the one just sent: the run checks `NeverTwoOut`, the first half of `OneCommandOut`, and ends with both commands out |
| `session_held` | "a session is held as long as it works" (`session-manager.ts:11-12`) | any answer but 200 to one keep-alive discards a session Alarm.com still accepts; the login floor then refuses requests |
| `reports_vacuous_clear` | an alarm is resolved only by reading every partition (`alarmcom-signals.ts:83-86`) | a read that leaves no partition held or asked for counts as complete and resolves the alarm page |
| `lifecycle_gives_up` | startup gives up on "Only failures that need a human" (`discovery-retry.ts:26-30`) | a garbled answer, such as a redirect without the CSRF cookie (`auth.ts:188-193`), a 200 to the form or a page without it, is taken for a rejection or a changed page, and the platform stays idle after the outage |

Also met while modelling, without a run of their own.

*Commands*

- A reading from before a held command is sent can equal its target and retire it
  (`partition.ts:440` against 116-118).
- A held request is sent after a reading withdrew the permission it was admitted
  under (`partition.ts:691` against 559-562).
- A command given up on can be carried out after its successor (`partition.ts:610`
  against 609-612).
- The settle window starts at the request, so a held command can outlive its target
  (`partition.ts:503` against `settings.ts:357-363`).
- In an alarm the target shown is the last one shown, even if the panel was armed
  since (`partition.ts:219`).

*Requests*

- A late probe of an earlier spell frees a slot it does not hold, so more probes run
  than the limit (`circuit-breaker.ts:280` against 36).
- A rejected sign-in is sent again every auth interval (`session-manager.ts:139`
  against `docs/AUTH.md:35`).
- A late 401, or an answer that is not JSON, about an old session discards the new one
  (`client.ts:391`).
- The "exactly once" recovery is once per retry attempt (`client.ts:364`).
- "Longest a caller will be made to wait" leaves out the queue before it
  (`rate-limiter.ts:31`); sign-in and keep-alive are not paced at all.
- `wasNetworked` is true of a request aborted before it was sent (`client.ts:64`).
- A sign-in that fails is seen neither by the outcome window nor by the breaker
  (`client.ts:346-356`): without the stream, a platform whose every sign-in is refused
  stays healthy in its heartbeats. `HealthFollows` promises "degraded" only while a
  session is held or the stream is long down.

*Stream*

- A refresh whose `new WebSocket(url)` throws, of an endpoint or token that makes no
  URL, is forgotten: the generation was bumped two lines before, so the failure takes
  the attempt for superseded and arms no retry, and the live socket stays until
  Alarm.com closes it (`event-stream.ts:347-349` and 548 against 563-565: "keep it and
  retry the cutover soon"). `SocketRefused` models it and `RefreshIsKept` excepts it.
- A refresh begun while the socket is closing ends an outage without `onReconnect`
  (`event-stream.ts:667` against 48).
- A first connection that is refused dates a disconnect (`event-stream.ts:742`
  against 60-67).

*Platform*

- An older poll answer may be applied over a newer targeted reading until the next
  poll; `CatchesUp` is the guarantee that remains.
- A momentary pulse ended by a reading of an unsupported or changed kind leaves its
  contact shown open, and arming blocked (`sensor.ts:206` against
  `types/events.ts:62-63`).
- A targeted refresh of sensors alone whose one request fails still counts as
  `reached` and resolves an account page (`platform.ts:887-891` against 1107 and
  `alarmcom-signals.ts:136-139`).
- An actionable problem reported by two contexts in turn is loud each time
  (`platform.ts:997-1001`).
- Whether an account page is on is a flag, not the row: if the write that clears
  `auth-failed` is lost, an outage that follows is paged beside it
  (`alarmcom-signals.ts:159` against 155-156). `OneCauseOnePage` excepts a lost write.
- The page of an outage is written once, when the grace expires: if that write fails,
  the outage is never paged (`alarmcom-signals.ts:222-229`).

## What is not modelled

- Logger, version, `sanitizers.ts`: formatting, no state. Names, models, inventory
  lines, log wording, StatusActive and StatusFault, the change log.
- Decoding of stream frames and endpoint choice; building URLs and parsing bodies;
  the login form's fields: data only, seen as outcomes.
- The plumbing of the two deadlines around `fetch` in `http.ts`; a request ends in an
  answer, an error, its deadline or its abort.
- The SQL of the signal store, and a Node without `node:sqlite`, where it is disabled.
- Nine of the eleven diagnostic counters (they are kept like the two modelled), and
  the layout of a report.
- The ignored-device list is modelled by its effect in `Platform`, not by its parsing.
- `scripts/`: development tools run by hand against a live account.
- Shutdown's abort inside the session manager's floor sleep: `Client` and `Lifecycle`
  see it as the failure it ends in.

## Plan

1. Done: the components above, and theorems for every safety property that a run checks.
2. `Partition`'s readings composed with `Platform`'s, so that a stale reading meets a
   pending target.

None of the modules declares a `RECURSIVE` operator.
