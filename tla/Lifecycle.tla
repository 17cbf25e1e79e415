------------------------------- MODULE Lifecycle -------------------------------
(***************************************************************************)
(* The platform from its construction to its shutdown                      *)
(* (src/src/platform.ts): the configuration it is built with, the startup  *)
(* that retries discovery, the timers and the stream it starts, Ready, the *)
(* heartbeats, and a shutdown at any moment.                               *)
(*                                                                         *)
(* A discovery and a poll are a read each, of one request and the sign-in  *)
(* it may need; Platform, Client and SessionManager model what is inside   *)
(* them, and EventStream the stream, whose token requests are left out.    *)
(***************************************************************************)
EXTENDS SignIn, Config, Diagnostics

CONSTANTS
  RawConfigs,  \* blocks of config.json
  Launched,    \* bound: those of them a platform is run with
  MaxMoves     \* bound: changes of what Alarm.com does

ASSUME LifecycleAssumption ==
  /\ Launched \subseteq RawConfigs /\ MaxMoves \in Nat
  /\ \A raw \in RawConfigs :
       {raw.pollIntervalSeconds, raw.authIntervalMinutes, raw.diagnosticsInterval}
         \subseteq [kind : {"absent", "other", "number"}, halves : Int]

VARIABLES
  config,     \* #config
  stage,      \* where #start is
  down,       \* #isShuttingDown
  timers,     \* those armed: #pollTimer, #keepAliveTimer, the heartbeat, the retry
  cycle,      \* #refreshAllInFlight
  session,    \* held; none; or none within the login floor, throttled or rejected
  breaker,    \* the breaker is open
  stream,     \* #eventStream: none, or what its status says
  collector,  \* the diagnostics
  service,    \* external: what Alarm.com is like
  moves       \* bound: what is used of MaxMoves

vars == <<config, stage, down, timers, cycle, session, breaker, stream, collector, service, moves>>

Stages == {"inert", "loaded", "discovering", "sleeping", "opening", "ready", "failed", "over"}
Streams == {"none", "connecting", "up", "down", "long down"}
AllTimers == {"poll", "keep-alive", "heartbeat", "retry"}
Sessions == {"held", "none", "throttled", "rejected"}
Services == {"well", "unwell", "garbled", "refusing"}

\* Mistake: 0 taken for an interval.
IsEnabledAtZero == config.diagnosticsInterval >= 0

\* isEnabled
IsEnabled == config.diagnosticsInterval > 0

Health == Rollup(collector, breaker, config.useEventStream /\ stream = "long down")
-----------------------------------------------------------------------------
(* External: what Alarm.com answers.  Unwell, it loses requests or answers *)
(* with the statuses of an outage.  Garbled, an outage answers as if it    *)
(* were none: a page without the form, the form once more, a redirect      *)
(* without the cookie.  Refusing, it has changed the form or takes neither *)
(* the sign-in nor the sessions it gave.                                   *)

UnwellStatuses == {403, 429, 503}
Lost == Failed("NETWORK_ERROR")
GoodPage == Page(200, FALSE, TRUE)

\* The two replies of a sign-in that fails.
Exchanges ==
  CASE service = "unwell" ->
         {<<Lost, Lost>>, <<GoodPage, Lost>>}
           \cup {<<Page(s, FALSE, FALSE), Lost>> : s \in UnwellStatuses}
           \cup {<<GoodPage, Posted(s, <<>>)>> : s \in UnwellStatuses}
    [] service = "garbled" ->
         {<<Page(200, FALSE, FALSE), Lost>>}
           \cup {<<GoodPage, Posted(s, <<>>)>> : s \in {200, 302}}
    [] service = "refusing" ->
         {<<Page(200, FALSE, FALSE), Lost>>, <<Page(409, TRUE, FALSE), Lost>>}
           \cup {<<GoodPage, Posted(s, <<>>)>> : s \in {200, 409}}
    [] OTHER -> {}

\* The errors of a request sent with a session.
Refusals ==
  CASE service = "unwell" -> {Lost.error} \cup {CreateApiError(s, FALSE) : s \in UnwellStatuses}
    [] service \in {"garbled", "refusing"} -> {"SESSION_EXPIRED", "API_PARSE_ERROR"}
    [] OTHER -> {}
-----------------------------------------------------------------------------
(* How a read may end: its error or "none"; what #timedAttempt notes of    *)
(* it, which is nothing of a sign-in; and the session it leaves.           *)

End(error, noted, left) == [error |-> error, noted |-> noted, left |-> left]

\* The errors of getSession: the floor's, or those of the exchange.
SignInFailures ==
  CASE session = "throttled" -> {"LOGIN_THROTTLED"}
    [] session = "rejected" -> AuthenticationErrors
    [] session = "none" -> {Authenticate(x[1], x[2]) : x \in Exchanges}
    [] OTHER -> {}

\* What a sign-in that fails leaves: only a rejection stamps the whole floor.
LeftBy(e) ==
  IF e \in AuthenticationErrors THEN "rejected"
  ELSE IF e = "LOGIN_THROTTLED" THEN "throttled" ELSE "none"

\* getSession has one to give.
IsSignedIn == session = "held" \/ (session = "none" /\ service \in {"well", "unwell"})

\* An answer that comes may still trip over a defect of the code that publishes it.
Ends ==
  {End(e, "nothing", LeftBy(e)) : e \in SignInFailures}
    \cup {End(e, "failure", "held") :
            e \in IF ~IsSignedIn THEN {} ELSE IF breaker THEN {"CIRCUIT_OPEN"} ELSE Refusals}
    \cup {End(e, "success", "held") :
            e \in IF IsSignedIn /\ ~breaker /\ service = "well" THEN {"none", "DEFECT"} ELSE {}}

\* Aborted by the shutdown: signing in, or sent.
Cancellations ==
  {End("OPERATION_ABORTED", "nothing", session)}
    \cup IF IsSignedIn THEN {End("OPERATION_ABORTED", "failure", "held")} ELSE {}

Note(desk, end) == IF end.noted = "nothing" THEN desk ELSE ApiRequest(desk, end.noted = "success")

\* A failure may open the breaker, in the end: CircuitBreaker says when.
Settled(end) ==
  /\ session' = end.left
  /\ breaker' \in {breaker, breaker \/ end.noted = "failure"}
-----------------------------------------------------------------------------
Init ==
  /\ \E raw \in Launched : config = ValidateConfig(raw)
  /\ stage = (IF config.isUsable THEN "loaded" ELSE "inert")
  /\ down = FALSE /\ timers = {} /\ cycle = FALSE /\ stream = "none"
  /\ session = "none" /\ breaker = FALSE /\ collector = NewCollector
  /\ service \in Services /\ moves = 0

\* didFinishLaunching; noteBootFailure says its piece in the debug log.
Launch ==
  /\ stage = "loaded" /\ stage' = IF down THEN "over" ELSE "discovering"
  /\ UNCHANGED <<config, down, timers, cycle, session, breaker, stream, collector, service, moves>>

\* Mistake: the heartbeat started whatever has happened since.
BecomeReadyRegardless(desk, armed, health) ==
  /\ stage' = "ready"
  /\ timers' = armed \cup (IF IsEnabled THEN {"heartbeat"} ELSE {})
  /\ collector' = IF IsEnabled THEN Start(desk, health) ELSE desk

\* The end of #start: Ready, then the start line; nothing once it has been shut down.
BecomeReady(desk, armed, health) ==
  IF down THEN stage' = "over" /\ timers' = armed /\ collector' = desk
  ELSE /\ stage' = "ready"
       /\ timers' = armed \cup (IF IsEnabled THEN {"heartbeat"} ELSE {})
       /\ collector' = IF IsEnabled THEN Start(desk, health) ELSE desk

DiscoverySucceeds ==
  /\ stage = "discovering" /\ ~down
  /\ \E end \in Ends :
       LET noted == Note(collector, end)
           armed == timers \cup {"poll", "keep-alive"}
       IN  /\ end.error = "none" /\ Settled(end)
           /\ IF config.useEventStream
              THEN /\ stage' = "opening" /\ stream' = "connecting"
                   /\ timers' = armed /\ collector' = noted
              ELSE /\ BecomeReady(noted, armed, Rollup(noted, FALSE, FALSE))
                   /\ UNCHANGED stream
  /\ UNCHANGED <<config, down, cycle, service, moves>>

DiscoveryFails ==
  /\ stage = "discovering" /\ ~down
  /\ \E end \in Ends :
       /\ end.error # "none" /\ Settled(end)
       /\ IF RetriesDiscovery(end.error)
          THEN stage' = "sleeping" /\ timers' = timers \cup {"retry"}
          ELSE stage' = "failed" /\ UNCHANGED timers
       /\ collector' = Note(collector, end)
  /\ UNCHANGED <<config, down, cycle, stream, service, moves>>

DiscoveryCancelled ==
  /\ stage = "discovering" /\ down /\ stage' = "over"
  /\ \E end \in Cancellations : Settled(end) /\ collector' = Note(collector, end)
  /\ UNCHANGED <<config, down, timers, cycle, stream, service, moves>>

\* #sleepUnlessShuttingDown wakes.
RetryTimer ==
  /\ stage = "sleeping" /\ "retry" \in timers
  /\ stage' = "discovering" /\ timers' = timers \ {"retry"}
  /\ UNCHANGED <<config, down, cycle, session, breaker, stream, collector, service, moves>>

\* The first handshake, or the token it failed to get, has settled; or stop has settled it.
StreamSettles ==
  /\ stage = "opening"
  /\ stream' \in IF down THEN {"none"}
                 ELSE IF service = "well" THEN {"up", "connecting"} ELSE {"connecting", "down"}
  /\ BecomeReady(collector, timers, Rollup(collector, breaker, FALSE))
  /\ UNCHANGED <<config, down, cycle, session, breaker, service, moves>>

\* The stream drops, or is refused, and may stay down for WS_DOWN_THRESHOLD_SEC.
StreamDrops ==
  /\ stage = "ready" /\ ~down
  /\ \/ stream \in {"up", "connecting"} /\ service # "well" /\ stream' = "down"
     \/ stream = "down" /\ stream' = "long down"
  /\ UNCHANGED <<config, stage, down, timers, cycle, session, breaker, collector, service, moves>>

StreamRecovers ==
  /\ stage = "ready" /\ ~down /\ service = "well"
  /\ stream \in {"connecting", "down", "long down"} /\ stream' = "up"
  /\ UNCHANGED <<config, stage, down, timers, cycle, session, breaker, collector, service, moves>>

\* External: the breaker's reset time-out.
BreakerResets ==
  /\ breaker /\ breaker' = FALSE
  /\ UNCHANGED <<config, stage, down, timers, cycle, session, stream, collector, service, moves>>
-----------------------------------------------------------------------------
PollTimer ==
  /\ "poll" \in timers /\ ~cycle
  /\ cycle' = TRUE
  /\ UNCHANGED <<config, stage, down, timers, session, breaker, stream, collector, service, moves>>

PollSucceeds ==
  /\ cycle /\ ~down /\ cycle' = FALSE
  /\ \E end \in Ends :
       /\ end.error = "none" /\ Settled(end)
       /\ collector' = PollCycle(Note(collector, end), TRUE)
  /\ UNCHANGED <<config, stage, down, timers, stream, service, moves>>

PollFails ==
  /\ cycle /\ cycle' = FALSE
  /\ \E end \in IF down THEN Cancellations ELSE Ends :
       /\ end.error # "none" /\ Settled(end)
       /\ collector' = PollCycle(Note(collector, end), FALSE)
  /\ UNCHANGED <<config, stage, down, timers, stream, service, moves>>

\* #withSessionRecovery: the lapse is noted, the session invalidated, and the read goes on
\* to sign in.
Lapses ==
  /\ session = "held" /\ ~breaker /\ ~down /\ (stage = "discovering" \/ cycle)
  /\ \E e \in Refusals : IsLapsedSession(e)
  /\ session' \in {"none", "throttled"} /\ breaker' \in BOOLEAN
  /\ collector' = ApiRequest(collector, FALSE)
  /\ UNCHANGED <<config, stage, down, timers, cycle, stream, service, moves>>

\* The session ages out; or keep-alives find it gone, before or after the floor passes.
SessionEnds ==
  /\ session = "held"
  /\ \/ session' = "none"
     \/ "keep-alive" \in timers /\ service # "well" /\ session' = "throttled"
  /\ UNCHANGED <<config, stage, down, timers, cycle, breaker, stream, collector, service, moves>>

FloorPasses ==
  /\ session \in {"throttled", "rejected"} /\ session' = "none"
  /\ UNCHANGED <<config, stage, down, timers, cycle, breaker, stream, collector, service, moves>>

HeartbeatTimer ==
  /\ "heartbeat" \in timers
  /\ collector' = Heartbeat(collector, Health)
  /\ UNCHANGED <<config, stage, down, timers, cycle, session, breaker, stream, service, moves>>

\* Mistake: a sleep that ends with its timer, which is cleared.
ShutdownAsleep ==
  /\ ~down /\ down' = TRUE
  /\ timers' = {} /\ stream' = "none"
  /\ UNCHANGED <<config, stage, cycle, session, breaker, collector, service, moves>>

\* #shutdown: the retry is resolved, work in flight aborted, the stop line written,
\* timers cleared, the stream stopped.
Shutdown ==
  /\ stage # "inert" /\ ~down /\ down' = TRUE
  /\ stage' = IF stage = "sleeping" THEN "over" ELSE stage
  /\ timers' = {} /\ stream' = "none"
  /\ UNCHANGED <<config, cycle, session, breaker, collector, service, moves>>

ServiceChanges ==
  /\ moves < MaxMoves /\ moves' = moves + 1
  /\ service' \in Services \ {service}
  /\ UNCHANGED <<config, stage, down, timers, cycle, session, breaker, stream, collector>>

Next ==
  \/ Launch \/ DiscoverySucceeds \/ DiscoveryFails \/ DiscoveryCancelled \/ RetryTimer
  \/ StreamSettles \/ StreamDrops \/ StreamRecovers \/ BreakerResets
  \/ PollTimer \/ PollSucceeds \/ PollFails \/ HeartbeatTimer
  \/ Lapses \/ SessionEnds \/ FloorPasses
  \/ Shutdown \/ ServiceChanges

Spec == Init /\ [][Next]_vars

\* Homebridge launches, timers fire, reads and handshakes end, the breaker resets, the
\* login floor passes, a stream that is down stays down or reconnects.
LiveSpec ==
  /\ Spec
  /\ WF_vars(Launch) /\ WF_vars(DiscoverySucceeds \/ DiscoveryFails)
  /\ WF_vars(DiscoveryCancelled) /\ WF_vars(RetryTimer)
  /\ WF_vars(StreamSettles) /\ WF_vars(StreamDrops /\ stream = "down") /\ WF_vars(StreamRecovers)
  /\ WF_vars(BreakerResets) /\ WF_vars(FloorPasses)
  /\ WF_vars(PollTimer) /\ WF_vars(PollSucceeds \/ PollFails) /\ WF_vars(HeartbeatTimer)
-----------------------------------------------------------------------------
(* Properties.                                                             *)

LifecycleTypeOK ==
  /\ stage \in Stages /\ stream \in Streams /\ timers \subseteq AllTimers
  /\ session \in Sessions /\ breaker \in BOOLEAN
  /\ collector.outcomes \in BoundedSeq(BOOLEAN, OutcomeWindow)
  /\ {collector.lastHealth, collector.told} \subseteq Healths

\* A number is in effect as given, rounded, or a warning says otherwise.
IsTaken(given, effective, field, warnings) ==
  given.kind = "number" /\ field \notin warnings => effective = Round(given.halves)

\* Every setting in effect is within its range, whatever was configured, and one that is
\* not the number given, rounded, came with a warning (validators.ts:112-165).  Asked
\* once, when the platform is loaded.
SettingsInRange ==
  stage = "loaded" => \A raw \in RawConfigs :
    LET c == ValidateConfig(raw)
    IN  c.isUsable =>
          /\ c.pollIntervalSeconds \in MIN_POLL_INTERVAL_SEC..MAX_POLL_INTERVAL_SEC
          /\ c.authIntervalMinutes \in MIN_AUTH_INTERVAL_MIN..MAX_AUTH_INTERVAL_MIN
          /\ c.diagnosticsInterval = 0
               \/ c.diagnosticsInterval \in MIN_DIAGNOSTICS_INTERVAL_SEC..MAX_DIAGNOSTICS_INTERVAL_SEC
          /\ IsTaken(raw.pollIntervalSeconds, c.pollIntervalSeconds, "poll", c.warnings)
          /\ IsTaken(raw.authIntervalMinutes, c.authIntervalMinutes, "auth", c.warnings)
          /\ IsTaken(raw.diagnosticsInterval, c.diagnosticsInterval, "diagnostics", c.warnings)

\* A percentile is a sample that rank percent of the samples do not exceed, and the
\* least of those (collector.ts:221-243).  Asked once, too.
PercentilesRanked ==
  stage = "loaded" => \A s \in BoundedSeq(0..2, 4) \ {<<>>}, rank \in {50, 95} :
    LET p == Percentile(s, rank)
        Share(P(_)) == 100 * Cardinality({i \in DOMAIN s : P(s[i])})
    IN  /\ Share(LAMBDA x : x <= p) >= rank * Len(s)
        /\ Share(LAMBDA x : x < p) < rank * Len(s)

\* After a shutdown no timer is armed and no stream is left, whichever await of the
\* startup it came in, then and ever after (platform.ts:321-327).
NothingOutlivesShutdown ==
  down => timers = {} /\ stream = "none"

\* Ready means ready: it polls, keeps the session, has the stream and the heartbeat it was
\* asked for (platform.ts:308-331).
ReadyIsWhole ==
  (stage = "ready" /\ ~down) =>
    /\ {"poll", "keep-alive"} \subseteq timers
    /\ config.useEventStream <=> stream # "none"
    /\ config.diagnosticsInterval # 0 <=> "heartbeat" \in timers

\* Startup gives up only when Alarm.com has refused the sign-in or its page has changed,
\* or over a defect: it needs a human (discovery-retry.ts:23-31, 61-63).
GivesUpOnlyOnRefusal ==
  [][ stage # "failed" /\ stage' = "failed"
        => service = "refusing" \/ collector' = ApiRequest(collector, TRUE) ]_vars

\* An outage that shows as one is waited out, whatever it interrupts, and so is what it
\* leaves behind: a lapsed session, a login floor, an open breaker.  What startup gives up
\* on is an answer that says no, or a defect once Alarm.com has answered.
OutageIsWaitedOut ==
  [][ stage # "failed" /\ stage' = "failed"
        => \/ service \in {"refusing", "garbled"}
           \/ service = "well" /\ collector' = ApiRequest(collector, TRUE) ]_vars

\* A change of health is announced once: what was last announced is what the last
\* heartbeat found (reporter.ts:107-128).
ToldHealth ==
  collector.lastHealth # "none" => collector.told = collector.lastHealth

\* Every poll is in exactly one heartbeat (collector.ts:290-314).
EachCountedOnce ==
  collector.reported = collector.marker

\* What every state of a life satisfies.
LifecycleSound ==
  LifecycleTypeOK /\ NothingOutlivesShutdown /\ ReadyIsWhole /\ ToldHealth /\ EachCountedOnce

\* What the pure functions compute is what they are asked for.
ComputedRight == SettingsInRange /\ PercentilesRanked

\* Startup ends: in Ready once Alarm.com is well, and in any case after a shutdown, when
\* the poll in flight ends too (platform.ts:352-358, 384-408).
StartupEnds ==
  /\ <>[](service = "well") => <>(stage \in {"inert", "ready", "failed", "over"})
  /\ down ~> stage \in {"ready", "failed", "over"} /\ ~cycle

Reporting == stage = "ready" /\ ~down /\ IsEnabled

\* What is announced follows what lasts: health when Alarm.com is well, requests that fail
\* with a session held, and a stream that stays down.  A sign-in that fails is not counted
\* (client.ts:346-356), so without the stream it shows in neither.
HealthFollows ==
  /\ <>[](Reporting /\ service = "well") => <>[](collector.told = "healthy")
  /\ <>[](Reporting /\ service = "unwell" /\ session = "held") => <>[](collector.told = "degraded")
  /\ <>[](Reporting /\ stream \in {"down", "long down"}) => <>[](collector.told = "degraded")

\* Whatever lasts is arrived at and announced.
Settles == StartupEnds /\ HealthFollows
=============================================================================
