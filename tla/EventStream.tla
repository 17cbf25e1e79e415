---------------------------- MODULE EventStream -----------------------------
(***************************************************************************)
(* The push connection to Alarm.com (src/src/api/event-stream.ts): token   *)
(* fetches, socket handshakes, the make-before-break refresh, reconnection *)
(* with back-off, giving up and recovering, and stop at any moment.        *)
(*                                                                         *)
(* The stream is one record that the class's methods transform, because    *)
(* they call each other: ScheduleReconnect(s) is #scheduleReconnect run on *)
(* the fields s.  One action is one callback run to completion.  Two       *)
(* counters are kept by what the code asks of them: #connectGeneration by  *)
(* a flag on every attempt and handshake that says it has been bumped      *)
(* since, and #giveUpCount up to two.                                      *)
(***************************************************************************)
EXTENDS Integers, FiniteSets

CONSTANTS
  MaxFailures,    \* WEBSOCKET_MAX_FAILURES
  MaxAttempts     \* bound: token fetches outstanding at once

ASSUME StreamBoundsAssumption ==
  MaxFailures \in Nat \ {0} /\ MaxAttempts \in Nat \ {0}

VARIABLE stream

Attempt == [id : 1..MaxAttempts, defer : BOOLEAN, superseded : BOOLEAN]

\* readyState of the sockets that still have listeners.  A live socket stays
\* referenced when closed; a candidate that opens is promoted at once.
StreamType ==
  [socket : {"none", "connecting", "open", "closing", "closed"},
   candidate : {"none", "connecting", "closing"},
   reconnectTimer : {"none", "drop", "refresh"},
   refreshTimer : BOOLEAN,
   recoveryTimer : BOOLEAN,
   consecutiveFailures : 0..(MaxFailures + 1),
   isStopped : BOOLEAN,
   isConnecting : BOOLEAN,
   hadConnected : BOOLEAN,
   hasGivenUp : BOOLEAN,
   giveUpCount : 0..2,
   disconnectedAt : BOOLEAN,             \* whether it is set
   handshake : {"none", "socket", "candidate", "detached"},  \* whose is unsettled
   handshakeCurrent : BOOLEAN,           \* its generation is #connectGeneration
   connectReason : {"initial", "refresh", "drop"},
   attempts : SUBSET Attempt,            \* #connect calls awaiting their token
   notices : SUBSET {"unavailable", "reconnect", "recovered"}] \* calls made

FreshStream ==
  [socket |-> "none", candidate |-> "none", reconnectTimer |-> "none",
   refreshTimer |-> FALSE, recoveryTimer |-> FALSE, consecutiveFailures |-> 0,
   isStopped |-> FALSE, isConnecting |-> FALSE, hadConnected |-> FALSE,
   hasGivenUp |-> FALSE, giveUpCount |-> 0, disconnectedAt |-> FALSE,
   handshake |-> "none", handshakeCurrent |-> FALSE, connectReason |-> "initial",
   attempts |-> {}, notices |-> {}]

IsConnected(s) == s.socket = "open"
-----------------------------------------------------------------------------
(* The private methods, as functions of the fields.                        *)

ClearTimers(s) ==
  [s EXCEPT !.reconnectTimer = "none", !.refreshTimer = FALSE, !.recoveryTimer = FALSE]

SettleHandshake(s) == [s EXCEPT !.handshake = "none"]

BumpGeneration(s) ==
  [s EXCEPT !.attempts = {[a EXCEPT !.superseded = TRUE] : a \in @},
            !.handshakeCurrent = FALSE]

DisposeCandidate(s) ==
  [s EXCEPT !.candidate = "none",
            !.handshake = IF @ = "candidate" THEN "detached" ELSE @]

\* Mistake: a live socket dropped without the outage being dated.
DisposeSocketUndated(s) ==
  [s EXCEPT !.socket = "none", !.handshake = IF @ = "socket" THEN "detached" ELSE @]

DisposeSocket(s) ==
  IF s.socket = "none" THEN s
  ELSE [s EXCEPT !.socket = "none",
                 !.handshake = IF @ = "socket" THEN "detached" ELSE @,
                 !.disconnectedAt = @ \/ s.socket = "open" \/ s.hadConnected]

NewAttempt(s, defer) ==
  [id |-> CHOOSE i \in 1..MaxAttempts : \A a \in s.attempts : a.id # i,
   defer |-> defer, superseded |-> FALSE]

\* Mistakes: the live socket given up before its successor is there; an attempt
\* that takes over without superseding the ones before it.
BeginAttemptBreakFirst(s) ==
  LET t == DisposeSocket(DisposeCandidate(BumpGeneration(s)))
  IN  [SettleHandshake(t) EXCEPT !.isConnecting = TRUE,
                                 !.attempts = @ \cup {NewAttempt(s, FALSE)}]
BeginAttemptBeside(s) ==
  LET defer == s.connectReason = "refresh" /\ IsConnected(s)
      t == IF defer THEN s ELSE DisposeSocket(DisposeCandidate(s))
  IN  [SettleHandshake(t) EXCEPT !.isConnecting = TRUE,
                                 !.attempts = @ \cup {NewAttempt(s, defer)}]

BeginAttempt(s) ==
  LET defer == s.connectReason = "refresh" /\ IsConnected(s)
      t == IF defer THEN s ELSE DisposeSocket(DisposeCandidate(BumpGeneration(s)))
  IN  [SettleHandshake(t) EXCEPT !.isConnecting = TRUE,
                                 !.attempts = @ \cup {NewAttempt(s, defer)}]

Connect(s) == IF s.isStopped THEN s ELSE BeginAttempt(s)

ScheduleRecovery(s) ==
  IF s.isStopped \/ s.recoveryTimer THEN s ELSE [s EXCEPT !.recoveryTimer = TRUE]

\* Mistake: every give-up reported, those of one outage included.
GiveUpLoudly(s) ==
  ScheduleRecovery([s EXCEPT !.hasGivenUp = TRUE, !.notices = @ \cup {"unavailable"}])

GiveUp(s) ==
  ScheduleRecovery(
    [s EXCEPT !.hasGivenUp = TRUE,
              !.giveUpCount = IF @ < 2 THEN @ + 1 ELSE @,
              !.notices = IF s.giveUpCount = 0 THEN @ \cup {"unavailable"} ELSE @])

\* Mistake: a stream that has given up leaves reconnecting to the recovery timer.
ScheduleReconnectUnlessGivenUp(s) ==
  IF s.isStopped \/ s.reconnectTimer # "none" \/ s.hasGivenUp THEN s
  ELSE LET t == [s EXCEPT !.consecutiveFailures = @ + 1]
       IN  IF t.consecutiveFailures > MaxFailures THEN GiveUp(t)
           ELSE [t EXCEPT !.connectReason = "drop", !.reconnectTimer = "drop"]

ScheduleReconnect(s) ==
  IF s.isStopped \/ s.reconnectTimer # "none" \/ s.recoveryTimer THEN s
  ELSE LET t == [s EXCEPT !.consecutiveFailures = @ + 1]
       IN  IF t.consecutiveFailures > MaxFailures THEN GiveUp(t)
           ELSE [t EXCEPT !.connectReason = "drop", !.reconnectTimer = "drop"]

\* Mistake: a failed refresh that is not tried again.
ScheduleNoRefreshRetry(s) == s

ScheduleRefreshRetry(s) ==
  IF s.isStopped \/ s.reconnectTimer # "none" THEN s
  ELSE [s EXCEPT !.connectReason = "refresh", !.reconnectTimer = "refresh"]

HandleClose(s) ==
  IF s.isStopped THEN s
  ELSE ScheduleReconnect(
         [s EXCEPT !.isConnecting = FALSE, !.disconnectedAt = TRUE,
                   !.refreshTimer = FALSE, !.reconnectTimer = "none",
                   !.connectReason = "drop"])

HandleOpen(s) ==
  [s EXCEPT !.isConnecting = FALSE, !.consecutiveFailures = 0, !.giveUpCount = 0,
            !.disconnectedAt = FALSE, !.connectReason = "drop",
            !.hasGivenUp = FALSE, !.hadConnected = TRUE,
            !.refreshTimer = TRUE,                       \* #scheduleRefresh
            !.notices = @ \cup
              (IF s.hadConnected /\ s.connectReason # "refresh" THEN {"reconnect"} ELSE {})
              \cup (IF s.hasGivenUp THEN {"recovered"} ELSE {})]

\* #openSocket up to the constructor of its WebSocket.
MakeWay(s, attempt) ==
  IF attempt.defer /\ IsConnected(s) THEN DisposeCandidate(BumpGeneration(s))
  ELSE DisposeSocket(DisposeCandidate(s))

\* #openSocket: a candidate beside the live socket, or a socket of its own.
OpenSocket(s, attempt) ==
  IF attempt.defer /\ IsConnected(s)
  THEN [MakeWay(s, attempt) EXCEPT
          !.candidate = "connecting", !.handshake = "candidate",
          !.handshakeCurrent = TRUE]
  ELSE [MakeWay(s, attempt) EXCEPT
          !.socket = "connecting", !.handshake = "socket", !.handshakeCurrent = TRUE]

\* A drop that happened during a refresh's token fetch owns recovery.
DropOwnsRecovery(s, attempt) ==
  attempt.defer /\ (s.reconnectTimer # "none" \/ ~IsConnected(s))

\* Mistake: the token used whatever happened while it was fetched.
OwnsWhatever(s, attempt) == TRUE

OwnsConnection(s, attempt) ==
  ~s.isStopped /\ ~attempt.superseded /\ ~DropOwnsRecovery(s, attempt)
-----------------------------------------------------------------------------
(* The callbacks.  Every step starts with no notice made.                  *)

Before == [stream EXCEPT !.notices = {}]

CanBegin == Cardinality(stream.attempts) < MaxAttempts

Init == stream = FreshStream

\* Called once by the platform; again only after a stop.
Start ==
  /\ stream = FreshStream \/ stream.isStopped
  /\ CanBegin
  /\ stream' = Connect(ClearTimers(
       [Before EXCEPT !.isStopped = FALSE, !.hasGivenUp = FALSE, !.giveUpCount = 0,
                      !.consecutiveFailures = 0, !.hadConnected = FALSE,
                      !.disconnectedAt = FALSE, !.connectReason = "initial"]))

Stop ==
  stream' = DisposeSocket(DisposeCandidate(SettleHandshake(ClearTimers(
              [BumpGeneration(Before) EXCEPT !.isStopped = TRUE,
                                             !.isConnecting = FALSE]))))

TokenArrives(attempt) ==
  LET s == [Before EXCEPT !.attempts = @ \ {attempt}]
  IN  stream' = IF OwnsConnection(s, attempt) THEN OpenSocket(s, attempt)
                ELSE [s EXCEPT !.isConnecting = @ /\ attempt.superseded]

\* The constructor throws, of an endpoint or token that makes no URL.  A refresh
\* has bumped the generation by then and takes itself for superseded.
SocketRefused(attempt) ==
  LET s == [Before EXCEPT !.attempts = @ \ {attempt}]
      t == MakeWay(s, attempt)
  IN  /\ OwnsConnection(s, attempt)
      /\ stream' = IF attempt.defer THEN t
                   ELSE ScheduleReconnect([t EXCEPT !.isConnecting = FALSE])

TokenFails(attempt) ==
  LET s == [Before EXCEPT !.attempts = @ \ {attempt}]
      quiet == [s EXCEPT !.isConnecting = FALSE]
  IN  stream' = IF s.isStopped \/ attempt.superseded THEN s
                ELSE IF DropOwnsRecovery(s, attempt) THEN quiet
                ELSE IF attempt.defer THEN ScheduleRefreshRetry(quiet)
                ELSE ScheduleReconnect(quiet)

\* The refresh timer fires: #reconnect('refresh').
RefreshTimerFires ==
  /\ stream.refreshTimer /\ CanBegin
  /\ stream' = Connect([Before EXCEPT !.refreshTimer = FALSE, !.reconnectTimer = "none",
                                      !.connectReason = "refresh"])

\* The back-off or the refresh retry fires.
ReconnectTimerFires ==
  /\ stream.reconnectTimer # "none" /\ CanBegin
  /\ stream' = Connect(
       [Before EXCEPT !.reconnectTimer = "none", !.connectReason =
          IF stream.reconnectTimer = "refresh" THEN "refresh" ELSE @])

\* Mistakes: a recovery that only arms the next one; the failures of the last
\* cycle counted into the next.
RecoveryTimerRearms ==
  /\ stream.recoveryTimer
  /\ stream' = ScheduleRecovery([Before EXCEPT !.recoveryTimer = FALSE,
                                               !.consecutiveFailures = 0])
RecoveryTimerKeepsCount ==
  /\ stream.recoveryTimer /\ CanBegin
  /\ stream' = Connect([Before EXCEPT !.recoveryTimer = FALSE, !.connectReason = "drop"])

RecoveryTimerFires ==
  /\ stream.recoveryTimer /\ CanBegin
  /\ stream' = Connect([Before EXCEPT !.recoveryTimer = FALSE,
                                      !.consecutiveFailures = 0,
                                      !.connectReason = "drop"])

\* The upgrade succeeds; a candidate is promoted and the live socket let go.
HandshakeOpens ==
  /\ \/ stream.handshake = "socket" /\ stream.socket = "connecting"
     \/ stream.handshake = "candidate" /\ stream.candidate = "connecting"
  /\ stream' = IF ~stream.handshakeCurrent THEN SettleHandshake(Before)
               ELSE SettleHandshake(HandleOpen(
                      [Before EXCEPT !.socket = "open", !.candidate = "none"]))

HandshakeTimesOut ==
  LET s == [Before EXCEPT !.isConnecting = FALSE]
  IN  /\ stream.handshake # "none"
      /\ stream' =
           IF ~stream.handshakeCurrent THEN SettleHandshake(Before)
           ELSE IF stream.handshake = "candidate" /\ IsConnected(s)
           THEN ScheduleRefreshRetry(SettleHandshake(DisposeCandidate(s)))
           ELSE IF stream.handshake = "detached" THEN SettleHandshake(s)
           ELSE ScheduleReconnect(SettleHandshake(DisposeSocket(DisposeCandidate(s))))

\* 'close' on the candidate.
CandidateCloses ==
  LET s == SettleHandshake([Before EXCEPT !.candidate = "none", !.isConnecting = FALSE])
  IN  /\ stream.candidate = "closing"
      /\ stream' = IF IsConnected(s) THEN ScheduleRefreshRetry(s) ELSE HandleClose(s)

\* 'close' on the live socket.
SocketCloses ==
  LET s == DisposeCandidate([Before EXCEPT !.socket = "closed"])
  IN  /\ stream.socket = "closing"
      /\ stream' = HandleClose(IF stream.handshake = "socket" THEN SettleHandshake(s) ELSE s)

\* External: the server, or a refused upgrade, ends a socket; its 'close' event
\* has yet to be delivered.
SocketDies ==
  \/ /\ stream.socket \in {"connecting", "open"}
     /\ stream' = [Before EXCEPT !.socket = "closing"]
  \/ /\ stream.candidate = "connecting"
     /\ stream' = [Before EXCEPT !.candidate = "closing"]

Next ==
  \/ Start
  \/ Stop
  \/ \E a \in stream.attempts : TokenArrives(a)
  \/ \E a \in stream.attempts : SocketRefused(a)
  \/ \E a \in stream.attempts : TokenFails(a)
  \/ RefreshTimerFires
  \/ ReconnectTimerFires
  \/ RecoveryTimerFires
  \/ HandshakeOpens
  \/ HandshakeTimesOut
  \/ CandidateCloses
  \/ SocketCloses
  \/ SocketDies

Spec == Init /\ [][Next]_stream

OwnersToken == \E a \in stream.attempts : ~a.superseded /\ TokenArrives(a)

\* Timers fire, fetches and handshakes end and close events are delivered; and
\* Alarm.com does not always answer with no token, or with one that opens no
\* socket, nor does it let every handshake die.
LiveSpec ==
  /\ Spec
  /\ WF_stream(\E a \in stream.attempts :
                 TokenArrives(a) \/ SocketRefused(a) \/ TokenFails(a))
  /\ WF_stream(RefreshTimerFires)
  /\ WF_stream(ReconnectTimerFires)
  /\ WF_stream(RecoveryTimerFires)
  /\ WF_stream(HandshakeTimesOut)
  /\ WF_stream(CandidateCloses)
  /\ WF_stream(SocketCloses)
  /\ SF_stream(OwnersToken)
  /\ SF_stream(HandshakeOpens)
-----------------------------------------------------------------------------
(* Properties.                                                             *)

IsRunning == stream # FreshStream /\ ~stream.isStopped

\* The stream keeps its type; in particular no failure is counted past give-up.
StreamTypeOK == stream \in StreamType

\* A running stream that is not live always has something under way that will
\* bring it back: a close event to come, a timer, an attempt that still owns the
\* connection or a handshake with its timeout (event-stream.ts:540-576).
NeverStranded ==
  IsRunning =>
    \/ stream.socket \in {"open", "closing"}
    \/ stream.reconnectTimer # "none" \/ stream.recoveryTimer
    \/ \E a \in stream.attempts : ~a.superseded
    \/ stream.socket = "connecting" /\ stream.handshake = "socket"

\* A live socket has its replacement coming before the token expires
\* (event-stream.ts:690-699).
LiveIsRefreshed ==
  stream.socket = "open" =>
    \/ stream.refreshTimer
    \/ stream.reconnectTimer = "refresh"
    \/ \E a \in stream.attempts : a.defer /\ ~a.superseded
    \/ stream.candidate # "none"

\* One attempt at most owns the connection, and one that is not a refresh owns
\* it alone: no second live socket, no doubled refresh (event-stream.ts:759-760).
OneOwner ==
  /\ \A a, b \in stream.attempts : ~a.superseded /\ ~b.superseded => a = b
  /\ \A a \in stream.attempts :
       ~a.superseded /\ ~a.defer => /\ stream.socket = "none"
                                    /\ stream.candidate = "none"
                                    /\ stream.reconnectTimer = "none"

\* After a stop nothing is left that could open a socket, and a fetch that was
\* outstanding no longer owns the connection (event-stream.ts:133-137).
StopIsFinal ==
  stream.isStopped =>
    /\ stream.socket = "none" /\ stream.candidate = "none"
    /\ stream.handshake = "none"
    /\ stream.reconnectTimer = "none" /\ ~stream.refreshTimer /\ ~stream.recoveryTimer
    /\ \A a \in stream.attempts : a.superseded

\* Health can date an outage: a stream that was connected and is not knows since
\* when, and one that is connected reports none (event-stream.ts:60-68).
OutageIsDated ==
  /\ stream.socket = "open" => ~stream.disconnectedAt
  /\ (IsRunning /\ stream.hadConnected /\ stream.socket \notin {"open", "closing"})
       => stream.disconnectedAt

\* What every state of the stream satisfies: its type, one owner of the connection,
\* nothing left after a stop, and every outage dated.
ConnectionSound == StreamTypeOK /\ OneOwner /\ StopIsFinal /\ OutageIsDated

\* The client never lets go of an open socket: it is lost to the server, stopped,
\* or replaced in the step that opens its successor (event-stream.ts:275-283).
LiveIsOnlyReplaced ==
  [][ (stream.socket = "open" /\ stream'.socket # "open")
        => stream'.socket = "closing" \/ stream'.isStopped ]_stream

\* No refresh gives up on the replacement of a live socket, whatever order tokens,
\* handshakes, closes and timers come in (event-stream.ts:563-571): only one whose
\* socket cannot be constructed does, taking itself for superseded.
RefreshIsKept ==
  [][ LiveIsRefreshed =>
        \/ LiveIsRefreshed'
        \/ \E a \in stream.attempts : a.defer /\ SocketRefused(a) ]_stream

\* The stream refines the promise made to the platform: one "unavailable" per
\* outage, one "recovered" after it and none otherwise.
Link == INSTANCE PushLink WITH
  phase <- IF ~IsRunning THEN "stopped"
           ELSE IF stream.socket = "open" THEN "live"
           ELSE IF stream.hasGivenUp THEN "polling" ELSE "seeking",
  notices <- stream.notices \cap {"unavailable", "recovered"}
LinkKept == Link!Spec

\* Unless it is stopped, a stream is eventually live again.
ComesBack == IsRunning ~> (stream.socket = "open" \/ stream.isStopped)
=============================================================================
