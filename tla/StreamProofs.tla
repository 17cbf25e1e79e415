---------------------------- MODULE StreamProofs ----------------------------
(***************************************************************************)
(* What the push connection guarantees, for every number of failures it    *)
(* tolerates and of token fetches outstanding: one owner of the connection *)
(* at a time, never nobody while the stream runs, a live socket never      *)
(* given up but for its replacement, whose coming no failed refresh but    *)
(* one forgets, and nothing left after a stop.                             *)
(*                                                                         *)
(* None of these is inductive.  What the class relies on without saying it *)
(* is that the ways back exclude each other: SocketsAgree ties a handshake *)
(* to the socket it is for, OneWayBack says which timers, attempts and     *)
(* sockets cannot be there together.                                       *)
(*                                                                         *)
(* The methods are functions of the fields, so the invariant is stated of  *)
(* a record, and each method has a lemma: of the small ones, what they     *)
(* leave and what they change; of Connect, ScheduleReconnect and           *)
(* ScheduleRefreshRetry, which end every callback, when they restore it.   *)
(***************************************************************************)
EXTENDS EventStream, FiniteSetTheorems, TLAPS

Owners(s) == {a \in s.attempts : ~a.superseded}

OneOwnerIn(s) ==
  /\ \A a, b \in Owners(s) : a = b
  /\ \A a \in Owners(s) : ~a.defer =>
       s.socket = "none" /\ s.candidate = "none" /\ s.reconnectTimer = "none"

StopIsFinalIn(s) ==
  s.isStopped =>
    /\ s.socket = "none" /\ s.candidate = "none" /\ s.handshake = "none"
    /\ s.reconnectTimer = "none" /\ ~s.refreshTimer /\ ~s.recoveryTimer
    /\ Owners(s) = {}

\* Of a stream that was connected; one that was not has nothing to date.
DatedIn(s) ==
  /\ s.socket = "open" => ~s.disconnectedAt
  /\ s.hadConnected /\ ~s.isStopped /\ s.socket \notin {"open", "closing"} => s.disconnectedAt

WayBackIn(s) ==
  s # FreshStream /\ ~s.isStopped =>
    \/ s.socket \in {"open", "closing"}
    \/ s.reconnectTimer # "none" \/ s.recoveryTimer
    \/ Owners(s) # {}
    \/ s.socket = "connecting" /\ s.handshake = "socket"

\* Of a stream none of whose refreshes failed to construct its socket: what every
\* other callback keeps, though not part of the invariant.
RefreshedIn(s) ==
  s.socket = "open" =>
    \/ s.refreshTimer \/ s.reconnectTimer = "refresh"
    \/ \E a \in Owners(s) : a.defer
    \/ s.candidate # "none"

\* A handshake in progress is that of the socket or the candidate it was made for.
SocketsAgree(s) ==
  /\ s.socket = "connecting" => s.handshake = "socket"
  /\ s.handshake = "socket" => s.socket \in {"connecting", "closing"}
  /\ s.candidate # "none" <=> s.handshake = "candidate"
  /\ s.candidate # "none" => s.socket \notin {"none", "connecting"}
  /\ s.handshake \in {"socket", "candidate"} => s.handshakeCurrent

\* Of the handshake, the timers and the attempts, which exclude each other.
OneWayBack(s) ==
  /\ s.handshake \in {"socket", "candidate"} =>
       Owners(s) = {} /\ s.reconnectTimer = "none" /\ ~s.recoveryTimer /\ ~s.refreshTimer
  /\ s.refreshTimer =>
       /\ s.socket \in {"open", "closing"}
       /\ Owners(s) = {} /\ s.reconnectTimer = "none" /\ ~s.recoveryTimer
  /\ s.reconnectTimer = "refresh" => s.socket \in {"open", "closing"} /\ Owners(s) = {}
  /\ s.reconnectTimer = "drop" => s.socket \in {"none", "closing", "closed"}
  /\ s.recoveryTimer =>
       /\ s.reconnectTimer = "none" /\ s.socket \in {"none", "closing", "closed"}
       /\ \A a \in Owners(s) : a.defer
  /\ \A a \in Owners(s) : a.defer =>
       s.socket \in {"open", "closing"} \/ s.reconnectTimer = "drop" \/ s.recoveryTimer

\* Giving up is counted while it lasts, and a live stream has not given up.
GivenUpCounted(s) ==
  (s.hasGivenUp <=> s.giveUpCount # 0) /\ (s.socket = "open" => ~s.hasGivenUp)

\* A count past the limit waits for the recovery that resets it.
CountedOut(s) == s.consecutiveFailures = MaxFailures + 1 => s.recoveryTimer \/ s.isStopped

Inv(s) ==
  /\ s \in StreamType
  /\ OneOwnerIn(s) /\ StopIsFinalIn(s) /\ DatedIn(s) /\ WayBackIn(s)
  /\ SocketsAgree(s) /\ OneWayBack(s) /\ CountedOut(s) /\ GivenUpCounted(s)

StreamInv == Inv(stream)
-----------------------------------------------------------------------------
(* What the small methods change, and that they leave the rest.            *)

SameTimers(s, t) ==
  /\ t.reconnectTimer = s.reconnectTimer /\ t.refreshTimer = s.refreshTimer
  /\ t.recoveryTimer = s.recoveryTimer

SameSockets(s, t) == t.socket = s.socket /\ t.candidate = s.candidate

SameHandshake(s, t) ==
  t.handshake = s.handshake /\ t.handshakeCurrent = s.handshakeCurrent

SamePast(s, t) ==
  /\ t.isStopped = s.isStopped /\ t.hadConnected = s.hadConnected
  /\ t.disconnectedAt = s.disconnectedAt

SamePlans(s, t) ==
  /\ t.attempts = s.attempts /\ t.consecutiveFailures = s.consecutiveFailures
  /\ t.connectReason = s.connectReason

SameNews(s, t) ==
  t.hasGivenUp = s.hasGivenUp /\ t.giveUpCount = s.giveUpCount /\ t.notices = s.notices

LEMMA BoundsAreNatural == MaxFailures \in Nat \ {0} /\ MaxAttempts \in Nat \ {0}
BY StreamBoundsAssumption

-----------------------------------------------------------------------------
(* The assignments the methods are made of, each of one record: what it    *)
(* leaves and that the result is a stream.  Leaves about two typed records *)
(* are slow for the provers, so the methods' lemmas cite these.            *)

PutHandshake(s, h) ==
  [s EXCEPT !.candidate = "none", !.handshake = h]

HasHandshake(s, t, h) ==
  /\ t \in StreamType /\ t.candidate = "none" /\ t.socket = s.socket
  /\ t.handshake = h /\ t.handshakeCurrent = s.handshakeCurrent
  /\ SameTimers(s, t) /\ SamePast(s, t) /\ SamePlans(s, t) /\ SameNews(s, t)

LEMMA SetHandshake ==
  ASSUME NEW s \in StreamType, NEW h \in {"none", "socket", "candidate", "detached"}
  PROVE  HasHandshake(s, PutHandshake(s, h), h)
BY DEF PutHandshake, HasHandshake, StreamType, SameTimers, SamePast, SamePlans, SameNews

PutSocketGone(s, h, d) ==
  [s EXCEPT !.socket = "none", !.handshake = h, !.disconnectedAt = d]

HasSocketGone(s, t, h, d) ==
  /\ t \in StreamType /\ t.socket = "none" /\ t.candidate = s.candidate
  /\ t.handshake = h /\ t.handshakeCurrent = s.handshakeCurrent
  /\ t.disconnectedAt = d /\ t.isStopped = s.isStopped
  /\ t.hadConnected = s.hadConnected
  /\ SameTimers(s, t) /\ SamePlans(s, t) /\ SameNews(s, t)

LEMMA SetSocketGone ==
  ASSUME NEW s \in StreamType, NEW h \in {"none", "socket", "candidate", "detached"},
         NEW d \in BOOLEAN
  PROVE  HasSocketGone(s, PutSocketGone(s, h, d), h, d)
<1> DEFINE t == PutSocketGone(s, h, d)
<1>0. t.disconnectedAt = d BY DEF PutSocketGone, StreamType
<1>1. t \in StreamType BY DEF PutSocketGone, StreamType
<1>2. /\ t.socket = "none" /\ t.candidate = s.candidate
      /\ t.handshake = h /\ t.handshakeCurrent = s.handshakeCurrent
      /\ t.isStopped = s.isStopped /\ t.hadConnected = s.hadConnected
      /\ SameTimers(s, t) /\ SamePlans(s, t) /\ SameNews(s, t)
  BY DEF PutSocketGone, StreamType, SameTimers, SamePlans, SameNews
<1> QED BY <1>0, <1>1, <1>2 DEF HasSocketGone

PutSuperseded(s, as) ==
  [s EXCEPT !.attempts = as, !.handshakeCurrent = FALSE]

HasSuperseded(s, t, as) ==
  /\ t \in StreamType /\ t.attempts = as /\ ~t.handshakeCurrent
  /\ t.handshake = s.handshake /\ t.connectReason = s.connectReason
  /\ t.consecutiveFailures = s.consecutiveFailures
  /\ SameTimers(s, t) /\ SameSockets(s, t) /\ SamePast(s, t) /\ SameNews(s, t)

LEMMA SetSuperseded ==
  ASSUME NEW s \in StreamType, NEW as \in SUBSET Attempt
  PROVE  HasSuperseded(s, PutSuperseded(s, as), as)
BY DEF PutSuperseded, HasSuperseded, StreamType, SameTimers, SameSockets, SamePast, SameNews

PutConnecting(s, as) ==
  [s EXCEPT !.isConnecting = TRUE, !.attempts = as]

HasConnecting(s, t, as) ==
  /\ t \in StreamType /\ t.attempts = as
  /\ t.consecutiveFailures = s.consecutiveFailures
  /\ SameTimers(s, t) /\ SameSockets(s, t) /\ SameHandshake(s, t)
  /\ SamePast(s, t) /\ SameNews(s, t)

LEMMA SetConnecting ==
  ASSUME NEW s \in StreamType, NEW as \in SUBSET Attempt
  PROVE  HasConnecting(s, PutConnecting(s, as), as)
BY DEF PutConnecting, HasConnecting, StreamType,
       SameTimers, SameSockets, SameHandshake, SamePast, SameNews

PutRecoveryTimer(s) ==
  [s EXCEPT !.recoveryTimer = TRUE]

HasRecoveryTimer(s, t) ==
  /\ t \in StreamType /\ t.recoveryTimer
  /\ t.reconnectTimer = s.reconnectTimer /\ t.refreshTimer = s.refreshTimer
  /\ SameSockets(s, t) /\ SameHandshake(s, t) /\ SamePast(s, t) /\ SamePlans(s, t)
  /\ SameNews(s, t)

LEMMA SetRecoveryTimer ==
  ASSUME NEW s \in StreamType
  PROVE  HasRecoveryTimer(s, PutRecoveryTimer(s))
BY DEF PutRecoveryTimer, HasRecoveryTimer, StreamType,
       SameSockets, SameHandshake, SamePast, SamePlans, SameNews

PutNews(s, k, n) ==
  [s EXCEPT !.hasGivenUp = TRUE, !.giveUpCount = k, !.notices = n]

HasNews(s, t, k, n) ==
  /\ t \in StreamType /\ t.hasGivenUp /\ t.giveUpCount = k /\ t.notices = n
  /\ SameTimers(s, t) /\ SameSockets(s, t) /\ SameHandshake(s, t) /\ SamePast(s, t)
  /\ SamePlans(s, t)

LEMMA SetNews ==
  ASSUME NEW s \in StreamType, NEW k \in 0..2,
         NEW n \in SUBSET {"unavailable", "reconnect", "recovered"}
  PROVE  HasNews(s, PutNews(s, k, n), k, n)
BY DEF PutNews, HasNews, StreamType, SameTimers, SameSockets, SameHandshake, SamePast, SamePlans

PutFailures(s, k) ==
  [s EXCEPT !.consecutiveFailures = k]

HasFailures(s, t, k) ==
  /\ t \in StreamType /\ t.consecutiveFailures = k
  /\ t.attempts = s.attempts
  /\ SameTimers(s, t) /\ SameSockets(s, t) /\ SameHandshake(s, t)
  /\ SamePast(s, t) /\ SameNews(s, t)

LEMMA SetFailures ==
  ASSUME NEW s \in StreamType, NEW k \in 0..(MaxFailures + 1)
  PROVE  HasFailures(s, PutFailures(s, k), k)
BY DEF PutFailures, HasFailures, StreamType,
       SameTimers, SameSockets, SameHandshake, SamePast, SameNews

PutReconnectTimer(s, r, c) ==
  [s EXCEPT !.connectReason = c, !.reconnectTimer = r]

HasReconnectTimer(s, t, r, c) ==
  /\ t \in StreamType /\ t.reconnectTimer = r /\ t.connectReason = c
  /\ t.refreshTimer = s.refreshTimer /\ t.recoveryTimer = s.recoveryTimer
  /\ t.attempts = s.attempts /\ t.consecutiveFailures = s.consecutiveFailures
  /\ SameSockets(s, t) /\ SameHandshake(s, t) /\ SamePast(s, t) /\ SameNews(s, t)

LEMMA SetReconnectTimer ==
  ASSUME NEW s \in StreamType, NEW r \in {"none", "drop", "refresh"},
         NEW c \in {"initial", "refresh", "drop"}
  PROVE  HasReconnectTimer(s, PutReconnectTimer(s, r, c), r, c)
<1> DEFINE t == PutReconnectTimer(s, r, c)
<1>1. t \in StreamType BY DEF PutReconnectTimer, StreamType
<1>2. /\ t.reconnectTimer = r /\ t.connectReason = c
      /\ t.refreshTimer = s.refreshTimer /\ t.recoveryTimer = s.recoveryTimer
      /\ t.attempts = s.attempts /\ t.consecutiveFailures = s.consecutiveFailures
  BY DEF PutReconnectTimer, StreamType
<1>3. SameSockets(s, t) /\ SameHandshake(s, t) /\ SamePast(s, t) /\ SameNews(s, t)
  BY DEF PutReconnectTimer, StreamType, SameSockets, SameHandshake, SamePast, SameNews
<1> QED BY <1>1, <1>2, <1>3 DEF HasReconnectTimer

PutCandidate(s) ==
  [s EXCEPT !.candidate = "connecting", !.handshake = "candidate",
            !.handshakeCurrent = TRUE]

HasCandidate(s, t) ==
  /\ t \in StreamType /\ t.candidate = "connecting"
  /\ t.handshake = "candidate" /\ t.handshakeCurrent /\ t.socket = s.socket
  /\ SameTimers(s, t) /\ SamePast(s, t) /\ SamePlans(s, t) /\ SameNews(s, t)

LEMMA SetCandidate ==
  ASSUME NEW s \in StreamType
  PROVE  HasCandidate(s, PutCandidate(s))
BY DEF PutCandidate, HasCandidate, StreamType, SameTimers, SamePast, SamePlans, SameNews

PutSocket(s) ==
  [s EXCEPT !.socket = "connecting", !.handshake = "socket",
            !.handshakeCurrent = TRUE]

HasSocket(s, t) ==
  /\ t \in StreamType /\ t.socket = "connecting"
  /\ t.handshake = "socket" /\ t.handshakeCurrent /\ t.candidate = s.candidate
  /\ SameTimers(s, t) /\ SamePast(s, t) /\ SamePlans(s, t) /\ SameNews(s, t)

LEMMA SetSocket ==
  ASSUME NEW s \in StreamType
  PROVE  HasSocket(s, PutSocket(s))
BY DEF PutSocket, HasSocket, StreamType, SameTimers, SamePast, SamePlans, SameNews

PutConnected(s, n) ==
  [s EXCEPT !.hadConnected = TRUE, !.refreshTimer = TRUE, !.notices = n]

HasConnected(s, t, n) ==
  /\ t \in StreamType /\ t.consecutiveFailures = s.consecutiveFailures
  /\ t.giveUpCount = s.giveUpCount /\ t.disconnectedAt = s.disconnectedAt
  /\ t.hasGivenUp = s.hasGivenUp /\ t.refreshTimer /\ t.notices = n
  /\ t.reconnectTimer = s.reconnectTimer /\ t.recoveryTimer = s.recoveryTimer
  /\ SameSockets(s, t) /\ t.isStopped = s.isStopped /\ t.attempts = s.attempts

LEMMA SetConnected ==
  ASSUME NEW s \in StreamType,
         NEW n \in SUBSET {"unavailable", "reconnect", "recovered"}
  PROVE  HasConnected(s, PutConnected(s, n), n)
BY DEF PutConnected, HasConnected, StreamType, SameSockets
-----------------------------------------------------------------------------
(* What the small methods do.                                              *)

LEMMA SettleHandshakeIs ==
  ASSUME NEW s \in StreamType, NEW t, t = SettleHandshake(s)
  PROVE  /\ t \in StreamType /\ t.handshake = "none"
         /\ t.handshakeCurrent = s.handshakeCurrent
         /\ SameTimers(s, t) /\ SameSockets(s, t) /\ SamePast(s, t) /\ SamePlans(s, t)
         /\ SameNews(s, t)
BY DEF SettleHandshake, StreamType, SameTimers, SameSockets, SamePast, SamePlans, SameNews

LEMMA DisposeCandidateIs ==
  ASSUME NEW s \in StreamType, NEW t, t = DisposeCandidate(s)
  PROVE  /\ t \in StreamType /\ t.candidate = "none" /\ t.socket = s.socket
         /\ t.handshake = (IF s.handshake = "candidate" THEN "detached" ELSE s.handshake)
         /\ t.handshakeCurrent = s.handshakeCurrent
         /\ SameTimers(s, t) /\ SamePast(s, t) /\ SamePlans(s, t)
         /\ SameNews(s, t)
<1> DEFINE h == IF s.handshake = "candidate" THEN "detached" ELSE s.handshake
<1>1. h \in {"none", "socket", "candidate", "detached"} BY DEF StreamType
<1>2. t = PutHandshake(s, h) BY DEF DisposeCandidate, StreamType, PutHandshake
<1>3. h = IF s.handshake = "candidate" THEN "detached" ELSE s.handshake OBVIOUS
<1> HIDE DEF h
<1> QED BY <1>1, <1>2, <1>3, SetHandshake DEF HasHandshake

LEMMA DisposeSocketIs ==
  ASSUME NEW s \in StreamType, NEW t, t = DisposeSocket(s)
  PROVE  /\ t \in StreamType /\ t.socket = "none" /\ t.candidate = s.candidate
         /\ t.handshake = (IF s.socket # "none" /\ s.handshake = "socket" THEN "detached"
                           ELSE s.handshake)
         /\ t.handshakeCurrent = s.handshakeCurrent
         /\ s.disconnectedAt \/ (s.socket # "none" /\ s.hadConnected) => t.disconnectedAt
         /\ t.isStopped = s.isStopped /\ t.hadConnected = s.hadConnected
         /\ SameTimers(s, t) /\ SamePlans(s, t) /\ SameNews(s, t)
<1>1. CASE s.socket = "none"
  BY <1>1 DEF DisposeSocket, SameTimers, SamePlans, SameNews
<1>2. CASE s.socket # "none"
  <2> DEFINE h == IF s.handshake = "socket" THEN "detached" ELSE s.handshake
             d == s.disconnectedAt \/ s.socket = "open" \/ s.hadConnected
  <2>1. h \in {"none", "socket", "candidate", "detached"} /\ d \in BOOLEAN BY DEF StreamType
  <2>2. t = PutSocketGone(s, h, d)
    BY <1>2 DEF DisposeSocket, StreamType, PutSocketGone
  <2>3. h = IF s.handshake = "socket" THEN "detached" ELSE s.handshake OBVIOUS
  <2>4. s.disconnectedAt \/ s.hadConnected => d OBVIOUS
  <2> HIDE DEF h, d
  <2>5. /\ t \in StreamType /\ t.socket = "none" /\ t.candidate = s.candidate
        /\ t.handshake = h /\ t.handshakeCurrent = s.handshakeCurrent
        /\ t.disconnectedAt = d /\ t.isStopped = s.isStopped
        /\ t.hadConnected = s.hadConnected
        /\ SameTimers(s, t) /\ SamePlans(s, t) /\ SameNews(s, t)
    <3>1. HasSocketGone(s, t, h, d) BY <2>1, <2>2, SetSocketGone
    <3> QED BY <3>1 DEF HasSocketGone
  <2> QED BY <1>2, <2>3, <2>4, <2>5
<1> QED BY <1>1, <1>2

LEMMA GivenUpIsBoolean == ASSUME NEW s \in StreamType PROVE s.hasGivenUp \in BOOLEAN
BY DEF StreamType

LEMMA BumpGenerationIs ==
  ASSUME NEW s \in StreamType, NEW t, t = BumpGeneration(s)
  PROVE  /\ t \in StreamType /\ Owners(t) = {} /\ ~t.handshakeCurrent
         /\ t.attempts = {[a EXCEPT !.superseded = TRUE] : a \in s.attempts}
         /\ SameTimers(s, t) /\ SameSockets(s, t) /\ SamePast(s, t) /\ SameNews(s, t)
         /\ t.handshake = s.handshake /\ t.connectReason = s.connectReason
         /\ t.consecutiveFailures = s.consecutiveFailures
<1> DEFINE as == {[a EXCEPT !.superseded = TRUE] : a \in s.attempts}
<1>1. s.attempts \subseteq Attempt BY DEF StreamType
<1>2. as \subseteq Attempt /\ \A a \in as : a.superseded BY <1>1 DEF Attempt
<1>3. t = PutSuperseded(s, as) BY DEF BumpGeneration, PutSuperseded
<1> HIDE DEF as
<1>4. /\ t \in StreamType /\ t.attempts = as /\ ~t.handshakeCurrent
      /\ SameTimers(s, t) /\ SameSockets(s, t) /\ SamePast(s, t) /\ SameNews(s, t)
      /\ t.handshake = s.handshake /\ t.connectReason = s.connectReason
      /\ t.consecutiveFailures = s.consecutiveFailures
  <2>1. as \in SUBSET Attempt BY <1>2
  <2>2. HasSuperseded(s, t, as) BY <1>3, <2>1, SetSuperseded
  <2> QED BY <2>2 DEF HasSuperseded
<1>5. Owners(t) = {} BY <1>2, <1>4 DEF Owners
<1> QED BY <1>4, <1>5 DEF as

LEMMA ClearTimersIs ==
  ASSUME NEW s \in StreamType, NEW t, t = ClearTimers(s)
  PROVE  /\ t \in StreamType
         /\ t.reconnectTimer = "none" /\ ~t.refreshTimer /\ ~t.recoveryTimer
         /\ SameSockets(s, t) /\ SameHandshake(s, t) /\ SamePast(s, t) /\ SamePlans(s, t)
         /\ SameNews(s, t)
BY DEF ClearTimers, StreamType, SameSockets, SameHandshake, SamePast, SamePlans, SameNews
-----------------------------------------------------------------------------
(* The methods that end a callback restore the invariant.                  *)

LEMMA AttemptIsFinite == IsFiniteSet(Attempt)
<1> DEFINE ids == 1..MaxAttempts
           Make(p) == [id |-> p[1], defer |-> p[2][1], superseded |-> p[2][2]]
           flags == BOOLEAN \X BOOLEAN
           pairs == ids \X flags
<1>1. IsFiniteSet(ids) BY BoundsAreNatural, FS_Interval
<1>2. IsFiniteSet(BOOLEAN)
  <2>1. IsFiniteSet({TRUE}) /\ IsFiniteSet({TRUE} \cup {FALSE})
    BY FS_Singleton, FS_AddElement
  <2>2. BOOLEAN = {TRUE} \cup {FALSE} OBVIOUS
  <2> QED BY <2>1, <2>2
<1>3. IsFiniteSet(flags) BY <1>2, FS_Product
<1>4. IsFiniteSet(pairs) BY <1>1, <1>3, FS_Product
<1>5. IsFiniteSet({Make(p) : p \in pairs})
  <2> HIDE DEF pairs
  <2>1. [p \in pairs |-> Make(p)] \in Surjection(pairs, {Make(p) : p \in pairs})
    BY DEF Surjection
  <2> HIDE DEF Make
  <2> QED BY <1>4, <2>1, FS_Surjection
<1>6. Attempt \subseteq {Make(p) : p \in pairs}
  <2> SUFFICES ASSUME NEW a \in Attempt PROVE a \in {Make(p) : p \in pairs}
    OBVIOUS
  <2>1. <<a.id, <<a.defer, a.superseded>>>> \in pairs BY DEF Attempt
  <2>2. a = Make(<<a.id, <<a.defer, a.superseded>>>>) BY DEF Attempt
  <2> QED BY <2>1, <2>2
<1> QED BY <1>5, <1>6, FS_Subset

\* There is a number left for a new attempt.
LEMMA NewAttemptIs ==
  ASSUME NEW s \in StreamType, Cardinality(s.attempts) < MaxAttempts, NEW d \in BOOLEAN
  PROVE  /\ NewAttempt(s, d) \in Attempt
         /\ NewAttempt(s, d).defer = d /\ ~NewAttempt(s, d).superseded
<1> DEFINE used == {a.id : a \in s.attempts}
<1>1. s.attempts \subseteq Attempt BY DEF StreamType
<1>2. IsFiniteSet(s.attempts) BY <1>1, AttemptIsFinite, FS_Subset
<1>3. IsFiniteSet(used) /\ Cardinality(used) <= Cardinality(s.attempts)
  <2>1. [a \in s.attempts |-> a.id] \in Surjection(s.attempts, used) BY DEF Surjection
  <2> HIDE DEF used
  <2> QED BY <1>2, <2>1, FS_Surjection
<1>4. Cardinality(1..MaxAttempts) = MaxAttempts BY BoundsAreNatural, FS_Interval
<1>5. PICK i \in 1..MaxAttempts : i \notin used
  <2> SUFFICES ASSUME \A i \in 1..MaxAttempts : i \in used PROVE FALSE
    OBVIOUS
  <2>1. 1..MaxAttempts \subseteq used OBVIOUS
  <2>2. Cardinality(1..MaxAttempts) <= Cardinality(used) BY <1>3, <2>1, FS_Subset
  <2>3. Cardinality(used) \in Nat /\ Cardinality(s.attempts) \in Nat
    BY <1>2, <1>3, FS_CardinalityType
  <2> QED BY <1>3, <1>4, <2>2, <2>3, BoundsAreNatural
<1>6. \E j \in 1..MaxAttempts : \A a \in s.attempts : a.id # j BY <1>5
<1>7. (CHOOSE j \in 1..MaxAttempts : \A a \in s.attempts : a.id # j) \in 1..MaxAttempts
  BY <1>6
<1> QED BY <1>7 DEF NewAttempt, Attempt

\* #connect when the live socket, if any, is given up.
LEMMA BeginsAlone ==
  ASSUME NEW s \in StreamType, ~s.isStopped, Cardinality(s.attempts) < MaxAttempts,
         ~(s.connectReason = "refresh" /\ IsConnected(s)),
         s.reconnectTimer = "none", ~s.refreshTimer, ~s.recoveryTimer,
         s.consecutiveFailures <= MaxFailures,
         s.socket = "none" /\ s.hadConnected => s.disconnectedAt,
         s.hasGivenUp <=> s.giveUpCount # 0,
         NEW t, t = Connect(s)
  PROVE  /\ Inv(t) /\ RefreshedIn(t) /\ t.socket = "none" /\ ~t.isStopped
         /\ SameNews(s, t) /\ Owners(t) # {}
<1> DEFINE b == BumpGeneration(s)
           c == DisposeCandidate(b)
           d == DisposeSocket(c)
           h == SettleHandshake(d)
           new == NewAttempt(s, FALSE)
           as == h.attempts \cup {new}
<1>1. /\ b \in StreamType /\ Owners(b) = {} /\ SameTimers(s, b) /\ SameSockets(s, b)
      /\ SamePast(s, b) /\ SameNews(s, b) /\ b.consecutiveFailures = s.consecutiveFailures
  BY BumpGenerationIs
<1>2. /\ c \in StreamType /\ c.candidate = "none" /\ c.socket = b.socket
      /\ SameTimers(b, c) /\ SamePast(b, c) /\ SamePlans(b, c) /\ SameNews(b, c)
  BY <1>1, DisposeCandidateIs
<1>3. /\ d \in StreamType /\ d.socket = "none" /\ d.candidate = c.candidate
      /\ c.disconnectedAt \/ (c.socket # "none" /\ c.hadConnected) => d.disconnectedAt
      /\ d.isStopped = c.isStopped /\ d.hadConnected = c.hadConnected
      /\ SameTimers(c, d) /\ SamePlans(c, d) /\ SameNews(c, d)
  BY <1>2, DisposeSocketIs
<1>4. /\ h \in StreamType /\ h.handshake = "none"
      /\ SameTimers(d, h) /\ SameSockets(d, h) /\ SamePast(d, h) /\ SamePlans(d, h)
      /\ SameNews(d, h)
  BY <1>3, SettleHandshakeIs
<1>5. t = PutConnecting(h, as)
  BY <1>4 DEF Connect, BeginAttempt, StreamType, PutConnecting
<1>6. new \in Attempt /\ ~new.defer /\ ~new.superseded BY NewAttemptIs
<1> HIDE DEF b, c, d, h, new
<1>7. as \in SUBSET Attempt BY <1>4, <1>6 DEF StreamType
<1>8. h.attempts = b.attempts BY <1>2, <1>3, <1>4 DEF SamePlans
<1>9. {a \in as : ~a.superseded} = {new} BY <1>1, <1>6, <1>8 DEF Owners
<1> HIDE DEF as
<1>10. /\ t \in StreamType /\ t.attempts = as /\ t.handshake = "none"
       /\ SameTimers(h, t) /\ SameSockets(h, t) /\ SamePast(h, t) /\ SameNews(h, t)
       /\ t.consecutiveFailures = h.consecutiveFailures
  <2>1. h \in StreamType BY <1>4
  <2>2. HasConnecting(h, t, as) BY <1>5, <1>7, <2>1, SetConnecting
  <2> QED BY <1>4, <2>2 DEF HasConnecting, SameHandshake
<1>11. Owners(t) = {new} BY <1>9, <1>10 DEF Owners
<1>12. t.socket = "none" /\ t.candidate = "none" /\ t.reconnectTimer = "none"
       /\ ~t.refreshTimer /\ ~t.recoveryTimer /\ ~t.isStopped
  BY <1>1, <1>2, <1>3, <1>4, <1>10 DEF SameTimers, SameSockets, SamePast
<1>13. t.hadConnected => t.disconnectedAt
  BY <1>1, <1>2, <1>3, <1>4, <1>10 DEF SameSockets, SamePast
<1>14. t.consecutiveFailures = s.consecutiveFailures
  BY <1>1, <1>2, <1>3, <1>4, <1>10 DEF SamePlans
<1>15. SameNews(s, t) BY <1>1, <1>2, <1>3, <1>4, <1>10 DEF SameNews
<1>16. CountedOut(t) BY <1>14, BoundsAreNatural DEF CountedOut
<1>17. OneOwnerIn(t) /\ WayBackIn(t) /\ OneWayBack(t)
  BY <1>6, <1>10, <1>11, <1>12 DEF OneOwnerIn, WayBackIn, OneWayBack
<1>18. StopIsFinalIn(t) /\ DatedIn(t) /\ RefreshedIn(t) /\ SocketsAgree(t) /\ GivenUpCounted(t)
  BY <1>10, <1>12, <1>13, <1>15
     DEF StopIsFinalIn, DatedIn, RefreshedIn, SocketsAgree, GivenUpCounted, SameNews
<1> QED BY <1>10, <1>11, <1>12, <1>15, <1>16, <1>17, <1>18 DEF Inv

\* #connect beside the live socket.
LEMMA BeginsBeside ==
  ASSUME NEW s \in StreamType, ~s.isStopped, Cardinality(s.attempts) < MaxAttempts,
         s.connectReason = "refresh", s.socket = "open", s.candidate = "none",
         s.reconnectTimer = "none", ~s.refreshTimer, ~s.recoveryTimer, Owners(s) = {},
         DatedIn(s), CountedOut(s), GivenUpCounted(s),
         NEW t, t = Connect(s)
  PROVE  Inv(t) /\ RefreshedIn(t) /\ t.socket = "open" /\ ~t.isStopped /\ SameNews(s, t)
<1> DEFINE h == SettleHandshake(s)
           new == NewAttempt(s, TRUE)
           as == h.attempts \cup {new}
<1>1. /\ h \in StreamType /\ h.handshake = "none"
      /\ SameTimers(s, h) /\ SameSockets(s, h) /\ SamePast(s, h) /\ SamePlans(s, h)
      /\ SameNews(s, h)
  BY SettleHandshakeIs
<1>2. t = PutConnecting(h, as)
  BY <1>1 DEF Connect, BeginAttempt, IsConnected, StreamType, PutConnecting
<1>3. new \in Attempt /\ new.defer /\ ~new.superseded BY NewAttemptIs
<1> HIDE DEF h, new
<1>4. as \in SUBSET Attempt BY <1>1, <1>3 DEF StreamType
<1>5. {a \in as : ~a.superseded} = {new} BY <1>1, <1>3 DEF Owners, SamePlans
<1> HIDE DEF as
<1>6. /\ t \in StreamType /\ t.attempts = as /\ t.handshake = "none"
      /\ SameTimers(h, t) /\ SameSockets(h, t) /\ SamePast(h, t) /\ SameNews(h, t)
      /\ t.consecutiveFailures = h.consecutiveFailures
  <2>1. h \in StreamType BY <1>1
  <2>2. HasConnecting(h, t, as) BY <1>2, <1>4, <2>1, SetConnecting
  <2> QED BY <1>1, <2>2 DEF HasConnecting, SameHandshake
<1>7. Owners(t) = {new} BY <1>5, <1>6 DEF Owners
<1>8. t.socket = "open" /\ t.candidate = "none" /\ t.reconnectTimer = "none"
      /\ ~t.refreshTimer /\ ~t.recoveryTimer /\ ~t.isStopped
      /\ t.disconnectedAt = s.disconnectedAt
  BY <1>1, <1>6 DEF SameTimers, SameSockets, SamePast
<1>9. t.consecutiveFailures = s.consecutiveFailures /\ SameNews(s, t)
  BY <1>1, <1>6 DEF SamePlans, SameNews
<1>10. CountedOut(t) /\ GivenUpCounted(t)
  BY <1>8, <1>9 DEF CountedOut, GivenUpCounted, SameNews
<1>11. OneOwnerIn(t) /\ WayBackIn(t) /\ OneWayBack(t) /\ RefreshedIn(t)
  BY <1>3, <1>6, <1>7, <1>8 DEF OneOwnerIn, WayBackIn, OneWayBack, RefreshedIn
<1>12. StopIsFinalIn(t) /\ DatedIn(t) /\ SocketsAgree(t)
  BY <1>6, <1>8 DEF StopIsFinalIn, DatedIn, SocketsAgree
<1> QED BY <1>6, <1>8, <1>9, <1>10, <1>11, <1>12 DEF Inv

\* #giveUp, of a stream that is not stopped and has no recovery coming.
LEMMA GiveUpIs ==
  ASSUME NEW s \in StreamType, ~s.isStopped, ~s.recoveryTimer, NEW t, t = GiveUp(s)
  PROVE  /\ t \in StreamType /\ t.recoveryTimer
         /\ t.reconnectTimer = s.reconnectTimer /\ t.refreshTimer = s.refreshTimer
         /\ SameSockets(s, t) /\ SameHandshake(s, t) /\ SamePast(s, t) /\ SamePlans(s, t)
         /\ t.hasGivenUp /\ t.giveUpCount # 0
         /\ t.notices = IF s.giveUpCount = 0 THEN s.notices \cup {"unavailable"} ELSE s.notices
<1> DEFINE k == IF s.giveUpCount < 2 THEN s.giveUpCount + 1 ELSE s.giveUpCount
           n == IF s.giveUpCount = 0 THEN s.notices \cup {"unavailable"} ELSE s.notices
           g == PutNews(s, k, n)
<1>1. k \in 0..2 /\ k # 0 BY DEF StreamType
<1>2. n \in SUBSET {"unavailable", "reconnect", "recovered"} BY DEF StreamType
<1>3. GiveUp(s) = ScheduleRecovery(g) BY DEF GiveUp, PutNews
<1>0. n = IF s.giveUpCount = 0 THEN s.notices \cup {"unavailable"} ELSE s.notices OBVIOUS
<1> HIDE DEF k, n
<1>4. /\ g \in StreamType /\ g.hasGivenUp /\ g.giveUpCount = k /\ g.notices = n
      /\ SameTimers(s, g) /\ SameSockets(s, g) /\ SameHandshake(s, g) /\ SamePast(s, g)
      /\ SamePlans(s, g)
  BY <1>1, <1>2, SetNews DEF HasNews
<1> HIDE DEF g
<1>5. t = PutRecoveryTimer(g)
  BY <1>3, <1>4 DEF ScheduleRecovery, SameTimers, SamePast, PutRecoveryTimer
<1>6. /\ t \in StreamType /\ t.recoveryTimer /\ t.reconnectTimer = g.reconnectTimer
      /\ t.refreshTimer = g.refreshTimer
      /\ SameSockets(g, t) /\ SameHandshake(g, t) /\ SamePast(g, t) /\ SamePlans(g, t)
      /\ SameNews(g, t)
  BY <1>4, <1>5, SetRecoveryTimer DEF HasRecoveryTimer
<1> QED BY <1>0, <1>1, <1>4, <1>6
           DEF SameTimers, SameSockets, SameHandshake, SamePast, SamePlans, SameNews

\* Nothing new heard of the link, or the give-up that begins an outage.
HeardOfLoss(s, t) ==
  \/ t.hasGivenUp = s.hasGivenUp /\ t.notices = s.notices
  \/ ~s.hasGivenUp /\ t.hasGivenUp /\ t.notices = s.notices \cup {"unavailable"}

\* #scheduleReconnect, of a stream that is not live and has no handshake: there is
\* a timer in the end, for the next attempt or for the recovery.
LEMMA ReconnectRestores ==
  ASSUME NEW s \in StreamType, ~s.isStopped,
         s.socket \in {"none", "closing", "closed"}, s.candidate = "none",
         s.handshake \notin {"socket", "candidate"},
         ~s.refreshTimer, s.reconnectTimer # "refresh",
         s.recoveryTimer => s.reconnectTimer = "none",
         \A a \in Owners(s) : a.defer, \A a, b \in Owners(s) : a = b,
         s.hadConnected /\ s.socket # "closing" => s.disconnectedAt,
         CountedOut(s), s.hasGivenUp <=> s.giveUpCount # 0,
         NEW t, t = ScheduleReconnect(s)
  PROVE  Inv(t) /\ RefreshedIn(t) /\ SameSockets(s, t) /\ ~t.isStopped /\ HeardOfLoss(s, t)
<1>1. ASSUME t \in StreamType, SameSockets(s, t), SameHandshake(s, t), SamePast(s, t),
             t.attempts = s.attempts, t.refreshTimer = s.refreshTimer,
             t.reconnectTimer # "refresh",
             (t.reconnectTimer = "drop" /\ ~t.recoveryTimer)
               \/ (t.reconnectTimer = "none" /\ t.recoveryTimer),
             CountedOut(t), t.hasGivenUp <=> t.giveUpCount # 0, HeardOfLoss(s, t)
      PROVE  Inv(t) /\ RefreshedIn(t) /\ SameSockets(s, t) /\ ~t.isStopped /\ HeardOfLoss(s, t)
  <2>1. Owners(t) = Owners(s) BY <1>1 DEF Owners
  <2>2. /\ t.socket \in {"none", "closing", "closed"} /\ t.candidate = "none"
        /\ t.handshake \notin {"socket", "candidate"} /\ ~t.isStopped /\ ~t.refreshTimer
        /\ t.hadConnected /\ t.socket # "closing" => t.disconnectedAt
    BY <1>1 DEF SameSockets, SameHandshake, SamePast
  <2>3. OneOwnerIn(t) /\ WayBackIn(t) /\ OneWayBack(t) /\ RefreshedIn(t)
    BY <1>1, <2>1, <2>2 DEF OneOwnerIn, WayBackIn, OneWayBack, RefreshedIn
  <2>4. StopIsFinalIn(t) /\ DatedIn(t) /\ SocketsAgree(t) /\ GivenUpCounted(t)
    BY <1>1, <2>2 DEF StopIsFinalIn, DatedIn, SocketsAgree, GivenUpCounted
  <2> QED BY <1>1, <2>2, <2>3, <2>4 DEF Inv
<1>2. CASE s.reconnectTimer # "none" \/ s.recoveryTimer
  <2>1. t = s BY <1>2 DEF ScheduleReconnect
  <2>2. SameSockets(s, s) /\ SameHandshake(s, s) /\ SamePast(s, s) /\ HeardOfLoss(s, s)
    BY DEF SameSockets, SameHandshake, SamePast, HeardOfLoss
  <2>3. (s.reconnectTimer = "drop" /\ ~s.recoveryTimer)
          \/ (s.reconnectTimer = "none" /\ s.recoveryTimer)
    BY <1>2 DEF StreamType
  <2> QED BY <1>1, <2>1, <2>2, <2>3
<1>3. CASE s.reconnectTimer = "none" /\ ~s.recoveryTimer
  <2> DEFINE k == s.consecutiveFailures + 1
             u == PutFailures(s, k)
  <2>1. k \in 0..(MaxFailures + 1)
    BY <1>3, BoundsAreNatural DEF CountedOut, StreamType
  <2>2. t = IF u.consecutiveFailures > MaxFailures THEN GiveUp(u)
            ELSE PutReconnectTimer(u, "drop", "drop")
    BY <1>3 DEF ScheduleReconnect, PutFailures, PutReconnectTimer
  <2> HIDE DEF k
  <2>3. /\ u \in StreamType /\ u.consecutiveFailures = k /\ u.attempts = s.attempts
        /\ SameTimers(s, u) /\ SameSockets(s, u) /\ SameHandshake(s, u) /\ SamePast(s, u)
        /\ SameNews(s, u)
    BY <2>1, SetFailures DEF HasFailures
  <2> HIDE DEF u
  <2>4. CASE k > MaxFailures
    <3>1. t = GiveUp(u) BY <2>2, <2>3, <2>4
    <3>2. ~u.isStopped /\ ~u.recoveryTimer BY <1>3, <2>3 DEF SameTimers, SamePast
    <3>3. /\ t \in StreamType /\ t.recoveryTimer
          /\ t.reconnectTimer = u.reconnectTimer /\ t.refreshTimer = u.refreshTimer
          /\ SameSockets(u, t) /\ SameHandshake(u, t) /\ SamePast(u, t) /\ SamePlans(u, t)
          /\ t.hasGivenUp /\ t.giveUpCount # 0
          /\ t.notices = IF u.giveUpCount = 0 THEN u.notices \cup {"unavailable"}
                         ELSE u.notices
      BY <2>3, <3>1, <3>2, GiveUpIs
    <3>4. SameSockets(s, t) /\ SameHandshake(s, t) /\ SamePast(s, t)
      BY <2>3, <3>3 DEF SameSockets, SameHandshake, SamePast
    <3>5. HeardOfLoss(s, t)
      <4>1. s.hasGivenUp \in BOOLEAN /\ u.hasGivenUp = s.hasGivenUp
            /\ u.giveUpCount = s.giveUpCount /\ u.notices = s.notices
        <5>1. s.hasGivenUp \in BOOLEAN BY DEF StreamType
        <5> QED BY <2>3, <5>1 DEF SameNews
      <4>2. t.hasGivenUp /\ t.notices = IF s.giveUpCount = 0 THEN s.notices \cup {"unavailable"}
                                        ELSE s.notices
        BY <3>3, <4>1
      <4>3. t.hasGivenUp = TRUE
        <5>1. t.hasGivenUp \in BOOLEAN BY <3>3, GivenUpIsBoolean
        <5> QED BY <3>3, <5>1
      <4>4. s.hasGivenUp <=> s.giveUpCount # 0 OBVIOUS
      <4> QED BY <4>1, <4>2, <4>3, <4>4 DEF HeardOfLoss
    <3>6. t.attempts = s.attempts /\ t.refreshTimer = s.refreshTimer
          /\ t.reconnectTimer = "none" /\ CountedOut(t)
      BY <1>3, <2>3, <3>3 DEF SameTimers, SamePlans, CountedOut
    <3> QED BY <1>1, <3>3, <3>4, <3>5, <3>6
  <2>5. CASE ~(k > MaxFailures)
    <3>1. t = PutReconnectTimer(u, "drop", "drop")
      BY <2>2, <2>3, <2>5
    <3>2. /\ t \in StreamType /\ t.reconnectTimer = "drop"
          /\ t.recoveryTimer = u.recoveryTimer /\ t.refreshTimer = u.refreshTimer
          /\ SameSockets(u, t) /\ SameHandshake(u, t) /\ SamePast(u, t) /\ SameNews(u, t)
          /\ t.attempts = u.attempts /\ t.consecutiveFailures = k
      <4>1. u \in StreamType BY <2>3
      <4>2. HasReconnectTimer(u, t, "drop", "drop") BY <3>1, <4>1, SetReconnectTimer
      <4> QED BY <2>3, <4>2 DEF HasReconnectTimer
    <3>3. SameSockets(s, t) /\ SameHandshake(s, t) /\ SamePast(s, t) /\ SameNews(s, t)
      BY <2>3, <3>2 DEF SameSockets, SameHandshake, SamePast, SameNews
    <3>4. HeardOfLoss(s, t) /\ (t.hasGivenUp <=> t.giveUpCount # 0)
      BY <3>3 DEF HeardOfLoss, SameNews
    <3>5. t.attempts = s.attempts /\ t.refreshTimer = s.refreshTimer /\ ~t.recoveryTimer
      BY <1>3, <2>3, <3>2 DEF SameTimers
    <3>6. CountedOut(t) BY <2>1, <2>5, <3>2, BoundsAreNatural DEF CountedOut
    <3> QED BY <1>1, <3>2, <3>3, <3>4, <3>5, <3>6
  <2> QED BY <2>4, <2>5
<1> QED BY <1>2, <1>3

\* #scheduleRefreshRetry, beside a live socket that keeps its place.
LEMMA RefreshRetryRestores ==
  ASSUME NEW s \in StreamType, ~s.isStopped,
         s.socket \in {"open", "closing"}, s.candidate = "none",
         s.handshake \notin {"socket", "candidate"},
         ~s.refreshTimer, ~s.recoveryTimer, s.reconnectTimer = "none", Owners(s) = {},
         s.socket = "open" => ~s.disconnectedAt, CountedOut(s), GivenUpCounted(s),
         NEW t, t = ScheduleRefreshRetry(s)
  PROVE  Inv(t) /\ RefreshedIn(t) /\ SameSockets(s, t) /\ ~t.isStopped /\ SameNews(s, t)
<1>1. t = PutReconnectTimer(s, "refresh", "refresh")
  BY DEF ScheduleRefreshRetry, PutReconnectTimer
<1>2. /\ t \in StreamType /\ t.reconnectTimer = "refresh"
      /\ t.recoveryTimer = s.recoveryTimer /\ t.refreshTimer = s.refreshTimer
      /\ SameSockets(s, t) /\ SameHandshake(s, t) /\ SamePast(s, t) /\ SameNews(s, t)
      /\ t.attempts = s.attempts /\ t.consecutiveFailures = s.consecutiveFailures
  <2>1. HasReconnectTimer(s, t, "refresh", "refresh") BY <1>1, SetReconnectTimer
  <2> QED BY <2>1 DEF HasReconnectTimer
<1>3. Owners(t) = {} BY <1>2 DEF Owners
<1>4. /\ t.socket \in {"open", "closing"} /\ t.candidate = "none"
      /\ t.handshake \notin {"socket", "candidate"} /\ ~t.isStopped
      /\ t.socket = "open" => ~t.disconnectedAt
  BY <1>2 DEF SameSockets, SameHandshake, SamePast
<1>5. OneOwnerIn(t) /\ WayBackIn(t) /\ OneWayBack(t) /\ RefreshedIn(t)
  BY <1>2, <1>3, <1>4 DEF OneOwnerIn, WayBackIn, OneWayBack, RefreshedIn
<1>6. StopIsFinalIn(t) /\ DatedIn(t) /\ SocketsAgree(t)
  BY <1>4 DEF StopIsFinalIn, DatedIn, SocketsAgree
<1>7. CountedOut(t) /\ GivenUpCounted(t)
  BY <1>2, <1>4 DEF CountedOut, GivenUpCounted, SameNews, SameSockets
<1> QED BY <1>2, <1>4, <1>5, <1>6, <1>7 DEF Inv
-----------------------------------------------------------------------------
(* Every callback keeps the invariant, keeps a live socket unless it is    *)
(* lost, stopped or replaced, and tells the platform what PushLink allows. *)

OnlyReplaced ==
  (stream.socket = "open" /\ stream'.socket # "open")
    => stream'.socket = "closing" \/ stream'.isStopped

\* What RefreshIsKept says of a step.
RefreshKept ==
  LiveIsRefreshed =>
    \/ LiveIsRefreshed'
    \/ \E a \in stream.attempts : a.defer /\ SocketRefused(a)

StepKept == StreamInv' /\ OnlyReplaced /\ RefreshKept /\ Link!Next

LEMMA LiveIsRefreshedIn ==
  /\ LiveIsRefreshed <=> RefreshedIn(stream)
  /\ LiveIsRefreshed' <=> RefreshedIn(stream')
BY DEF LiveIsRefreshed, RefreshedIn, Owners

LEMMA BeforeIs ==
  ASSUME StreamInv
  PROVE  /\ Before \in StreamType /\ Before.notices = {} /\ Owners(Before) = Owners(stream)
         /\ SameTimers(stream, Before) /\ SameSockets(stream, Before)
         /\ SameHandshake(stream, Before) /\ SamePast(stream, Before)
         /\ SamePlans(stream, Before)
         /\ Before.hasGivenUp = stream.hasGivenUp /\ Before.giveUpCount = stream.giveUpCount
         /\ CountedOut(Before) /\ GivenUpCounted(Before)
<1>1. /\ stream \in StreamType /\ CountedOut(stream) /\ GivenUpCounted(stream)
  BY DEF StreamInv, Inv
<1>2. /\ Before \in StreamType /\ Before.notices = {}
      /\ SameTimers(stream, Before) /\ SameSockets(stream, Before)
      /\ SameHandshake(stream, Before) /\ SamePast(stream, Before)
      /\ SamePlans(stream, Before)
      /\ Before.hasGivenUp = stream.hasGivenUp /\ Before.giveUpCount = stream.giveUpCount
  BY <1>1 DEF Before, StreamType, SameTimers, SameSockets, SameHandshake, SamePast, SamePlans
<1> HIDE DEF Before
<1> QED BY <1>1, <1>2 DEF Owners, SamePlans, CountedOut, GivenUpCounted, SameTimers,
                          SamePast, SameSockets

LEMMA FreshIsIdle ==
  stream = FreshStream =>
    /\ stream.socket = "none" /\ stream.candidate = "none" /\ stream.handshake = "none"
    /\ stream.reconnectTimer = "none" /\ ~stream.refreshTimer /\ ~stream.recoveryTimer
    /\ stream.attempts = {} /\ ~stream.isStopped
BY DEF FreshStream

\* A stopped stream, or one that runs on: nothing new, a link lost, or a give-up.
LEMMA LossIsHeard ==
  ASSUME StreamInv, StreamInv', stream # FreshStream,
         stream'.isStopped = stream.isStopped,
         stream'.socket = "open" => stream.socket = "open",
         \/ stream'.hasGivenUp = stream.hasGivenUp /\ stream'.notices = {}
         \/ /\ ~stream.isStopped /\ stream.socket # "open"
            /\ ~stream.hasGivenUp /\ stream'.hasGivenUp /\ stream'.notices = {"unavailable"}
  PROVE  Link!Next
<1>1. GivenUpCounted(stream) /\ stream \in StreamType /\ stream' \in StreamType
  BY DEF StreamInv, Inv
<1>2. CASE stream' = FreshStream \/ stream.isStopped
  <2>1. stream'.notices = {} BY <1>1, <1>2 DEF FreshStream
  <2> QED BY <1>2, <2>1 DEF Link!Next, Link!Stop, IsRunning
<1>3. CASE stream' # FreshStream /\ ~stream.isStopped
  <2>1. IsRunning /\ IsRunning' BY <1>3 DEF IsRunning
  <2>2. CASE stream'.hasGivenUp = stream.hasGivenUp /\ stream'.notices = {}
    BY <1>1, <2>1, <2>2
       DEF Link!Next, Link!Quiet, Link!Lose, GivenUpCounted
  <2>3. CASE /\ stream.socket # "open" /\ ~stream.hasGivenUp /\ stream'.hasGivenUp
             /\ stream'.notices = {"unavailable"}
    BY <2>1, <2>3 DEF Link!Next, Link!GiveUp
  <2> QED BY <1>3, <2>2, <2>3
<1> QED BY <1>2, <1>3

Restart(s) ==
  [s EXCEPT !.isStopped = FALSE, !.hasGivenUp = FALSE, !.giveUpCount = 0,
            !.consecutiveFailures = 0, !.hadConnected = FALSE,
            !.disconnectedAt = FALSE, !.connectReason = "initial"]

PutNotGivenUp(s) ==
  [s EXCEPT !.isStopped = FALSE, !.hasGivenUp = FALSE, !.giveUpCount = 0]

HasNotGivenUp(s, t) ==
  /\ t \in StreamType /\ ~t.isStopped /\ ~t.hasGivenUp /\ t.giveUpCount = 0
  /\ t.notices = s.notices /\ t.attempts = s.attempts

LEMMA SetNotGivenUp ==
  ASSUME NEW s \in StreamType, 0 \in 0..2
  PROVE  HasNotGivenUp(s, PutNotGivenUp(s))
BY DEF PutNotGivenUp, HasNotGivenUp, StreamType

PutUncounted(s) ==
  [s EXCEPT !.consecutiveFailures = 0, !.hadConnected = FALSE]

HasUncounted(s, t) ==
  /\ t \in StreamType /\ t.isStopped = s.isStopped /\ t.hasGivenUp = s.hasGivenUp
  /\ t.giveUpCount = s.giveUpCount /\ t.consecutiveFailures = 0 /\ ~t.hadConnected
  /\ t.notices = s.notices /\ t.attempts = s.attempts

LEMMA SetUncounted ==
  ASSUME NEW s \in StreamType, 0 \in 0..(MaxFailures + 1)
  PROVE  HasUncounted(s, PutUncounted(s))
BY DEF PutUncounted, HasUncounted, StreamType

PutUndated(s) ==
  [s EXCEPT !.disconnectedAt = FALSE, !.connectReason = "initial"]

HasUndated(s, t) ==
  /\ t \in StreamType /\ t.isStopped = s.isStopped /\ t.hasGivenUp = s.hasGivenUp
  /\ t.giveUpCount = s.giveUpCount /\ t.consecutiveFailures = s.consecutiveFailures
  /\ t.hadConnected = s.hadConnected /\ t.connectReason = "initial"
  /\ t.notices = s.notices /\ t.attempts = s.attempts

LEMMA SetUndated ==
  ASSUME NEW s \in StreamType
  PROVE  HasUndated(s, PutUndated(s))
BY DEF PutUndated, HasUndated, StreamType

LEMMA RestartIs ==
  ASSUME NEW s \in StreamType, NEW t, t = Restart(s)
  PROVE  /\ t \in StreamType /\ ~t.isStopped /\ ~t.hasGivenUp /\ t.giveUpCount = 0
         /\ t.consecutiveFailures = 0 /\ ~t.hadConnected /\ t.connectReason = "initial"
         /\ t.notices = s.notices /\ t.attempts = s.attempts
<1> DEFINE v == PutNotGivenUp(s)
           w == PutUncounted(v)
<1>0. 0 \in 0..2 /\ 0 \in 0..(MaxFailures + 1) BY BoundsAreNatural
<1>1. t = PutUndated(w) BY DEF Restart, PutNotGivenUp, PutUncounted, PutUndated
<1>2. /\ v \in StreamType /\ ~v.isStopped /\ ~v.hasGivenUp /\ v.giveUpCount = 0
      /\ v.notices = s.notices /\ v.attempts = s.attempts
  BY <1>0, SetNotGivenUp DEF HasNotGivenUp
<1> HIDE DEF v
<1>3. /\ w \in StreamType /\ ~w.isStopped /\ ~w.hasGivenUp /\ w.giveUpCount = 0
      /\ w.consecutiveFailures = 0 /\ ~w.hadConnected
      /\ w.notices = s.notices /\ w.attempts = s.attempts
  BY <1>0, <1>2, SetUncounted DEF HasUncounted
<1> HIDE DEF w
<1> QED BY <1>1, <1>3, SetUndated DEF HasUndated

LEMMA StartKeeps == ASSUME StreamInv, Start PROVE StepKept
<1> DEFINE u == Restart(Before)
           c == ClearTimers(u)
<1>1. Before \in StreamType /\ Before.notices = {} /\ Before.attempts = stream.attempts
  BY BeforeIs DEF SamePlans
<1>2. /\ u \in StreamType /\ ~u.isStopped /\ ~u.hasGivenUp /\ u.giveUpCount = 0
      /\ u.consecutiveFailures = 0 /\ ~u.hadConnected /\ u.connectReason = "initial"
      /\ u.notices = {} /\ u.attempts = stream.attempts
  BY <1>1, RestartIs
<1> HIDE DEF u
<1>3. /\ c \in StreamType
      /\ c.reconnectTimer = "none" /\ ~c.refreshTimer /\ ~c.recoveryTimer
      /\ SamePast(u, c) /\ SamePlans(u, c) /\ SameNews(u, c)
  BY <1>2, ClearTimersIs
<1>4. stream' = Connect(c) BY DEF Start, u, Restart
<1> HIDE DEF c
<1>5. /\ ~c.isStopped /\ c.connectReason = "initial" /\ c.consecutiveFailures = 0
      /\ ~c.hadConnected /\ ~c.hasGivenUp /\ c.giveUpCount = 0 /\ c.notices = {}
      /\ c.attempts = stream.attempts
  BY <1>2, <1>3 DEF SamePast, SamePlans, SameNews
<1>6. Cardinality(c.attempts) < MaxAttempts BY <1>5 DEF Start, CanBegin
<1>7. c.consecutiveFailures <= MaxFailures BY <1>5, BoundsAreNatural
<1>8. /\ Inv(stream') /\ RefreshedIn(stream') /\ stream'.socket = "none" /\ ~stream'.isStopped
      /\ SameNews(c, stream') /\ Owners(stream') # {}
  BY <1>3, <1>4, <1>5, <1>6, <1>7, BeginsAlone
<1>9. StreamInv' BY <1>8 DEF StreamInv
<1>10. ~IsRunning /\ stream.socket = "none"
  BY FreshIsIdle DEF Start, IsRunning, StreamInv, Inv, StopIsFinalIn
<1>11. IsRunning'
  <2>1. Owners(FreshStream) = {} BY DEF Owners, FreshStream
  <2> QED BY <1>8, <2>1 DEF IsRunning
<1>12. Link!Next
  BY <1>5, <1>8, <1>10, <1>11 DEF Link!Next, Link!Start, SameNews
<1>13. RefreshKept BY <1>8, LiveIsRefreshedIn DEF RefreshKept
<1> QED BY <1>9, <1>10, <1>12, <1>13 DEF StepKept, OnlyReplaced

LEMMA StopKeeps == ASSUME StreamInv, Stop PROVE StepKept
<1> DEFINE b == BumpGeneration(Before)
           u == [b EXCEPT !.isStopped = TRUE, !.isConnecting = FALSE]
           c == ClearTimers(u)
           h == SettleHandshake(c)
           d == DisposeCandidate(h)
<1>1. Before \in StreamType /\ Before.notices = {} /\ GivenUpCounted(Before) BY BeforeIs
<1>2. b \in StreamType /\ Owners(b) = {} /\ SameNews(Before, b) BY <1>1, BumpGenerationIs
<1> HIDE DEF b
<1>3. /\ u \in StreamType /\ u.isStopped /\ u.attempts = b.attempts /\ SameNews(b, u)
  BY <1>2 DEF StreamType, SameNews
<1> HIDE DEF u
<1>4. /\ c \in StreamType
      /\ c.reconnectTimer = "none" /\ ~c.refreshTimer /\ ~c.recoveryTimer
      /\ SamePast(u, c) /\ SamePlans(u, c) /\ SameNews(u, c)
  BY <1>3, ClearTimersIs
<1> HIDE DEF c
<1>5. /\ h \in StreamType /\ h.handshake = "none" /\ SameTimers(c, h) /\ SamePast(c, h)
      /\ SamePlans(c, h) /\ SameNews(c, h)
  BY <1>4, SettleHandshakeIs
<1> HIDE DEF h
<1>6. /\ d \in StreamType /\ d.candidate = "none" /\ d.handshake = "none"
      /\ SameTimers(h, d) /\ SamePast(h, d) /\ SamePlans(h, d) /\ SameNews(h, d)
  BY <1>5, DisposeCandidateIs
<1>7. stream' = DisposeSocket(d) BY DEF Stop, b, u, c, h
<1> HIDE DEF d
<1>8. /\ stream' \in StreamType /\ stream'.socket = "none" /\ stream'.candidate = "none"
      /\ stream'.handshake = "none" /\ stream'.isStopped = d.isStopped
      /\ SameTimers(d, stream') /\ SamePlans(d, stream') /\ SameNews(d, stream')
  BY <1>6, <1>7, DisposeSocketIs
<1>9. /\ stream'.isStopped /\ stream'.reconnectTimer = "none"
      /\ ~stream'.refreshTimer /\ ~stream'.recoveryTimer /\ stream'.attempts = b.attempts
  BY <1>3, <1>4, <1>5, <1>6, <1>8 DEF SameTimers, SamePast, SamePlans
<1>10. SameNews(Before, stream')
  BY <1>2, <1>3, <1>4, <1>5, <1>6, <1>8 DEF SameNews
<1>11. Owners(stream') = {} BY <1>2, <1>9 DEF Owners
<1>12. StreamInv'
  BY <1>1, <1>8, <1>9, <1>10, <1>11
     DEF StreamInv, Inv, OneOwnerIn, StopIsFinalIn, DatedIn, WayBackIn, SocketsAgree,
         OneWayBack, CountedOut, GivenUpCounted, SameNews
<1>13. ~IsRunning' /\ stream'.notices = {} BY <1>1, <1>9, <1>10 DEF IsRunning, SameNews
<1>14. Link!Next BY <1>13 DEF Link!Next, Link!Stop
<1>15. RefreshKept BY <1>8, LiveIsRefreshedIn DEF RefreshKept, RefreshedIn
<1> QED BY <1>9, <1>12, <1>14, <1>15 DEF StepKept, OnlyReplaced

\* A callback that only clears away what was of no use any more.
LEMMA NothingMuchKeeps ==
  ASSUME StreamInv, stream # FreshStream, stream' \in StreamType,
         SameTimers(stream, stream'), SameSockets(stream, stream'), SamePast(stream, stream'),
         Owners(stream') = Owners(stream),
         stream'.consecutiveFailures = stream.consecutiveFailures,
         stream'.hasGivenUp = stream.hasGivenUp, stream'.giveUpCount = stream.giveUpCount,
         stream'.notices = {},
         \/ SameHandshake(stream, stream')
         \/ stream.handshake = "detached" /\ stream'.handshake = "none"
  PROVE  StepKept
<1>0. Inv(stream) BY DEF StreamInv
<1>1. OneOwnerIn(stream') /\ WayBackIn(stream')
  BY <1>0 DEF Inv, OneOwnerIn, WayBackIn, SameTimers, SameSockets, SamePast,
              SameHandshake, SocketsAgree
<1>2. StopIsFinalIn(stream') /\ DatedIn(stream') /\ CountedOut(stream') /\ GivenUpCounted(stream')
  BY <1>0 DEF Inv, StopIsFinalIn, DatedIn, CountedOut, GivenUpCounted, SameTimers,
              SameSockets, SamePast, SameHandshake
<1>3. SocketsAgree(stream') /\ OneWayBack(stream')
  BY <1>0 DEF Inv, SocketsAgree, OneWayBack, SameTimers, SameSockets, SameHandshake
<1>4. StreamInv' BY <1>1, <1>2, <1>3 DEF StreamInv, Inv
<1>5. Link!Next BY <1>4, LossIsHeard DEF SameSockets, SamePast
<1>6. RefreshedIn(stream) => RefreshedIn(stream')
  BY DEF RefreshedIn, SameTimers, SameSockets
<1> QED BY <1>4, <1>5, <1>6, LiveIsRefreshedIn DEF StepKept, RefreshKept, OnlyReplaced, SameSockets

\* The attempt whose fetch has ended, taken out.
Without(a) == [Before EXCEPT !.attempts = @ \ {a}]

LEMMA WithoutIs ==
  ASSUME StreamInv, NEW a \in stream.attempts
  PROVE  /\ Without(a) \in StreamType /\ Owners(Without(a)) = Owners(stream) \ {a}
         /\ SameTimers(stream, Without(a)) /\ SameSockets(stream, Without(a))
         /\ SameHandshake(stream, Without(a)) /\ SamePast(stream, Without(a))
         /\ Without(a).consecutiveFailures = stream.consecutiveFailures
         /\ Without(a).connectReason = stream.connectReason
         /\ Without(a).hasGivenUp = stream.hasGivenUp
         /\ Without(a).giveUpCount = stream.giveUpCount
         /\ Without(a).notices = {} /\ stream # FreshStream /\ a.superseded \in BOOLEAN
         /\ a.defer \in BOOLEAN
<1>1. /\ Before \in StreamType /\ Before.notices = {} /\ SameTimers(stream, Before)
      /\ SameSockets(stream, Before) /\ SameHandshake(stream, Before)
      /\ SamePast(stream, Before) /\ SamePlans(stream, Before)
      /\ Before.hasGivenUp = stream.hasGivenUp /\ Before.giveUpCount = stream.giveUpCount
  BY BeforeIs
<1> DEFINE as == Before.attempts \ {a}
<1>2. as \in SUBSET Attempt BY <1>1 DEF StreamType
<1>3. Without(a) = [Before EXCEPT !.attempts = as] BY DEF Without
<1>4. \A s \in StreamType : LET t == [s EXCEPT !.attempts = as] IN
        /\ t \in StreamType /\ t.attempts = as /\ t.notices = s.notices
        /\ SameTimers(s, t) /\ SameSockets(s, t) /\ SameHandshake(s, t) /\ SamePast(s, t)
        /\ t.consecutiveFailures = s.consecutiveFailures /\ t.connectReason = s.connectReason
        /\ t.hasGivenUp = s.hasGivenUp /\ t.giveUpCount = s.giveUpCount
  <2> HIDE DEF as
  <2> QED BY <1>2 DEF StreamType, SameTimers, SameSockets, SameHandshake, SamePast
<1>5. /\ Without(a) \in StreamType /\ Without(a).attempts = as /\ Without(a).notices = {}
      /\ SameTimers(Before, Without(a)) /\ SameSockets(Before, Without(a))
      /\ SameHandshake(Before, Without(a)) /\ SamePast(Before, Without(a))
      /\ Without(a).consecutiveFailures = Before.consecutiveFailures
      /\ Without(a).connectReason = Before.connectReason
      /\ Without(a).hasGivenUp = Before.hasGivenUp
      /\ Without(a).giveUpCount = Before.giveUpCount
  <2> HIDE DEF as
  <2> QED BY <1>1, <1>3, <1>4
<1>6. Owners(Without(a)) = Owners(stream) \ {a}
  <2>1. Without(a).attempts = stream.attempts \ {a} BY <1>1, <1>5 DEF SamePlans
  <2> HIDE DEF as
  <2> QED BY <2>1 DEF Owners
<1>7. stream # FreshStream BY FreshIsIdle
<1>8. a.superseded \in BOOLEAN /\ a.defer \in BOOLEAN
  BY DEF StreamInv, Inv, StreamType, Attempt
<1> HIDE DEF as
<1>9. /\ SameTimers(stream, Without(a)) /\ SameSockets(stream, Without(a))
      /\ SameHandshake(stream, Without(a)) /\ SamePast(stream, Without(a))
  BY <1>1, <1>5 DEF SameTimers, SameSockets, SameHandshake, SamePast
<1>10. /\ Without(a).consecutiveFailures = stream.consecutiveFailures
       /\ Without(a).connectReason = stream.connectReason
       /\ Without(a).hasGivenUp = stream.hasGivenUp
       /\ Without(a).giveUpCount = stream.giveUpCount
  BY <1>1, <1>5 DEF SamePlans
<1> QED BY <1>5, <1>6, <1>7, <1>8, <1>9, <1>10

\* What an attempt that owns the connection tells of the rest.
LEMMA OwnerIsAlone ==
  ASSUME StreamInv, NEW a \in stream.attempts, ~a.superseded
  PROVE  /\ Owners(Without(a)) = {} /\ ~stream.isStopped /\ ~stream.refreshTimer
         /\ stream.candidate = "none" /\ stream.handshake \notin {"socket", "candidate"}
         /\ stream.reconnectTimer # "refresh"
         /\ ~a.defer => /\ stream.socket = "none" /\ stream.reconnectTimer = "none"
                        /\ ~stream.recoveryTimer
         /\ a.defer => \/ stream.socket \in {"open", "closing"}
                       \/ stream.reconnectTimer = "drop" \/ stream.recoveryTimer
<1>1. a \in Owners(stream) BY DEF Owners
<1>2. Owners(Without(a)) = {} BY <1>1, WithoutIs DEF StreamInv, Inv, OneOwnerIn
<1>3. ~stream.isStopped /\ ~stream.refreshTimer /\ stream.reconnectTimer # "refresh"
      /\ stream.handshake \notin {"socket", "candidate"}
  BY <1>1 DEF StreamInv, Inv, StopIsFinalIn, OneWayBack
<1>4. stream.candidate = "none" BY <1>3 DEF StreamInv, Inv, SocketsAgree
<1> QED BY <1>1, <1>2, <1>3, <1>4 DEF StreamInv, Inv, OneOwnerIn, OneWayBack

\* A refresh beside the live socket.
LEMMA OpensBeside ==
  ASSUME StreamInv, NEW a \in stream.attempts, ~a.superseded, stream.socket = "open",
         stream.reconnectTimer = "none", stream' = OpenSocket(Without(a), a), a.defer
  PROVE  StepKept
<1> DEFINE s == Without(a)
           b == BumpGeneration(s)
           d == DisposeCandidate(b)
<1>0. Inv(stream) BY DEF StreamInv
<1>1. /\ s \in StreamType /\ Owners(s) = {} /\ SameTimers(stream, s)
      /\ SameSockets(stream, s) /\ SamePast(stream, s)
      /\ s.consecutiveFailures = stream.consecutiveFailures
      /\ s.hasGivenUp = stream.hasGivenUp /\ s.giveUpCount = stream.giveUpCount
      /\ s.notices = {} /\ stream # FreshStream
  BY WithoutIs, OwnerIsAlone
<1>2. ~stream.isStopped /\ ~stream.refreshTimer /\ stream.candidate = "none"
      /\ ~stream.recoveryTimer
  BY <1>0, OwnerIsAlone DEF Inv, OneWayBack
<1> HIDE DEF s
<1>3. /\ b \in StreamType /\ Owners(b) = {} /\ SameTimers(s, b) /\ SameSockets(s, b)
      /\ SamePast(s, b) /\ SameNews(s, b) /\ b.consecutiveFailures = s.consecutiveFailures
  BY <1>1, BumpGenerationIs
<1> HIDE DEF b
<1>4. /\ d \in StreamType /\ d.candidate = "none" /\ d.socket = b.socket
      /\ SameTimers(b, d) /\ SamePast(b, d) /\ SamePlans(b, d) /\ SameNews(b, d)
  BY <1>3, DisposeCandidateIs
<1>5. stream' = PutCandidate(d)
  BY <1>1 DEF OpenSocket, MakeWay, IsConnected, SameSockets, s, b, PutCandidate
<1> HIDE DEF d
<1>6. /\ stream' \in StreamType /\ stream'.candidate = "connecting"
      /\ stream'.handshake = "candidate" /\ stream'.handshakeCurrent
      /\ stream'.socket = d.socket /\ SameTimers(d, stream') /\ SamePast(d, stream')
      /\ SamePlans(d, stream') /\ SameNews(d, stream')
  <2>1. d \in StreamType BY <1>4
  <2> QED BY <1>5, <2>1, SetCandidate DEF HasCandidate
<1>7. Owners(stream') = {} BY <1>3, <1>4, <1>6 DEF Owners, SamePlans
<1>8. /\ stream'.socket = "open" /\ SameTimers(stream, stream') /\ SamePast(stream, stream')
      /\ stream'.consecutiveFailures = stream.consecutiveFailures
      /\ stream'.hasGivenUp = stream.hasGivenUp /\ stream'.giveUpCount = stream.giveUpCount
      /\ stream'.notices = {}
  BY <1>1, <1>3, <1>4, <1>6 DEF SameTimers, SameSockets, SamePast, SamePlans, SameNews
<1>9. DatedIn(stream') /\ CountedOut(stream') /\ GivenUpCounted(stream')
  BY <1>0, <1>8
     DEF Inv, DatedIn, CountedOut, GivenUpCounted, SameTimers, SamePast
<1>10. /\ OneOwnerIn(stream') /\ StopIsFinalIn(stream') /\ WayBackIn(stream')
       /\ RefreshedIn(stream') /\ SocketsAgree(stream') /\ OneWayBack(stream')
  BY <1>2, <1>6, <1>7, <1>8
     DEF OneOwnerIn, StopIsFinalIn, WayBackIn, RefreshedIn, SocketsAgree, OneWayBack,
         SameTimers, SamePast
<1>11. StreamInv' BY <1>6, <1>9, <1>10 DEF StreamInv, Inv
<1>12. Link!Next BY <1>1, <1>8, <1>11, LossIsHeard DEF SamePast
<1> QED BY <1>8, <1>10, <1>11, <1>12, LiveIsRefreshedIn DEF StepKept, RefreshKept, OnlyReplaced

\* The socket of a stream that has none.
LEMMA OpensAlone ==
  ASSUME StreamInv, NEW a \in stream.attempts, ~a.superseded,
         stream' = OpenSocket(Without(a), a), ~a.defer
  PROVE  StepKept
<1> DEFINE s == Without(a)
           c == DisposeCandidate(s)
           d == DisposeSocket(c)
<1>0. Inv(stream) BY DEF StreamInv
<1>1. /\ s \in StreamType /\ Owners(s) = {} /\ SameTimers(stream, s)
      /\ SameSockets(stream, s) /\ SamePast(stream, s)
      /\ s.consecutiveFailures = stream.consecutiveFailures
      /\ s.hasGivenUp = stream.hasGivenUp /\ s.giveUpCount = stream.giveUpCount
      /\ s.notices = {} /\ stream # FreshStream
  BY WithoutIs, OwnerIsAlone
<1>2. /\ ~stream.isStopped /\ ~stream.refreshTimer /\ stream.candidate = "none"
      /\ stream.socket = "none" /\ stream.reconnectTimer = "none" /\ ~stream.recoveryTimer
  BY OwnerIsAlone
<1> HIDE DEF s
<1>3. /\ c \in StreamType /\ c.candidate = "none" /\ c.socket = s.socket
      /\ SameTimers(s, c) /\ SamePast(s, c) /\ SamePlans(s, c) /\ SameNews(s, c)
  BY <1>1, DisposeCandidateIs
<1> HIDE DEF c
<1>4. d = c BY <1>1, <1>2, <1>3 DEF DisposeSocket, SameSockets
<1>5. stream' = PutSocket(c)
  BY <1>4 DEF OpenSocket, MakeWay, s, c, PutSocket
<1> HIDE DEF d
<1>6. /\ stream' \in StreamType /\ stream'.socket = "connecting"
      /\ stream'.handshake = "socket" /\ stream'.handshakeCurrent
      /\ stream'.candidate = c.candidate /\ SameTimers(c, stream') /\ SamePast(c, stream')
      /\ SamePlans(c, stream') /\ SameNews(c, stream')
  BY <1>3, <1>5, SetSocket DEF HasSocket
<1>7. Owners(stream') = {} BY <1>1, <1>3, <1>6 DEF Owners, SamePlans
<1>8. /\ stream'.candidate = "none" /\ SameTimers(stream, stream')
      /\ SamePast(stream, stream')
      /\ stream'.consecutiveFailures = stream.consecutiveFailures
      /\ stream'.hasGivenUp = stream.hasGivenUp /\ stream'.giveUpCount = stream.giveUpCount
      /\ stream'.notices = {}
  BY <1>1, <1>3, <1>6 DEF SameTimers, SameSockets, SamePast, SamePlans, SameNews
<1>9. DatedIn(stream') /\ CountedOut(stream') /\ GivenUpCounted(stream')
  BY <1>0, <1>2, <1>6, <1>8
     DEF Inv, DatedIn, CountedOut, GivenUpCounted, SameTimers, SamePast
<1>10. /\ OneOwnerIn(stream') /\ StopIsFinalIn(stream') /\ WayBackIn(stream')
       /\ RefreshedIn(stream') /\ SocketsAgree(stream') /\ OneWayBack(stream')
  BY <1>2, <1>6, <1>7, <1>8
     DEF OneOwnerIn, StopIsFinalIn, WayBackIn, RefreshedIn, SocketsAgree, OneWayBack,
         SameTimers, SamePast
<1>11. StreamInv' BY <1>6, <1>9, <1>10 DEF StreamInv, Inv
<1>12. Link!Next BY <1>1, <1>6, <1>8, <1>11, LossIsHeard DEF SamePast
<1> QED BY <1>2, <1>10, <1>11, <1>12, LiveIsRefreshedIn DEF StepKept, RefreshKept, OnlyReplaced

\* An owner that gives up its attempt because a drop has taken over.
LEMMA YieldsToDrop ==
  ASSUME StreamInv, NEW a \in stream.attempts, ~a.superseded,
         DropOwnsRecovery(Without(a), a),
         NEW t, t = [Without(a) EXCEPT !.isConnecting = FALSE], stream' = t
  PROVE  StepKept
<1> DEFINE s == Without(a)
<1>0. Inv(stream) BY DEF StreamInv
<1>1. /\ s \in StreamType /\ Owners(s) = {} /\ SameTimers(stream, s)
      /\ SameSockets(stream, s) /\ SameHandshake(stream, s) /\ SamePast(stream, s)
      /\ s.consecutiveFailures = stream.consecutiveFailures
      /\ s.hasGivenUp = stream.hasGivenUp /\ s.giveUpCount = stream.giveUpCount
      /\ s.notices = {} /\ stream # FreshStream
  BY WithoutIs, OwnerIsAlone
<1>2. a.defer /\ (stream.reconnectTimer # "none" \/ stream.socket # "open")
  BY <1>1 DEF DropOwnsRecovery, IsConnected, SameTimers, SameSockets
<1> HIDE DEF s
<1>3. t = [s EXCEPT !.isConnecting = FALSE] BY DEF s
<1>4. /\ t \in StreamType /\ t.attempts = s.attempts /\ SameTimers(s, t) /\ SameSockets(s, t)
      /\ SameHandshake(s, t) /\ SamePast(s, t) /\ SameNews(s, t)
      /\ t.consecutiveFailures = s.consecutiveFailures
  BY <1>1, <1>3 DEF StreamType, SameTimers, SameSockets, SameHandshake, SamePast, SameNews
<1>5. Owners(t) = {} BY <1>1, <1>4 DEF Owners
<1>6. /\ SameTimers(stream, t) /\ SameSockets(stream, t) /\ SameHandshake(stream, t)
      /\ SamePast(stream, t) /\ t.consecutiveFailures = stream.consecutiveFailures
      /\ t.hasGivenUp = stream.hasGivenUp /\ t.giveUpCount = stream.giveUpCount
      /\ t.notices = {}
  BY <1>1, <1>4 DEF SameTimers, SameSockets, SameHandshake, SamePast, SameNews
<1>7. /\ stream.socket \in {"open", "closing"} \/ stream.reconnectTimer = "drop"
           \/ stream.recoveryTimer
      /\ stream.socket # "open"
  BY <1>0, <1>2, OwnerIsAlone DEF Inv, OneWayBack, StreamType
<1>8. WayBackIn(t) /\ RefreshedIn(t) /\ OneOwnerIn(t)
  BY <1>5, <1>6, <1>7 DEF WayBackIn, RefreshedIn, OneOwnerIn, SameTimers, SameSockets
<1>9. DatedIn(t) /\ CountedOut(t) /\ GivenUpCounted(t) /\ SocketsAgree(t)
  BY <1>0, <1>6
     DEF Inv, DatedIn, CountedOut, GivenUpCounted, SocketsAgree, SameTimers, SameSockets,
         SameHandshake, SamePast
<1>10. StopIsFinalIn(t) BY <1>5, <1>6, OwnerIsAlone DEF StopIsFinalIn, SamePast
<1>11. OneWayBack(t)
  BY <1>0, <1>5, <1>6, OwnerIsAlone
     DEF Inv, OneWayBack, SameTimers, SameSockets, SameHandshake
<1>12. StreamInv' BY <1>4, <1>8, <1>9, <1>10, <1>11 DEF StreamInv, Inv
<1>13. Link!Next BY <1>1, <1>6, <1>12, LossIsHeard DEF SamePast, SameSockets
<1> QED BY <1>7, <1>8, <1>12, <1>13, LiveIsRefreshedIn DEF StepKept, RefreshKept, OnlyReplaced

LEMMA TokenArrivesKeeps ==
  ASSUME StreamInv, NEW a \in stream.attempts, TokenArrives(a)
  PROVE  StepKept
<1> DEFINE s == Without(a)
<1>1. stream' = IF OwnsConnection(s, a) THEN OpenSocket(s, a)
                ELSE [s EXCEPT !.isConnecting = @ /\ a.superseded]
  BY DEF TokenArrives, Without
<1>2. /\ s \in StreamType /\ SameTimers(stream, s) /\ SameSockets(stream, s)
      /\ SamePast(stream, s) /\ a.superseded \in BOOLEAN /\ a.defer \in BOOLEAN
  BY WithoutIs
<1>3. CASE a.superseded
  <2>1. /\ Owners(s) = Owners(stream) \ {a} /\ SameHandshake(stream, s)
        /\ s.consecutiveFailures = stream.consecutiveFailures
        /\ s.hasGivenUp = stream.hasGivenUp /\ s.giveUpCount = stream.giveUpCount
        /\ s.notices = {} /\ stream # FreshStream
    BY WithoutIs
  <2>2. stream' = [s EXCEPT !.isConnecting = @ /\ a.superseded]
    BY <1>1, <1>3 DEF OwnsConnection
  <2> HIDE DEF s
  <2>3. (s.isConnecting /\ a.superseded) \in BOOLEAN OBVIOUS
  <2>4. [s EXCEPT !.isConnecting = @ /\ a.superseded]
          = [s EXCEPT !.isConnecting = s.isConnecting /\ a.superseded]
    BY <1>2 DEF StreamType
  <2>5. /\ stream' \in StreamType /\ stream'.attempts = s.attempts
        /\ SameTimers(s, stream') /\ SameSockets(s, stream') /\ SameHandshake(s, stream')
        /\ SamePast(s, stream') /\ SameNews(s, stream')
        /\ stream'.consecutiveFailures = s.consecutiveFailures
    BY <1>2, <2>2, <2>3, <2>4
       DEF StreamType, SameTimers, SameSockets, SameHandshake, SamePast, SameNews
  <2>6. Owners(stream') = Owners(stream) BY <1>3, <2>1, <2>5 DEF Owners
  <2>7. /\ SameTimers(stream, stream') /\ SameSockets(stream, stream')
        /\ SameHandshake(stream, stream') /\ SamePast(stream, stream')
    BY <1>2, <2>1, <2>5 DEF SameTimers, SameSockets, SameHandshake, SamePast
  <2> QED BY <2>1, <2>5, <2>6, <2>7, NothingMuchKeeps DEF SameNews
<1>4. CASE ~a.superseded /\ DropOwnsRecovery(s, a)
  <2>1. stream' = [s EXCEPT !.isConnecting = FALSE]
    BY <1>1, <1>2, <1>4 DEF OwnsConnection, StreamType
  <2> QED BY <1>4, <2>1, YieldsToDrop
<1>5. CASE ~a.superseded /\ ~DropOwnsRecovery(s, a)
  <2>1. ~s.isStopped BY <1>2, <1>5, OwnerIsAlone DEF SamePast
  <2>2. stream' = OpenSocket(s, a) BY <1>1, <1>5, <2>1 DEF OwnsConnection
  <2>3. CASE a.defer
    <3>1. stream.socket = "open" /\ stream.reconnectTimer = "none"
      BY <1>2, <1>5, <2>3 DEF DropOwnsRecovery, IsConnected, SameTimers, SameSockets
    <3> QED BY <1>5, <2>2, <2>3, <3>1, OpensBeside
  <2>4. CASE ~a.defer BY <1>5, <2>2, <2>4, OpensAlone
  <2> QED BY <2>3, <2>4
<1> QED BY <1>2, <1>3, <1>4, <1>5

\* A callback that ends in ScheduleReconnect, ScheduleRefreshRetry or Connect: what
\* these leave of the step's news is what the platform may hear.
LEMMA EndsKept ==
  ASSUME StreamInv, stream # FreshStream, ~stream.isStopped, NEW s, s.notices = {},
         s.hasGivenUp = stream.hasGivenUp,
         Inv(stream'), RefreshedIn(stream'), ~stream'.isStopped,
         HeardOfLoss(s, stream'),
         stream'.socket = stream.socket
           \/ (stream'.socket # "open" /\ stream.socket # "open")
           \/ stream'.socket = "closing",
         stream.socket = "open" => SameNews(s, stream')
  PROVE  StepKept
<1>1. StreamInv' BY DEF StreamInv
<1>2. \/ stream'.hasGivenUp = stream.hasGivenUp /\ stream'.notices = {}
      \/ /\ ~stream.isStopped /\ stream.socket # "open"
         /\ ~stream.hasGivenUp /\ stream'.hasGivenUp /\ stream'.notices = {"unavailable"}
  BY DEF HeardOfLoss, SameNews
<1>3. stream'.isStopped = stream.isStopped
  BY DEF StreamInv, Inv, StreamType
<1>4. Link!Next BY <1>1, <1>2, <1>3, LossIsHeard
<1> QED BY <1>1, <1>4, LiveIsRefreshedIn DEF StepKept, RefreshKept, OnlyReplaced

LEMMA TokenFailsKeeps ==
  ASSUME StreamInv, NEW a \in stream.attempts, TokenFails(a)
  PROVE  StepKept
<1> DEFINE s == Without(a)
           q == [s EXCEPT !.isConnecting = FALSE]
<1>0. Inv(stream) BY DEF StreamInv
<1>1. stream' = IF s.isStopped \/ a.superseded THEN s
                ELSE IF DropOwnsRecovery(s, a) THEN q
                ELSE IF a.defer THEN ScheduleRefreshRetry(q)
                ELSE ScheduleReconnect(q)
  BY DEF TokenFails, Without
<1>2. /\ s \in StreamType /\ SameTimers(stream, s) /\ SameSockets(stream, s)
      /\ SameHandshake(stream, s) /\ SamePast(stream, s) /\ Owners(s) = Owners(stream) \ {a}
      /\ s.consecutiveFailures = stream.consecutiveFailures
      /\ s.hasGivenUp = stream.hasGivenUp /\ s.giveUpCount = stream.giveUpCount
      /\ s.notices = {} /\ stream # FreshStream
      /\ a.superseded \in BOOLEAN /\ a.defer \in BOOLEAN
  BY WithoutIs
<1>3. CASE a.superseded
  <2>1. stream' = s BY <1>1, <1>3
  <2>2. Owners(s) = Owners(stream) BY <1>2, <1>3 DEF Owners
  <2> HIDE DEF s
  <2> QED BY <1>2, <2>1, <2>2, NothingMuchKeeps
<1>4. CASE ~a.superseded /\ DropOwnsRecovery(s, a)
  <2>1. ~s.isStopped BY <1>2, <1>4, OwnerIsAlone DEF SamePast
  <2>2. stream' = q BY <1>1, <1>4, <2>1
  <2> QED BY <1>4, <2>2, YieldsToDrop
<1>5. CASE ~a.superseded /\ ~DropOwnsRecovery(s, a)
  <2>1. /\ Owners(s) = {} /\ ~stream.isStopped /\ ~stream.refreshTimer
        /\ stream.candidate = "none" /\ stream.handshake \notin {"socket", "candidate"}
        /\ stream.reconnectTimer # "refresh"
        /\ ~a.defer => /\ stream.socket = "none" /\ stream.reconnectTimer = "none"
                       /\ ~stream.recoveryTimer
    BY <1>5, OwnerIsAlone
  <2>2. ~s.isStopped BY <1>2, <2>1 DEF SamePast
  <2>3. a.defer => stream.socket = "open" /\ stream.reconnectTimer = "none"
    BY <1>2, <1>5 DEF DropOwnsRecovery, IsConnected, SameTimers, SameSockets
  <2>4. stream' = IF a.defer THEN ScheduleRefreshRetry(q) ELSE ScheduleReconnect(q)
    BY <1>1, <1>5, <2>2
  <2> HIDE DEF s
  <2>5. /\ q \in StreamType /\ q.attempts = s.attempts /\ SameTimers(s, q)
        /\ SameSockets(s, q) /\ SameHandshake(s, q) /\ SamePast(s, q) /\ SameNews(s, q)
        /\ q.consecutiveFailures = s.consecutiveFailures
    <3>1. s \in StreamType BY <1>2
    <3> QED BY <3>1
         DEF StreamType, SameTimers, SameSockets, SameHandshake, SamePast, SameNews
  <2> HIDE DEF q
  <2>6. /\ SameTimers(stream, q) /\ SameSockets(stream, q) /\ SameHandshake(stream, q)
        /\ SamePast(stream, q) /\ q.consecutiveFailures = stream.consecutiveFailures
        /\ q.hasGivenUp = stream.hasGivenUp /\ q.giveUpCount = stream.giveUpCount
        /\ q.notices = {}
    BY <1>2, <2>5 DEF SameTimers, SameSockets, SameHandshake, SamePast, SameNews
  <2>7. Owners(q) = {} BY <2>1, <2>5 DEF Owners
  <2>8. CountedOut(q) /\ GivenUpCounted(q) /\ DatedIn(q)
    BY <1>0, <2>6
       DEF Inv, CountedOut, GivenUpCounted, DatedIn, SameTimers, SamePast, SameSockets
  <2>9. /\ ~q.isStopped /\ ~q.refreshTimer /\ q.candidate = "none"
        /\ q.handshake \notin {"socket", "candidate"} /\ q.reconnectTimer # "refresh"
        /\ q.socket = stream.socket /\ q.reconnectTimer = stream.reconnectTimer
        /\ q.recoveryTimer = stream.recoveryTimer
    BY <2>1, <2>6 DEF SameTimers, SameSockets, SameHandshake, SamePast
  <2>10. CASE a.defer
    <3>1. stream.socket = "open" /\ stream.reconnectTimer = "none" /\ ~stream.recoveryTimer
      BY <1>0, <2>3, <2>10 DEF Inv, OneWayBack
    <3>2. stream' = ScheduleRefreshRetry(q) BY <2>4, <2>10
    <3>3. /\ Inv(stream') /\ RefreshedIn(stream') /\ SameSockets(q, stream') /\ ~stream'.isStopped
          /\ SameNews(q, stream')
      BY <2>5, <2>7, <2>8, <2>9, <3>1, <3>2, RefreshRetryRestores DEF DatedIn
    <3>4. HeardOfLoss(q, stream') BY <3>3 DEF HeardOfLoss, SameNews
    <3> QED BY <1>2, <2>1, <2>6, <2>9, <3>3, <3>4, EndsKept DEF SameSockets
  <2>11. CASE ~a.defer
    <3>1. stream.socket = "none" /\ stream.reconnectTimer = "none" /\ ~stream.recoveryTimer
      BY <2>1, <2>11
    <3>2. stream' = ScheduleReconnect(q) BY <2>4, <2>11
    <3>3. q.hadConnected => q.disconnectedAt
      BY <2>8, <2>9, <3>1 DEF DatedIn
    <3>4. q.hasGivenUp <=> q.giveUpCount # 0 BY <2>8 DEF GivenUpCounted
    <3>5. /\ Inv(stream') /\ RefreshedIn(stream') /\ SameSockets(q, stream') /\ ~stream'.isStopped
          /\ HeardOfLoss(q, stream')
      BY <2>5, <2>7, <2>8, <2>9, <3>1, <3>2, <3>3, <3>4, ReconnectRestores
    <3> QED BY <1>2, <2>1, <2>6, <2>9, <3>1, <3>5, EndsKept DEF SameSockets
  <2> QED BY <1>2, <2>10, <2>11
<1> QED BY <1>2, <1>3, <1>4, <1>5

\* A refresh whose socket could not be constructed: the live socket stays, alone.
LEMMA RefusedBeside ==
  ASSUME StreamInv, NEW a \in stream.attempts, ~a.superseded, stream.socket = "open",
         stream.reconnectTimer = "none", a.defer, SocketRefused(a),
         stream' = DisposeCandidate(BumpGeneration(Without(a)))
  PROVE  StepKept
<1> DEFINE s == Without(a)
           b == BumpGeneration(s)
<1>0. Inv(stream) BY DEF StreamInv
<1>1. /\ s \in StreamType /\ SameTimers(stream, s) /\ SameSockets(stream, s)
      /\ SameHandshake(stream, s) /\ SamePast(stream, s)
      /\ s.consecutiveFailures = stream.consecutiveFailures
      /\ s.hasGivenUp = stream.hasGivenUp /\ s.giveUpCount = stream.giveUpCount
      /\ s.notices = {} /\ stream # FreshStream
  BY WithoutIs
<1>2. /\ ~stream.isStopped /\ ~stream.refreshTimer /\ ~stream.recoveryTimer
      /\ stream.handshake \notin {"socket", "candidate"}
  BY <1>0, OwnerIsAlone DEF Inv, OneWayBack
<1> HIDE DEF s
<1>3. /\ b \in StreamType /\ Owners(b) = {} /\ SameTimers(s, b) /\ SameSockets(s, b)
      /\ SamePast(s, b) /\ SameNews(s, b) /\ b.consecutiveFailures = s.consecutiveFailures
      /\ b.handshake = s.handshake
  BY <1>1, BumpGenerationIs
<1>4. stream' = DisposeCandidate(b) BY DEF b, s
<1> HIDE DEF b
<1>5. /\ stream' \in StreamType /\ stream'.candidate = "none" /\ stream'.socket = b.socket
      /\ stream'.handshake = (IF b.handshake = "candidate" THEN "detached" ELSE b.handshake)
      /\ SameTimers(b, stream') /\ SamePast(b, stream') /\ SamePlans(b, stream')
      /\ SameNews(b, stream')
  BY <1>3, <1>4, DisposeCandidateIs
<1>6. Owners(stream') = {} BY <1>3, <1>5 DEF Owners, SamePlans
<1>7. /\ stream'.socket = "open" /\ SameTimers(stream, stream') /\ SamePast(stream, stream')
      /\ stream'.consecutiveFailures = stream.consecutiveFailures
      /\ stream'.hasGivenUp = stream.hasGivenUp /\ stream'.giveUpCount = stream.giveUpCount
      /\ stream'.notices = {} /\ stream'.handshake \notin {"socket", "candidate"}
  BY <1>1, <1>2, <1>3, <1>5
     DEF SameTimers, SameSockets, SameHandshake, SamePast, SamePlans, SameNews
<1>8. DatedIn(stream') /\ CountedOut(stream') /\ GivenUpCounted(stream')
  BY <1>0, <1>7
     DEF Inv, DatedIn, CountedOut, GivenUpCounted, SameTimers, SamePast
<1>9. /\ OneOwnerIn(stream') /\ StopIsFinalIn(stream') /\ WayBackIn(stream')
      /\ SocketsAgree(stream') /\ OneWayBack(stream')
  BY <1>2, <1>5, <1>6, <1>7
     DEF OneOwnerIn, StopIsFinalIn, WayBackIn, SocketsAgree, OneWayBack,
         SameTimers, SamePast
<1>10. StreamInv' BY <1>5, <1>8, <1>9 DEF StreamInv, Inv
<1>11. Link!Next BY <1>1, <1>7, <1>10, LossIsHeard DEF SamePast
<1> QED BY <1>7, <1>10, <1>11 DEF StepKept, RefreshKept, OnlyReplaced

\* A connection of its own whose socket could not be constructed.
LEMMA RefusedAlone ==
  ASSUME StreamInv, NEW a \in stream.attempts, ~a.superseded, ~a.defer,
         NEW c, c = DisposeSocket(DisposeCandidate(Without(a))),
         NEW q, q = [c EXCEPT !.isConnecting = FALSE],
         stream' = ScheduleReconnect(q)
  PROVE  StepKept
<1> DEFINE s == Without(a)
           d == DisposeCandidate(s)
<1>0. Inv(stream) BY DEF StreamInv
<1>1. /\ s \in StreamType /\ Owners(s) = {} /\ SameTimers(stream, s)
      /\ SameSockets(stream, s) /\ SameHandshake(stream, s) /\ SamePast(stream, s)
      /\ s.consecutiveFailures = stream.consecutiveFailures
      /\ s.hasGivenUp = stream.hasGivenUp /\ s.giveUpCount = stream.giveUpCount
      /\ s.notices = {} /\ stream # FreshStream
  BY WithoutIs, OwnerIsAlone
<1>2. /\ ~stream.isStopped /\ ~stream.refreshTimer /\ stream.candidate = "none"
      /\ stream.handshake \notin {"socket", "candidate"}
      /\ stream.socket = "none" /\ stream.reconnectTimer = "none" /\ ~stream.recoveryTimer
  BY OwnerIsAlone
<1>3. c = DisposeSocket(d) OBVIOUS
<1> HIDE DEF s
<1>4. /\ d \in StreamType /\ d.candidate = "none" /\ d.socket = s.socket
      /\ d.handshake = (IF s.handshake = "candidate" THEN "detached" ELSE s.handshake)
      /\ SameTimers(s, d) /\ SamePast(s, d) /\ SamePlans(s, d) /\ SameNews(s, d)
  BY <1>1, DisposeCandidateIs
<1> HIDE DEF d
<1>5. c = d BY <1>1, <1>2, <1>3, <1>4 DEF DisposeSocket, SameSockets
<1>6. /\ q \in StreamType /\ q.attempts = c.attempts /\ SameTimers(c, q)
      /\ SameSockets(c, q) /\ SameHandshake(c, q) /\ SamePast(c, q) /\ SameNews(c, q)
      /\ q.consecutiveFailures = c.consecutiveFailures
  <2>1. c \in StreamType BY <1>4, <1>5
  <2> QED BY <2>1
       DEF StreamType, SameTimers, SameSockets, SameHandshake, SamePast, SameNews
<1>7. Owners(q) = {} BY <1>1, <1>4, <1>5, <1>6 DEF Owners, SamePlans
<1>8. /\ SameTimers(stream, q) /\ SamePast(stream, q) /\ q.socket = "none"
      /\ q.candidate = "none" /\ q.consecutiveFailures = stream.consecutiveFailures
      /\ q.hasGivenUp = stream.hasGivenUp /\ q.giveUpCount = stream.giveUpCount
      /\ q.notices = {} /\ q.handshake \notin {"socket", "candidate"}
  BY <1>1, <1>2, <1>4, <1>5, <1>6
     DEF SameTimers, SameSockets, SameHandshake, SamePast, SamePlans, SameNews
<1>9. /\ ~q.isStopped /\ ~q.refreshTimer /\ q.reconnectTimer = "none" /\ ~q.recoveryTimer
      /\ q.hadConnected => q.disconnectedAt
      /\ CountedOut(q) /\ (q.hasGivenUp <=> q.giveUpCount # 0)
  BY <1>0, <1>2, <1>8
     DEF Inv, DatedIn, CountedOut, GivenUpCounted, SameTimers, SamePast
<1>10. /\ Inv(stream') /\ RefreshedIn(stream') /\ SameSockets(q, stream')
       /\ ~stream'.isStopped /\ HeardOfLoss(q, stream')
  BY <1>6, <1>7, <1>8, <1>9, ReconnectRestores
<1> QED BY <1>1, <1>2, <1>8, <1>10, EndsKept DEF SameSockets

LEMMA SocketRefusedKeeps ==
  ASSUME StreamInv, NEW a \in stream.attempts, SocketRefused(a)
  PROVE  StepKept
<1> DEFINE s == Without(a)
           t == MakeWay(s, a)
           q == [t EXCEPT !.isConnecting = FALSE]
<1>1. /\ OwnsConnection(s, a)
      /\ stream' = IF a.defer THEN t ELSE ScheduleReconnect(q)
  BY DEF SocketRefused, Without
<1>2. /\ SameTimers(stream, s) /\ SameSockets(stream, s)
      /\ a.superseded \in BOOLEAN /\ a.defer \in BOOLEAN
  BY WithoutIs
<1>3. ~a.superseded /\ ~DropOwnsRecovery(s, a) BY <1>1 DEF OwnsConnection
<1>4. CASE a.defer
  <2>1. stream.socket = "open" /\ stream.reconnectTimer = "none" /\ IsConnected(s)
    BY <1>2, <1>3, <1>4 DEF DropOwnsRecovery, IsConnected, SameTimers, SameSockets
  <2>2. stream' = DisposeCandidate(BumpGeneration(s)) BY <1>1, <1>4, <2>1 DEF MakeWay
  <2> QED BY <1>3, <1>4, <2>1, <2>2, RefusedBeside
<1>5. CASE ~a.defer
  <2>1. t = DisposeSocket(DisposeCandidate(s)) BY <1>5 DEF MakeWay
  <2>2. stream' = ScheduleReconnect(q) BY <1>1, <1>5
  <2> QED BY <1>3, <1>5, <2>1, <2>2, RefusedAlone
<1> QED BY <1>2, <1>4, <1>5

\* What a timer's callback makes of the fields before it connects.
Resumed(s, t, r, k) ==
  /\ t \in StreamType /\ t.reconnectTimer = "none" /\ t.connectReason = r
  /\ ~t.refreshTimer /\ ~t.recoveryTimer /\ t.consecutiveFailures = k
  /\ SameSockets(s, t) /\ SameHandshake(s, t) /\ SamePast(s, t) /\ SameNews(s, t)
  /\ t.attempts = s.attempts

PutRefresh(s) ==
  [s EXCEPT !.refreshTimer = FALSE, !.reconnectTimer = "none", !.connectReason = "refresh"]

PutRetry(s, r) == [s EXCEPT !.reconnectTimer = "none", !.connectReason = r]

PutRecovery(s) ==
  [s EXCEPT !.recoveryTimer = FALSE, !.consecutiveFailures = 0, !.connectReason = "drop"]

LEMMA RefreshResumes ==
  ASSUME NEW s \in StreamType, ~s.recoveryTimer
  PROVE  Resumed(s, PutRefresh(s), "refresh", s.consecutiveFailures)
<1> DEFINE t == PutRefresh(s)
<1>1. t \in StreamType BY DEF PutRefresh, StreamType
<1>2. /\ t.reconnectTimer = "none" /\ t.connectReason = "refresh" /\ t.attempts = s.attempts
      /\ ~t.refreshTimer /\ ~t.recoveryTimer /\ t.consecutiveFailures = s.consecutiveFailures
  BY DEF PutRefresh, StreamType
<1>3. SameSockets(s, t) /\ SameHandshake(s, t) /\ SamePast(s, t) /\ SameNews(s, t)
  BY DEF PutRefresh, StreamType, SameSockets, SameHandshake, SamePast, SameNews
<1> QED BY <1>1, <1>2, <1>3 DEF Resumed

LEMMA RetryResumes ==
  ASSUME NEW s \in StreamType, ~s.refreshTimer, ~s.recoveryTimer,
         NEW r \in {"initial", "refresh", "drop"}
  PROVE  Resumed(s, PutRetry(s, r), r, s.consecutiveFailures)
<1> DEFINE t == PutRetry(s, r)
<1>1. t \in StreamType BY DEF PutRetry, StreamType
<1>2. /\ t.reconnectTimer = "none" /\ t.connectReason = r /\ t.attempts = s.attempts
      /\ ~t.refreshTimer /\ ~t.recoveryTimer /\ t.consecutiveFailures = s.consecutiveFailures
  BY DEF PutRetry, StreamType
<1>3. SameSockets(s, t) /\ SameHandshake(s, t) /\ SamePast(s, t) /\ SameNews(s, t)
  BY DEF PutRetry, StreamType, SameSockets, SameHandshake, SamePast, SameNews
<1> QED BY <1>1, <1>2, <1>3 DEF Resumed

LEMMA RecoveryResumes ==
  ASSUME NEW s \in StreamType, ~s.refreshTimer, s.reconnectTimer = "none"
  PROVE  Resumed(s, PutRecovery(s), "drop", 0)
<1> DEFINE t == PutRecovery(s)
<1>0. 0 \in 0..(MaxFailures + 1) BY BoundsAreNatural
<1>1. t \in StreamType BY <1>0 DEF PutRecovery, StreamType
<1>2. /\ t.reconnectTimer = "none" /\ t.connectReason = "drop" /\ t.attempts = s.attempts
      /\ ~t.refreshTimer /\ ~t.recoveryTimer /\ t.consecutiveFailures = 0
  BY DEF PutRecovery, StreamType
<1>3. SameSockets(s, t) /\ SameHandshake(s, t) /\ SamePast(s, t) /\ SameNews(s, t)
  BY DEF PutRecovery, StreamType, SameSockets, SameHandshake, SamePast, SameNews
<1> QED BY <1>1, <1>2, <1>3 DEF Resumed

LEMMA TimersKeep ==
  ASSUME StreamInv, RefreshTimerFires \/ ReconnectTimerFires \/ RecoveryTimerFires
  PROVE  StepKept
<1>0. Inv(stream) BY DEF StreamInv
<1>1. /\ Before \in StreamType /\ Before.notices = {} /\ Owners(Before) = Owners(stream)
      /\ SameTimers(stream, Before) /\ SameSockets(stream, Before)
      /\ SameHandshake(stream, Before) /\ SamePast(stream, Before)
      /\ SamePlans(stream, Before)
      /\ Before.hasGivenUp = stream.hasGivenUp /\ Before.giveUpCount = stream.giveUpCount
  BY BeforeIs
<1>2. /\ stream # FreshStream /\ ~stream.isStopped
      /\ Cardinality(stream.attempts) < MaxAttempts
  BY <1>0, FreshIsIdle
     DEF RefreshTimerFires, ReconnectTimerFires, RecoveryTimerFires, CanBegin, Inv,
         StopIsFinalIn
<1>3. ASSUME NEW s \in StreamType, SameSockets(stream, s), SamePast(stream, s),
             s.attempts = stream.attempts, s.notices = {},
             s.hasGivenUp = stream.hasGivenUp, s.giveUpCount = stream.giveUpCount,
             s.reconnectTimer = "none", ~s.refreshTimer, ~s.recoveryTimer,
             s.consecutiveFailures <= MaxFailures,
             stream.socket = "open" => s.connectReason = "refresh" /\ Owners(stream) = {}
                                       /\ stream.candidate = "none",
             stream' = Connect(s)
      PROVE  StepKept
  <2>1. /\ s.socket = stream.socket /\ s.candidate = stream.candidate /\ ~s.isStopped
        /\ s.hadConnected = stream.hadConnected /\ s.disconnectedAt = stream.disconnectedAt
    BY <1>2, <1>3 DEF SameSockets, SamePast
  <2>2. Owners(s) = Owners(stream) /\ Cardinality(s.attempts) < MaxAttempts
    BY <1>2, <1>3 DEF Owners
  <2>3. s.hasGivenUp <=> s.giveUpCount # 0 BY <1>0, <1>3 DEF Inv, GivenUpCounted
  <2>4. CASE stream.socket = "open"
    <3>1. DatedIn(s) /\ GivenUpCounted(s)
      BY <1>0, <1>3, <2>1, <2>4 DEF Inv, DatedIn, GivenUpCounted
    <3>2. CountedOut(s) BY <1>3, BoundsAreNatural DEF CountedOut
    <3>3. /\ Inv(stream') /\ RefreshedIn(stream') /\ stream'.socket = "open"
          /\ ~stream'.isStopped /\ SameNews(s, stream')
      BY <1>3, <2>1, <2>2, <2>4, <3>1, <3>2, BeginsBeside
    <3>4. HeardOfLoss(s, stream') BY <3>3 DEF HeardOfLoss, SameNews
    <3> QED BY <1>2, <1>3, <2>4, <3>3, <3>4, EndsKept
  <2>5. CASE stream.socket # "open"
    <3>1. s.socket = "none" /\ s.hadConnected => s.disconnectedAt
      BY <1>0, <1>2, <2>1 DEF Inv, DatedIn
    <3>2. ~IsConnected(s) BY <2>1, <2>5 DEF IsConnected
    <3>3. /\ Inv(stream') /\ RefreshedIn(stream') /\ stream'.socket = "none"
          /\ ~stream'.isStopped /\ SameNews(s, stream')
      BY <1>3, <2>1, <2>2, <2>3, <3>1, <3>2, BeginsAlone
    <3>4. HeardOfLoss(s, stream') BY <3>3 DEF HeardOfLoss, SameNews
    <3> QED BY <1>2, <1>3, <2>5, <3>3, <3>4, EndsKept
  <2> QED BY <2>4, <2>5
<1>4. stream.consecutiveFailures \in 0..(MaxFailures + 1) /\ 0 \in 0..(MaxFailures + 1)
      /\ stream.connectReason \in {"initial", "refresh", "drop"}
  BY <1>0, BoundsAreNatural DEF Inv, StreamType
<1>5. ~stream.recoveryTimer => stream.consecutiveFailures <= MaxFailures
  BY <1>0, <1>2, <1>4, BoundsAreNatural DEF Inv, CountedOut
<1>6. ASSUME NEW r \in {"initial", "refresh", "drop"}, NEW k \in 0..(MaxFailures + 1),
             k <= MaxFailures,
             stream.socket = "open" => r = "refresh" /\ Owners(stream) = {}
                                       /\ stream.candidate = "none",
             NEW s, Resumed(Before, s, r, k), stream' = Connect(s)
      PROVE  StepKept
  <2>1. /\ s \in StreamType /\ s.reconnectTimer = "none" /\ s.connectReason = r
        /\ ~s.refreshTimer /\ ~s.recoveryTimer /\ s.consecutiveFailures = k
        /\ SameSockets(Before, s) /\ SamePast(Before, s) /\ SameNews(Before, s)
        /\ s.attempts = Before.attempts
    BY <1>6 DEF Resumed
  <2>2. /\ SameSockets(stream, s) /\ SamePast(stream, s) /\ s.attempts = stream.attempts
        /\ s.notices = {} /\ s.hasGivenUp = stream.hasGivenUp
        /\ s.giveUpCount = stream.giveUpCount
    BY <1>1, <2>1 DEF SameSockets, SamePast, SamePlans, SameNews
  <2> QED BY <1>3, <1>6, <2>1, <2>2
<1>7. /\ Before.refreshTimer = stream.refreshTimer /\ Before.recoveryTimer = stream.recoveryTimer
      /\ Before.reconnectTimer = stream.reconnectTimer
      /\ Before.consecutiveFailures = stream.consecutiveFailures
      /\ Before.connectReason = stream.connectReason
      /\ stream.refreshTimer \in BOOLEAN /\ stream.recoveryTimer \in BOOLEAN
  BY <1>0, <1>1 DEF SameTimers, SamePlans, Inv, StreamType
<1>8. CASE RefreshTimerFires
  <2>1. stream.refreshTimer /\ ~stream.recoveryTimer /\ Owners(stream) = {}
        /\ stream.reconnectTimer = "none"
    BY <1>0, <1>8 DEF RefreshTimerFires, Inv, OneWayBack
  <2>2. stream.candidate = "none"
    BY <1>0, <2>1 DEF Inv, OneWayBack, SocketsAgree
  <2>3. stream' = Connect(PutRefresh(Before)) BY <1>8 DEF RefreshTimerFires, PutRefresh
  <2>4. Resumed(Before, PutRefresh(Before), "refresh", stream.consecutiveFailures)
    BY <1>1, <1>7, <2>1, RefreshResumes
  <2> QED BY <1>4, <1>5, <1>6, <2>1, <2>2, <2>3, <2>4
<1>9. CASE ReconnectTimerFires
  <2> DEFINE r == IF stream.reconnectTimer = "refresh" THEN "refresh" ELSE stream.connectReason
  <2>1. stream.reconnectTimer # "none" /\ ~stream.refreshTimer /\ ~stream.recoveryTimer
    BY <1>0, <1>9 DEF ReconnectTimerFires, Inv, OneWayBack
  <2>2. stream.socket = "open" => /\ stream.reconnectTimer = "refresh" /\ Owners(stream) = {}
                                  /\ stream.candidate = "none"
    BY <1>0, <2>1 DEF Inv, OneWayBack, SocketsAgree, StreamType
  <2>3. stream' = Connect(PutRetry(Before, r))
    BY <1>1, <1>7, <1>9 DEF ReconnectTimerFires, StreamType, PutRetry
  <2>4. r \in {"initial", "refresh", "drop"} BY <1>4
  <2>5. stream.socket = "open" => r = "refresh" BY <2>2
  <2> HIDE DEF r
  <2>6. Resumed(Before, PutRetry(Before, r), r, stream.consecutiveFailures)
    BY <1>1, <1>7, <2>1, <2>4, RetryResumes
  <2> QED BY <1>4, <1>5, <1>6, <2>1, <2>2, <2>3, <2>4, <2>5, <2>6
<1>10. CASE RecoveryTimerFires
  <2>1. /\ stream.recoveryTimer /\ stream.reconnectTimer = "none" /\ stream.socket # "open"
        /\ ~stream.refreshTimer
    BY <1>0, <1>10 DEF RecoveryTimerFires, Inv, OneWayBack
  <2>2. stream' = Connect(PutRecovery(Before)) BY <1>10 DEF RecoveryTimerFires, PutRecovery
  <2>3. Resumed(Before, PutRecovery(Before), "drop", 0)
    BY <1>1, <1>7, <2>1, RecoveryResumes
  <2>4. 0 <= MaxFailures BY BoundsAreNatural
  <2> QED BY <1>4, <1>6, <2>1, <2>2, <2>3, <2>4
<1> QED BY <1>8, <1>9, <1>10

\* The part of #handleOpen that ends the outage.
OutageOver(s) ==
  [s EXCEPT !.disconnectedAt = FALSE, !.connectReason = "drop", !.hasGivenUp = FALSE]

LEMMA OutageOverIs ==
  ASSUME NEW s \in StreamType, NEW t, t = OutageOver(s)
  PROVE  /\ t \in StreamType /\ t.consecutiveFailures = s.consecutiveFailures
         /\ t.giveUpCount = s.giveUpCount /\ ~t.disconnectedAt /\ ~t.hasGivenUp
         /\ SameTimers(s, t) /\ SameSockets(s, t) /\ t.isStopped = s.isStopped
         /\ t.attempts = s.attempts /\ t.hadConnected = s.hadConnected
         /\ t.notices = s.notices
<1>1. t \in StreamType BY DEF OutageOver, StreamType
<1>2. SameTimers(s, t) /\ SameSockets(s, t)
  BY DEF OutageOver, StreamType, SameTimers, SameSockets
<1> QED BY <1>1, <1>2 DEF OutageOver, StreamType

\* #handleOpen, of a stream whose only concern the new socket is.
LEMMA HandleOpenIs ==
  ASSUME NEW s \in StreamType, NEW t, t = HandleOpen(s)
  PROVE  /\ t \in StreamType /\ t.consecutiveFailures = 0 /\ t.giveUpCount = 0
         /\ ~t.disconnectedAt /\ ~t.hasGivenUp /\ t.refreshTimer
         /\ t.reconnectTimer = s.reconnectTimer /\ t.recoveryTimer = s.recoveryTimer
         /\ SameSockets(s, t) /\ t.isStopped = s.isStopped /\ t.attempts = s.attempts
         /\ (t.notices \cap {"unavailable", "recovered"}) =
              (s.notices \cap {"unavailable", "recovered"})
                \cup (IF s.hasGivenUp THEN {"recovered"} ELSE {})
<1> DEFINE n == s.notices \cup
                  (IF s.hadConnected /\ s.connectReason # "refresh" THEN {"reconnect"} ELSE {})
                  \cup (IF s.hasGivenUp THEN {"recovered"} ELSE {})
           u == [s EXCEPT !.isConnecting = FALSE, !.consecutiveFailures = 0, !.giveUpCount = 0]
           v == OutageOver(u)
<1>0. 0 \in 0..2 /\ 0 \in 0..(MaxFailures + 1) BY BoundsAreNatural
<1>1. n \in SUBSET {"unavailable", "reconnect", "recovered"} BY DEF StreamType
<1>2. t = PutConnected(v, n)
  BY DEF HandleOpen, OutageOver, StreamType, PutConnected
<1>3. (n \cap {"unavailable", "recovered"}) =
        (s.notices \cap {"unavailable", "recovered"})
          \cup (IF s.hasGivenUp THEN {"recovered"} ELSE {})
  BY DEF StreamType
<1> HIDE DEF n
<1>4. /\ u \in StreamType /\ u.consecutiveFailures = 0 /\ u.giveUpCount = 0
      /\ SameTimers(s, u) /\ SameSockets(s, u) /\ u.isStopped = s.isStopped
      /\ u.attempts = s.attempts
  BY <1>0 DEF StreamType, SameTimers, SameSockets
<1> HIDE DEF u
<1>5. /\ v \in StreamType /\ v.consecutiveFailures = u.consecutiveFailures
      /\ v.giveUpCount = u.giveUpCount /\ ~v.disconnectedAt /\ ~v.hasGivenUp
      /\ SameTimers(u, v) /\ SameSockets(u, v) /\ v.isStopped = u.isStopped
      /\ v.attempts = u.attempts
  BY <1>4, OutageOverIs
<1> HIDE DEF v
<1>6. /\ t \in StreamType /\ t.consecutiveFailures = v.consecutiveFailures
      /\ t.giveUpCount = v.giveUpCount /\ t.disconnectedAt = v.disconnectedAt
      /\ t.hasGivenUp = v.hasGivenUp /\ t.refreshTimer /\ t.notices = n
      /\ t.reconnectTimer = v.reconnectTimer /\ t.recoveryTimer = v.recoveryTimer
      /\ SameSockets(v, t) /\ t.isStopped = v.isStopped /\ t.attempts = v.attempts
  <2>1. v \in StreamType BY <1>5
  <2> QED BY <1>1, <1>2, <2>1, SetConnected DEF HasConnected
<1> QED BY <1>3, <1>4, <1>5, <1>6 DEF SameTimers, SameSockets

LEMMA HandshakeOpensKeeps == ASSUME StreamInv, HandshakeOpens PROVE StepKept
<1> DEFINE s == [Before EXCEPT !.socket = "open", !.candidate = "none"]
           h == HandleOpen(s)
<1>0. Inv(stream) BY DEF StreamInv
<1>1. /\ Before \in StreamType /\ Before.notices = {} /\ Owners(Before) = Owners(stream)
      /\ SameTimers(stream, Before) /\ SamePast(stream, Before)
      /\ Before.hasGivenUp = stream.hasGivenUp /\ Before.giveUpCount = stream.giveUpCount
  BY BeforeIs
<1>2. stream.handshake \in {"socket", "candidate"} BY DEF HandshakeOpens
<1>3. /\ Owners(stream) = {} /\ stream.reconnectTimer = "none" /\ ~stream.recoveryTimer
      /\ stream.handshakeCurrent /\ ~stream.isStopped /\ stream # FreshStream
  BY <1>0, <1>2, FreshIsIdle DEF Inv, OneWayBack, SocketsAgree, StopIsFinalIn
<1>4. stream' = SettleHandshake(h) BY <1>3 DEF HandshakeOpens
<1>5. /\ s \in StreamType /\ s.socket = "open" /\ s.candidate = "none"
      /\ SameTimers(Before, s) /\ s.isStopped = Before.isStopped /\ SameNews(Before, s)
      /\ s.attempts = Before.attempts
  <2>1. Before \in StreamType BY <1>1
  <2> QED BY <2>1 DEF StreamType, SameTimers, SameNews
<1> HIDE DEF s
<1>6. /\ h \in StreamType /\ h.consecutiveFailures = 0 /\ h.giveUpCount = 0
      /\ ~h.disconnectedAt /\ ~h.hasGivenUp /\ h.refreshTimer
      /\ h.reconnectTimer = s.reconnectTimer /\ h.recoveryTimer = s.recoveryTimer
      /\ SameSockets(s, h) /\ h.isStopped = s.isStopped /\ h.attempts = s.attempts
      /\ (h.notices \cap {"unavailable", "recovered"}) =
           (s.notices \cap {"unavailable", "recovered"})
             \cup (IF s.hasGivenUp THEN {"recovered"} ELSE {})
  BY <1>5, HandleOpenIs
<1> HIDE DEF h
<1>7. /\ stream' \in StreamType /\ stream'.handshake = "none"
      /\ SameTimers(h, stream') /\ SameSockets(h, stream') /\ SamePast(h, stream')
      /\ SamePlans(h, stream') /\ SameNews(h, stream')
  BY <1>4, <1>6, SettleHandshakeIs
<1>8. Owners(stream') = {} BY <1>1, <1>3, <1>5, <1>6, <1>7 DEF Owners, SamePlans
<1>9. /\ stream'.socket = "open" /\ stream'.candidate = "none" /\ stream'.refreshTimer
      /\ stream'.reconnectTimer = "none" /\ ~stream'.recoveryTimer
      /\ ~stream'.isStopped /\ ~stream'.disconnectedAt /\ ~stream'.hasGivenUp
      /\ stream'.giveUpCount = 0 /\ stream'.consecutiveFailures = 0
  BY <1>1, <1>3, <1>5, <1>6, <1>7
     DEF SameTimers, SameSockets, SamePast, SamePlans, SameNews
<1>10. stream'.notices \cap {"unavailable", "recovered"}
         = IF stream.hasGivenUp THEN {"recovered"} ELSE {}
  <2>1. s.notices = {} /\ s.hasGivenUp = stream.hasGivenUp BY <1>1, <1>5 DEF SameNews
  <2>2. stream'.notices = h.notices BY <1>7 DEF SameNews
  <2> QED BY <1>6, <2>1, <2>2
<1>11. CountedOut(stream') BY <1>9, BoundsAreNatural DEF CountedOut
<1>12. /\ OneOwnerIn(stream') /\ StopIsFinalIn(stream') /\ DatedIn(stream')
       /\ WayBackIn(stream') /\ RefreshedIn(stream') /\ SocketsAgree(stream')
       /\ OneWayBack(stream') /\ GivenUpCounted(stream')
  BY <1>7, <1>8, <1>9
     DEF OneOwnerIn, StopIsFinalIn, DatedIn, WayBackIn, RefreshedIn, SocketsAgree,
         OneWayBack, GivenUpCounted
<1>13. StreamInv' BY <1>7, <1>11, <1>12 DEF StreamInv, Inv
<1>14. IsRunning /\ IsRunning'
  BY <1>3, <1>9 DEF IsRunning, FreshStream
<1>15. stream.socket = "open" => ~stream.hasGivenUp BY <1>0 DEF Inv, GivenUpCounted
<1>16. Link!Next
  <2>1. CASE stream.hasGivenUp
    BY <1>9, <1>10, <1>14, <1>15, <2>1 DEF Link!Next, Link!Recover
  <2>2. CASE ~stream.hasGivenUp
    BY <1>9, <1>10, <1>14, <2>2 DEF Link!Next, Link!Connect, Link!Quiet
  <2> QED BY <2>1, <2>2
<1> QED BY <1>9, <1>12, <1>13, <1>16, LiveIsRefreshedIn DEF StepKept, RefreshKept, OnlyReplaced

PutClosed(s) ==
  [s EXCEPT !.isConnecting = FALSE, !.disconnectedAt = TRUE, !.refreshTimer = FALSE,
            !.reconnectTimer = "none", !.connectReason = "drop"]

HasClosed(s, t) ==
  /\ t \in StreamType /\ t.disconnectedAt /\ ~t.refreshTimer /\ t.reconnectTimer = "none"
  /\ SameSockets(s, t) /\ SameHandshake(s, t) /\ SameNews(s, t)
  /\ t.isStopped = s.isStopped /\ t.hadConnected = s.hadConnected
  /\ t.attempts = s.attempts /\ t.consecutiveFailures = s.consecutiveFailures
  /\ t.recoveryTimer = s.recoveryTimer

LEMMA SetClosed == ASSUME NEW s \in StreamType PROVE HasClosed(s, PutClosed(s))
<1> DEFINE t == PutClosed(s)
<1>1. t \in StreamType BY DEF PutClosed, StreamType
<1>2. /\ t.disconnectedAt /\ ~t.refreshTimer /\ t.reconnectTimer = "none"
      /\ t.isStopped = s.isStopped /\ t.hadConnected = s.hadConnected
      /\ t.attempts = s.attempts /\ t.consecutiveFailures = s.consecutiveFailures
      /\ t.recoveryTimer = s.recoveryTimer
  BY DEF PutClosed, StreamType
<1>3. SameSockets(s, t) /\ SameHandshake(s, t) /\ SameNews(s, t)
  BY DEF PutClosed, StreamType, SameSockets, SameHandshake, SameNews
<1> QED BY <1>1, <1>2, <1>3 DEF HasClosed

\* 'close': #handleClose, of a stream whose socket is gone.
LEMMA HandleCloseRestores ==
  ASSUME NEW s \in StreamType, ~s.isStopped,
         s.socket \in {"none", "closing", "closed"}, s.candidate = "none",
         s.handshake \notin {"socket", "candidate"},
         \A a \in Owners(s) : a.defer, \A a, b \in Owners(s) : a = b,
         CountedOut(s), s.hasGivenUp <=> s.giveUpCount # 0,
         NEW t, t = HandleClose(s)
  PROVE  Inv(t) /\ RefreshedIn(t) /\ SameSockets(s, t) /\ ~t.isStopped /\ HeardOfLoss(s, t)
<1> DEFINE v == PutClosed(s)
<1>1. t = ScheduleReconnect(v) BY DEF HandleClose, PutClosed
<1> HIDE DEF v
<1>2. HasClosed(s, v) BY SetClosed DEF v
<1>3. /\ v \in StreamType /\ v.disconnectedAt /\ ~v.refreshTimer /\ v.reconnectTimer = "none"
      /\ SameSockets(s, v) /\ SameHandshake(s, v) /\ SameNews(s, v) /\ ~v.isStopped
      /\ v.attempts = s.attempts /\ v.consecutiveFailures = s.consecutiveFailures
      /\ v.recoveryTimer = s.recoveryTimer
  BY <1>2 DEF HasClosed
<1>4. Owners(v) = Owners(s) BY <1>3 DEF Owners
<1>5. CountedOut(v) BY <1>3 DEF CountedOut
<1>6. /\ v.socket \in {"none", "closing", "closed"} /\ v.candidate = "none"
      /\ v.handshake \notin {"socket", "candidate"} /\ (v.hasGivenUp <=> v.giveUpCount # 0)
  BY <1>3 DEF SameSockets, SameHandshake, SameNews
<1>7. /\ Inv(t) /\ RefreshedIn(t) /\ SameSockets(v, t) /\ ~t.isStopped /\ HeardOfLoss(v, t)
  BY <1>1, <1>3, <1>4, <1>5, <1>6, ReconnectRestores
<1> QED BY <1>3, <1>7 DEF SameSockets, HeardOfLoss, SameNews

\* A socket or a candidate forgotten, without or with its handshake settled.
LEMMA CandidateClosesKeeps == ASSUME StreamInv, CandidateCloses PROVE StepKept
<1> DEFINE c == [Before EXCEPT !.candidate = "none", !.isConnecting = FALSE]
           s == SettleHandshake(c)
<1>0. Inv(stream) BY DEF StreamInv
<1>1. /\ Before \in StreamType /\ Before.notices = {} /\ Owners(Before) = Owners(stream)
      /\ SameTimers(stream, Before) /\ SameSockets(stream, Before)
      /\ SamePast(stream, Before) /\ SamePlans(stream, Before)
      /\ Before.hasGivenUp = stream.hasGivenUp /\ Before.giveUpCount = stream.giveUpCount
  BY BeforeIs
<1>2. /\ stream.candidate = "closing" /\ stream.handshake = "candidate"
      /\ stream.socket \notin {"none", "connecting"}
  BY <1>0 DEF CandidateCloses, Inv, SocketsAgree
<1>3. /\ Owners(stream) = {} /\ stream.reconnectTimer = "none" /\ ~stream.recoveryTimer
      /\ ~stream.refreshTimer /\ ~stream.isStopped /\ stream # FreshStream
  BY <1>0, <1>2, FreshIsIdle DEF Inv, OneWayBack, StopIsFinalIn
<1>4. stream' = IF IsConnected(s) THEN ScheduleRefreshRetry(s) ELSE HandleClose(s)
  BY DEF CandidateCloses
<1>5. /\ c \in StreamType /\ c.candidate = "none" /\ c.socket = Before.socket
      /\ SameTimers(Before, c) /\ SamePast(Before, c) /\ SamePlans(Before, c)
      /\ SameNews(Before, c)
  <2>1. Before \in StreamType BY <1>1
  <2> QED BY <2>1 DEF StreamType, SameTimers, SamePast, SamePlans, SameNews
<1> HIDE DEF c
<1>6. /\ s \in StreamType /\ s.handshake = "none"
      /\ SameTimers(c, s) /\ SameSockets(c, s) /\ SamePast(c, s) /\ SamePlans(c, s)
      /\ SameNews(c, s)
  BY <1>5, SettleHandshakeIs
<1> HIDE DEF s
<1>7. /\ s.socket = stream.socket /\ s.candidate = "none" /\ SameTimers(stream, s)
      /\ SamePast(stream, s) /\ SamePlans(stream, s) /\ s.notices = {}
      /\ s.hasGivenUp = stream.hasGivenUp /\ s.giveUpCount = stream.giveUpCount
  BY <1>1, <1>5, <1>6 DEF SameTimers, SameSockets, SamePast, SamePlans, SameNews
<1>8. Owners(s) = {} BY <1>3, <1>7 DEF Owners, SamePlans
<1>9. CountedOut(s) /\ GivenUpCounted(s) /\ DatedIn(s)
  BY <1>0, <1>7
     DEF Inv, CountedOut, GivenUpCounted, DatedIn, SameTimers, SamePast, SamePlans
<1>10. /\ ~s.isStopped /\ ~s.refreshTimer /\ ~s.recoveryTimer /\ s.reconnectTimer = "none"
  BY <1>3, <1>7 DEF SameTimers, SamePast
<1>11. CASE stream.socket = "open"
  <2>1. stream' = ScheduleRefreshRetry(s) BY <1>4, <1>7, <1>11 DEF IsConnected
  <2>2. /\ Inv(stream') /\ RefreshedIn(stream') /\ SameSockets(s, stream')
        /\ ~stream'.isStopped /\ SameNews(s, stream')
    BY <1>6, <1>7, <1>8, <1>9, <1>10, <1>11, <2>1, RefreshRetryRestores DEF DatedIn
  <2>3. HeardOfLoss(s, stream') BY <2>2 DEF HeardOfLoss, SameNews
  <2> QED BY <1>3, <1>7, <2>2, <2>3, EndsKept DEF SameSockets
<1>12. CASE stream.socket # "open"
  <2>1. stream' = HandleClose(s) BY <1>4, <1>7, <1>12 DEF IsConnected
  <2>2. s.socket \in {"none", "closing", "closed"}
    BY <1>0, <1>2, <1>7, <1>12 DEF Inv, StreamType
  <2>3. /\ Inv(stream') /\ RefreshedIn(stream') /\ SameSockets(s, stream') /\ ~stream'.isStopped
        /\ HeardOfLoss(s, stream')
    BY <1>6, <1>7, <1>8, <1>9, <1>10, <2>1, <2>2, HandleCloseRestores DEF GivenUpCounted
  <2> QED BY <1>3, <1>7, <1>12, <2>3, EndsKept DEF SameSockets
<1> QED BY <1>11, <1>12

LEMMA SocketClosesKeeps == ASSUME StreamInv, SocketCloses PROVE StepKept
<1> DEFINE c == [Before EXCEPT !.socket = "closed"]
           d == DisposeCandidate(c)
           s == IF stream.handshake = "socket" THEN SettleHandshake(d) ELSE d
<1>0. Inv(stream) BY DEF StreamInv
<1>1. /\ Before \in StreamType /\ Before.notices = {} /\ Owners(Before) = Owners(stream)
      /\ SamePast(stream, Before) /\ SameHandshake(stream, Before)
      /\ SamePlans(stream, Before) /\ SameTimers(stream, Before)
      /\ Before.hasGivenUp = stream.hasGivenUp /\ Before.giveUpCount = stream.giveUpCount
  BY BeforeIs
<1>2. stream.socket = "closing" /\ ~stream.isStopped /\ stream # FreshStream
  BY <1>0, FreshIsIdle DEF SocketCloses, Inv, StopIsFinalIn
<1>3. stream' = HandleClose(s) BY DEF SocketCloses
<1>4. /\ c \in StreamType /\ c.socket = "closed" /\ c.handshake = Before.handshake
      /\ SamePast(Before, c) /\ SamePlans(Before, c) /\ SameNews(Before, c)
      /\ SameTimers(Before, c)
  <2>1. Before \in StreamType BY <1>1
  <2> QED BY <2>1 DEF StreamType, SamePast, SamePlans, SameNews, SameTimers
<1> HIDE DEF c
<1>5. /\ d \in StreamType /\ d.candidate = "none" /\ d.socket = c.socket
      /\ d.handshake = (IF c.handshake = "candidate" THEN "detached" ELSE c.handshake)
      /\ SamePast(c, d) /\ SamePlans(c, d) /\ SameNews(c, d) /\ SameTimers(c, d)
  BY <1>4, DisposeCandidateIs
<1> HIDE DEF d
<1>6. /\ s \in StreamType /\ SameSockets(d, s) /\ SamePast(d, s) /\ SamePlans(d, s)
      /\ SameNews(d, s) /\ s.handshake \notin {"socket", "candidate"} /\ SameTimers(d, s)
  <2>1. CASE stream.handshake = "socket"
    BY <1>5, <2>1, SettleHandshakeIs
  <2>2. CASE stream.handshake # "socket"
    <3>1. s = d BY <2>2
    <3>2. d.handshake \notin {"socket", "candidate"}
      BY <1>1, <1>4, <1>5, <2>2 DEF SameHandshake
    <3> QED BY <1>5, <3>1, <3>2 DEF SameSockets, SamePast, SamePlans, SameNews, SameTimers
  <2> QED BY <2>1, <2>2
<1> HIDE DEF s
<1>7. /\ s.socket = "closed" /\ s.candidate = "none" /\ ~s.isStopped /\ s.notices = {}
      /\ s.hasGivenUp = stream.hasGivenUp /\ s.giveUpCount = stream.giveUpCount
      /\ s.attempts = stream.attempts /\ s.consecutiveFailures = stream.consecutiveFailures
      /\ s.recoveryTimer = stream.recoveryTimer
  BY <1>1, <1>2, <1>4, <1>5, <1>6
     DEF SameSockets, SamePast, SamePlans, SameNews, SameTimers
<1>8. Owners(s) = Owners(stream) BY <1>7 DEF Owners
<1>9. (\A a \in Owners(s) : a.defer) /\ (\A a, b \in Owners(s) : a = b)
  <2>1. \A a \in Owners(stream) : a.defer \in BOOLEAN
    BY <1>0 DEF Inv, StreamType, Attempt, Owners
  <2> QED BY <1>0, <1>2, <1>8, <2>1 DEF Inv, OneOwnerIn
<1>10. CountedOut(s) /\ (s.hasGivenUp <=> s.giveUpCount # 0)
  BY <1>0, <1>2, <1>7 DEF Inv, CountedOut, GivenUpCounted
<1>11. /\ Inv(stream') /\ RefreshedIn(stream') /\ SameSockets(s, stream') /\ ~stream'.isStopped
       /\ HeardOfLoss(s, stream')
  BY <1>3, <1>6, <1>7, <1>9, <1>10, HandleCloseRestores
<1> QED BY <1>2, <1>7, <1>11, EndsKept DEF SameSockets

LEMMA SocketDiesKeeps == ASSUME StreamInv, SocketDies PROVE StepKept
<1>0. Inv(stream) BY DEF StreamInv
<1>1. /\ Before \in StreamType /\ Before.notices = {} /\ Owners(Before) = Owners(stream)
      /\ SameTimers(stream, Before) /\ SameSockets(stream, Before)
      /\ SameHandshake(stream, Before) /\ SamePast(stream, Before)
      /\ SamePlans(stream, Before)
      /\ Before.hasGivenUp = stream.hasGivenUp /\ Before.giveUpCount = stream.giveUpCount
  BY BeforeIs
<1>2. stream # FreshStream /\ ~stream.isStopped
  BY <1>0, FreshIsIdle DEF SocketDies, Inv, StopIsFinalIn
<1>3. Before \in StreamType BY <1>1
<1>4. /\ stream' \in StreamType /\ stream'.attempts = Before.attempts
      /\ SameTimers(Before, stream') /\ SameHandshake(Before, stream')
      /\ SamePast(Before, stream') /\ SameNews(Before, stream')
      /\ stream'.consecutiveFailures = Before.consecutiveFailures
      /\ \/ /\ stream.socket \in {"connecting", "open"} /\ stream'.socket = "closing"
            /\ stream'.candidate = Before.candidate
         \/ /\ stream.candidate = "connecting" /\ stream'.candidate = "closing"
            /\ stream'.socket = Before.socket
  BY <1>3 DEF SocketDies, StreamType, SameTimers, SameHandshake, SamePast, SameNews
<1>5. /\ SameTimers(stream, stream') /\ SameHandshake(stream, stream')
      /\ SamePast(stream, stream') /\ stream'.notices = {}
      /\ stream'.consecutiveFailures = stream.consecutiveFailures
      /\ stream'.hasGivenUp = stream.hasGivenUp /\ stream'.giveUpCount = stream.giveUpCount
      /\ stream'.attempts = stream.attempts
  BY <1>1, <1>4 DEF SameTimers, SameHandshake, SamePast, SamePlans, SameNews
<1>6. \/ /\ stream.socket \in {"connecting", "open"} /\ stream'.socket = "closing"
         /\ stream'.candidate = stream.candidate
      \/ /\ stream.candidate = "connecting" /\ stream'.candidate = "closing"
         /\ stream'.socket = stream.socket
  BY <1>1, <1>4 DEF SameSockets
<1>7. Owners(stream') = Owners(stream) BY <1>5 DEF Owners
<1>8. ~stream'.isStopped BY <1>2, <1>5 DEF SamePast
<1>9. SocketsAgree(stream')
  BY <1>0, <1>5, <1>6 DEF Inv, SocketsAgree, SameHandshake
<1>10. OneWayBack(stream')
  BY <1>0, <1>5, <1>6, <1>7 DEF Inv, OneWayBack, SocketsAgree, SameTimers, SameHandshake
<1>11. OneOwnerIn(stream')
  BY <1>0, <1>5, <1>6, <1>7 DEF Inv, OneOwnerIn, SameTimers
<1>12. DatedIn(stream') /\ CountedOut(stream') /\ GivenUpCounted(stream')
  BY <1>0, <1>5, <1>6
     DEF Inv, DatedIn, CountedOut, GivenUpCounted, SameTimers, SamePast
<1>13. WayBackIn(stream') /\ StopIsFinalIn(stream')
  BY <1>0, <1>2, <1>5, <1>6, <1>7, <1>8
     DEF Inv, WayBackIn, StopIsFinalIn, SameTimers, SamePast, SameHandshake
<1>14. StreamInv'
  BY <1>4, <1>9, <1>10, <1>11, <1>12, <1>13 DEF StreamInv, Inv
<1>15. Link!Next BY <1>2, <1>5, <1>6, <1>14, LossIsHeard DEF SamePast
<1>16. RefreshedIn(stream) => RefreshedIn(stream')
  BY <1>5, <1>6, <1>7 DEF RefreshedIn, SameTimers
<1> QED BY <1>6, <1>14, <1>15, <1>16, LiveIsRefreshedIn DEF StepKept, RefreshKept, OnlyReplaced

LEMMA HandshakeTimesOutKeeps == ASSUME StreamInv, HandshakeTimesOut PROVE StepKept
<1> DEFINE s == [Before EXCEPT !.isConnecting = FALSE]
           c == DisposeCandidate(s)
           d == DisposeSocket(c)
<1>0. Inv(stream) BY DEF StreamInv
<1>1. /\ Before \in StreamType /\ Before.notices = {} /\ Owners(Before) = Owners(stream)
      /\ SameTimers(stream, Before) /\ SameSockets(stream, Before)
      /\ SameHandshake(stream, Before) /\ SamePast(stream, Before)
      /\ SamePlans(stream, Before)
      /\ Before.hasGivenUp = stream.hasGivenUp /\ Before.giveUpCount = stream.giveUpCount
  BY BeforeIs
<1>2. /\ stream.handshake # "none" /\ ~stream.isStopped /\ stream # FreshStream
      /\ stream.handshake \in {"socket", "candidate", "detached"}
  BY <1>0, FreshIsIdle DEF HandshakeTimesOut, Inv, StopIsFinalIn, StreamType
<1>3. stream' = IF ~stream.handshakeCurrent THEN SettleHandshake(Before)
                ELSE IF stream.handshake = "candidate" /\ IsConnected(s)
                THEN ScheduleRefreshRetry(SettleHandshake(c))
                ELSE IF stream.handshake = "detached" THEN SettleHandshake(s)
                ELSE ScheduleReconnect(SettleHandshake(d))
  BY DEF HandshakeTimesOut
<1>4. /\ s \in StreamType /\ SameTimers(Before, s) /\ SameSockets(Before, s)
      /\ SameHandshake(Before, s) /\ SamePast(Before, s) /\ SamePlans(Before, s)
      /\ SameNews(Before, s)
  <2>1. Before \in StreamType BY <1>1
  <2> QED BY <2>1 DEF StreamType, SameTimers, SameSockets, SameHandshake, SamePast,
                      SamePlans, SameNews
<1> HIDE DEF s
<1>5. /\ SameTimers(stream, s) /\ SameSockets(stream, s) /\ SameHandshake(stream, s)
      /\ SamePast(stream, s) /\ SamePlans(stream, s) /\ s.notices = {}
      /\ s.hasGivenUp = stream.hasGivenUp /\ s.giveUpCount = stream.giveUpCount
  BY <1>1, <1>4
     DEF SameTimers, SameSockets, SameHandshake, SamePast, SamePlans, SameNews
<1>6. /\ c \in StreamType /\ c.candidate = "none" /\ c.socket = s.socket
      /\ SameTimers(s, c) /\ SamePast(s, c) /\ SamePlans(s, c) /\ SameNews(s, c)
  BY <1>4, DisposeCandidateIs
<1>7. /\ d \in StreamType /\ d.socket = "none" /\ d.candidate = c.candidate
      /\ c.disconnectedAt \/ (c.socket # "none" /\ c.hadConnected) => d.disconnectedAt
      /\ d.isStopped = c.isStopped /\ d.hadConnected = c.hadConnected
      /\ SameTimers(c, d) /\ SamePlans(c, d) /\ SameNews(c, d)
  BY <1>6, DisposeSocketIs
<1> HIDE DEF c, d
<1>8. CASE stream.handshake = "detached"
  <2>1. PICK u \in {Before, s} : stream' = SettleHandshake(u) BY <1>3, <1>8
  <2>2. /\ u \in StreamType /\ u.notices = {} /\ SameTimers(stream, u)
        /\ SameSockets(stream, u) /\ SamePast(stream, u) /\ SamePlans(stream, u)
        /\ u.hasGivenUp = stream.hasGivenUp /\ u.giveUpCount = stream.giveUpCount
    BY <1>1, <1>4, <1>5
  <2>3. /\ stream' \in StreamType /\ stream'.handshake = "none" /\ SameTimers(u, stream')
        /\ SameSockets(u, stream') /\ SamePast(u, stream') /\ SamePlans(u, stream')
        /\ SameNews(u, stream')
    BY <2>1, <2>2, SettleHandshakeIs
  <2>4. /\ SameTimers(stream, stream') /\ SameSockets(stream, stream')
        /\ SamePast(stream, stream') /\ SamePlans(stream, stream') /\ stream'.notices = {}
        /\ stream'.hasGivenUp = stream.hasGivenUp
        /\ stream'.giveUpCount = stream.giveUpCount
    BY <2>2, <2>3 DEF SameTimers, SameSockets, SamePast, SamePlans, SameNews
  <2>5. Owners(stream') = Owners(stream) BY <2>4 DEF Owners, SamePlans
  <2>6. stream'.consecutiveFailures = stream.consecutiveFailures BY <2>4 DEF SamePlans
  <2> QED BY <1>2, <1>8, <2>3, <2>4, <2>5, <2>6, NothingMuchKeeps
<1>9. CASE stream.handshake \in {"socket", "candidate"}
  <2>1. /\ stream.handshakeCurrent /\ Owners(stream) = {} /\ stream.reconnectTimer = "none"
        /\ ~stream.recoveryTimer /\ ~stream.refreshTimer /\ stream.socket # "none"
        /\ stream.handshake = "socket" => stream.socket # "open"
    BY <1>0, <1>9 DEF Inv, SocketsAgree, OneWayBack
  <2>2. s.socket = stream.socket BY <1>5 DEF SameSockets
  <2>3. CASE stream.socket = "open"
    <3> DEFINE t == SettleHandshake(c)
    <3>1. stream' = ScheduleRefreshRetry(t)
      BY <1>3, <1>9, <2>1, <2>2, <2>3 DEF IsConnected
    <3>2. /\ t \in StreamType /\ t.handshake = "none" /\ SameTimers(c, t)
          /\ SameSockets(c, t) /\ SamePast(c, t) /\ SamePlans(c, t) /\ SameNews(c, t)
      BY <1>6, SettleHandshakeIs
    <3> HIDE DEF t
    <3>3. /\ t.socket = stream.socket /\ t.candidate = "none" /\ SameTimers(stream, t)
          /\ SamePast(stream, t) /\ SamePlans(stream, t) /\ t.notices = {}
          /\ t.hasGivenUp = stream.hasGivenUp /\ t.giveUpCount = stream.giveUpCount
      BY <1>5, <1>6, <2>2, <3>2 DEF SameTimers, SameSockets, SamePast, SamePlans, SameNews
    <3>4. Owners(t) = {} BY <2>1, <3>3 DEF Owners, SamePlans
    <3>5. CountedOut(t) /\ GivenUpCounted(t) /\ DatedIn(t)
      BY <1>0, <3>3
         DEF Inv, CountedOut, GivenUpCounted, DatedIn, SameTimers, SamePast, SamePlans
    <3>6. /\ ~t.isStopped /\ ~t.refreshTimer /\ ~t.recoveryTimer
          /\ t.reconnectTimer = "none"
      BY <1>2, <2>1, <3>3 DEF SameTimers, SamePast
    <3>7. /\ Inv(stream') /\ RefreshedIn(stream') /\ SameSockets(t, stream') /\ ~stream'.isStopped
          /\ SameNews(t, stream')
      BY <2>3, <3>1, <3>2, <3>3, <3>4, <3>5, <3>6, RefreshRetryRestores DEF DatedIn
    <3>8. HeardOfLoss(t, stream') BY <3>7 DEF HeardOfLoss, SameNews
    <3> QED BY <1>2, <3>3, <3>7, <3>8, EndsKept DEF SameSockets
  <2>4. CASE stream.socket # "open"
    <3> DEFINE t == SettleHandshake(d)
    <3>1. stream' = ScheduleReconnect(t)
      BY <1>3, <1>9, <2>1, <2>2, <2>4 DEF IsConnected
    <3>2. /\ t \in StreamType /\ t.handshake = "none" /\ SameTimers(d, t)
          /\ SameSockets(d, t) /\ SamePast(d, t) /\ SamePlans(d, t) /\ SameNews(d, t)
      BY <1>7, SettleHandshakeIs
    <3> HIDE DEF t
    <3>3. /\ t.socket = "none" /\ t.candidate = "none" /\ SameTimers(stream, t)
          /\ SamePlans(stream, t) /\ t.notices = {}
          /\ t.hasGivenUp = stream.hasGivenUp /\ t.giveUpCount = stream.giveUpCount
          /\ t.isStopped = stream.isStopped
      BY <1>5, <1>6, <1>7, <3>2 DEF SameTimers, SameSockets, SamePast, SamePlans, SameNews
    <3>4. t.hadConnected => t.disconnectedAt
      BY <1>6, <1>7, <2>1, <2>2, <3>2 DEF SamePast
    <3>5. Owners(t) = {} BY <2>1, <3>3 DEF Owners, SamePlans
    <3>6. CountedOut(t) /\ (t.hasGivenUp <=> t.giveUpCount # 0)
      BY <1>0, <3>3 DEF Inv, CountedOut, GivenUpCounted, SameTimers, SamePlans
    <3>7. /\ ~t.isStopped /\ ~t.refreshTimer /\ ~t.recoveryTimer
          /\ t.reconnectTimer = "none"
      BY <1>2, <2>1, <3>3 DEF SameTimers
    <3>8. /\ Inv(stream') /\ RefreshedIn(stream') /\ SameSockets(t, stream') /\ ~stream'.isStopped
          /\ HeardOfLoss(t, stream')
      BY <3>1, <3>2, <3>3, <3>4, <3>5, <3>6, <3>7, ReconnectRestores
    <3> QED BY <1>2, <2>4, <3>3, <3>8, EndsKept DEF SameSockets
  <2> QED BY <2>3, <2>4
<1> QED BY <1>2, <1>8, <1>9
-----------------------------------------------------------------------------
(* The specification.                                                      *)

LEMMA InitKeeps == Init => StreamInv /\ Link!Init
<1> SUFFICES ASSUME Init PROVE StreamInv /\ Link!Init
  OBVIOUS
<1>1. stream = FreshStream BY DEF Init
<1>2. FreshStream \in StreamType
  <2>1. 0 \in 0..2 /\ 0 \in 0..(MaxFailures + 1) BY BoundsAreNatural
  <2> QED BY <2>1 DEF FreshStream, StreamType
<1>3. Owners(FreshStream) = {} BY DEF Owners, FreshStream
<1>4. /\ OneOwnerIn(FreshStream) /\ StopIsFinalIn(FreshStream) /\ DatedIn(FreshStream)
      /\ WayBackIn(FreshStream) /\ SocketsAgree(FreshStream)
  BY <1>3 DEF FreshStream, OneOwnerIn, StopIsFinalIn, DatedIn, WayBackIn, SocketsAgree
<1>5. OneWayBack(FreshStream) /\ CountedOut(FreshStream) /\ GivenUpCounted(FreshStream)
  BY <1>3, BoundsAreNatural DEF FreshStream, OneWayBack, CountedOut, GivenUpCounted
<1>6. StreamInv BY <1>1, <1>2, <1>4, <1>5 DEF StreamInv, Inv
<1>7. Link!Init BY <1>1 DEF Link!Init, IsRunning, FreshStream
<1> QED BY <1>6, <1>7

\* Every step, a stuttering one included.
LEMMA StepKeeps ==
  StreamInv /\ [Next]_stream =>
    StreamInv' /\ [OnlyReplaced /\ RefreshKept]_stream /\ [Link!Next]_(Link!vars)
<1> SUFFICES ASSUME StreamInv, [Next]_stream
             PROVE  StreamInv' /\ [OnlyReplaced /\ RefreshKept]_stream /\ [Link!Next]_(Link!vars)
  OBVIOUS
<1>1. CASE UNCHANGED stream
  <2>1. StreamInv' BY <1>1 DEF StreamInv
  <2>2. UNCHANGED Link!vars BY <1>1 DEF Link!vars, IsRunning
  <2> QED BY <1>1, <2>1, <2>2
<1>2. ASSUME StepKept
      PROVE  StreamInv' /\ [OnlyReplaced /\ RefreshKept]_stream /\ [Link!Next]_(Link!vars)
  BY <1>2 DEF StepKept
<1>3. CASE Start BY <1>2, <1>3, StartKeeps
<1>4. CASE Stop BY <1>2, <1>4, StopKeeps
<1>5. CASE \E a \in stream.attempts : TokenArrives(a) BY <1>2, <1>5, TokenArrivesKeeps
<1>6. CASE \E a \in stream.attempts : TokenFails(a) BY <1>2, <1>6, TokenFailsKeeps
<1>7. CASE RefreshTimerFires \/ ReconnectTimerFires \/ RecoveryTimerFires
  BY <1>2, <1>7, TimersKeep
<1>8. CASE HandshakeOpens BY <1>2, <1>8, HandshakeOpensKeeps
<1>9. CASE HandshakeTimesOut BY <1>2, <1>9, HandshakeTimesOutKeeps
<1>10. CASE CandidateCloses BY <1>2, <1>10, CandidateClosesKeeps
<1>11. CASE SocketCloses BY <1>2, <1>11, SocketClosesKeeps
<1>12. CASE SocketDies BY <1>2, <1>12, SocketDiesKeeps
<1>13. CASE \E a \in stream.attempts : SocketRefused(a) BY <1>2, <1>13, SocketRefusedKeeps
<1> QED BY <1>1, <1>3, <1>4, <1>5, <1>6, <1>7, <1>8, <1>9, <1>10, <1>11, <1>12, <1>13 DEF Next

\* The invariant says of the stream what the runs check of it.
LEMMA InvIsWhatRunsCheck ==
  StreamInv => ConnectionSound /\ NeverStranded
<1> SUFFICES ASSUME StreamInv PROVE ConnectionSound /\ NeverStranded
  OBVIOUS
<1>0. Inv(stream) BY DEF StreamInv
<1>1. StreamTypeOK BY <1>0 DEF Inv, StreamTypeOK
<1>2. OneOwner BY <1>0 DEF Inv, OneOwnerIn, OneOwner, Owners
<1>3. StopIsFinal BY <1>0 DEF Inv, StopIsFinalIn, StopIsFinal, Owners
<1>4. OutageIsDated BY <1>0 DEF Inv, DatedIn, OutageIsDated, IsRunning
<1>5. NeverStranded BY <1>0 DEF Inv, WayBackIn, NeverStranded, IsRunning, Owners
<1> QED BY <1>1, <1>2, <1>3, <1>4, <1>5 DEF ConnectionSound

\* The inductive invariant: what every method of the class may count on when a
\* callback begins, and restores before it ends.
THEOREM StreamInvHolds == Spec => []StreamInv
BY InitKeeps, StepKeeps, PTL DEF Spec

\* The stream's fields are always consistent: one owner of the connection, nothing
\* left after a stop (event-stream.ts:133-137), every outage dated.
THEOREM ConnectionIsSound == Spec => []ConnectionSound
BY StreamInvHolds, InvIsWhatRunsCheck, PTL

\* A running stream that is not live always has its way back under way
\* (event-stream.ts:540-576): no order of callbacks leaves it waiting for nothing.
THEOREM SomethingUnderWay == Spec => []NeverStranded
BY StreamInvHolds, InvIsWhatRunsCheck, PTL

\* A live socket whose replacement is coming keeps it so (event-stream.ts:563-571),
\* whatever fails, unless a refresh cannot construct its socket.
THEOREM RefreshNeverForgotten == Spec => RefreshIsKept
<1>1. StreamInv /\ [Next]_stream => [RefreshKept]_stream BY StepKeeps
<1>2. [RefreshKept]_stream <=>
        [LiveIsRefreshed =>
           \/ LiveIsRefreshed'
           \/ \E a \in stream.attempts : a.defer /\ SocketRefused(a)]_stream
  BY DEF RefreshKept
<1> QED BY <1>1, <1>2, StreamInvHolds, PTL DEF Spec, RefreshIsKept

\* The client itself lets go of an open socket only in a stop, or in the step that
\* opens the next one (event-stream.ts:275-283).
THEOREM LiveNeverDropped == Spec => LiveIsOnlyReplaced
<1>1. StreamInv /\ [Next]_stream => [OnlyReplaced]_stream BY StepKeeps
<1>2. [OnlyReplaced]_stream <=>
        [(stream.socket = "open" /\ stream'.socket # "open")
           => stream'.socket = "closing" \/ stream'.isStopped]_stream
  BY DEF OnlyReplaced
<1> QED BY <1>1, <1>2, StreamInvHolds, PTL DEF Spec, LiveIsOnlyReplaced

\* The stream implements what it promises the platform: one "unavailable" for each
\* outage it gives up on, one "recovered" after it, and neither at any other time.
THEOREM StreamKeepsLink == Spec => LinkKept
BY InitKeeps, StepKeeps, StreamInvHolds, PTL DEF Spec, LinkKept, Link!Spec
=============================================================================
