---------------------------- MODULE SessionProofs ----------------------------
(***************************************************************************)
(* What the session manager guarantees, for every number of requests and   *)
(* sessions, every lifetime, floor and inline wait: one sign-in at a time, *)
(* none within the floor, and no session handed out that has not itself    *)
(* been proved good.                                                       *)
(*                                                                         *)
(* Neither floor nor proof is inductive alone.  A request that sleeps out  *)
(* the floor looks at no clock when it wakes, so the invariant says what   *)
(* its sleep is worth: at least the quiet that is left, which no other     *)
(* sign-in can lengthen meanwhile, there being no other.  And the clock of *)
(* the session held never runs behind the last proof of that session.      *)
(***************************************************************************)
EXTENDS SessionManager, TLAPS

FloorIsQuiet == quiet = Lifetime - manager.lastLogin

SleepersOutlastFloor ==
  \A c \in Callers : callers[c].at = "floor" => quiet <= callers[c].wait

HeldIsProved == manager.session # 0 => server.proof[manager.session] <= manager.verified

SessionInv == SignInSound /\ FloorIsQuiet /\ SleepersOutlastFloor /\ HeldIsProved

\* What every step keeps besides.
NoEarlyStart == \A c \in Callers : Starts(c) => quiet = 0

OnlyProvedOut ==
  \A c \in Callers :
    (callers'[c].at = "using" /\ callers[c] # callers'[c])
      => server'.proof[callers'[c].session] < Lifetime

StepKept == SessionInv' /\ NoEarlyStart /\ OnlyProvedOut

USE DEF SignInSound, SessionInv
-----------------------------------------------------------------------------
LEMMA BoundsAreNatural ==
  /\ Lifetime \in Nat \ {0} /\ FailedLoginFloor \in Nat \ {0} /\ MaxFloorWait \in Nat \ {0}
  /\ KeepAliveLimit \in Nat \ {0} /\ MaxSessions \in Nat \ {0}
  /\ FailedLoginFloor < Lifetime /\ MaxFloorWait < Lifetime /\ NoCaller \notin Callers
BY SessionAssumption

LEMMA InvalidateKeeps ==
  ASSUME NEW m \in ManagerType
  PROVE  /\ Invalidate(m) \in ManagerType /\ Invalidate(m).session = 0
         /\ Invalidate(m).pending = m.pending /\ Invalidate(m).lastLogin = m.lastLogin
         /\ Invalidate(m).permanent = m.permanent
<1>1. Lifetime \in Ages /\ 0 \in 0..(KeepAliveLimit - 1) /\ 0 \in 0..MaxSessions
  BY BoundsAreNatural DEF Ages
<1> QED BY <1>1 DEF Invalidate, ManagerType

LEMMA IdleType == Idle \in CallerType /\ Idle.at = "idle"
BY BoundsAreNatural DEF Idle, CallerType

\* When nobody signs in, a request that needs a session starts a sign-in, waits for
\* what is left of the floor, or is refused by it.
LEMMA StartLoginKeeps ==
  ASSUME SessionInv, NEW m \in ManagerType, NEW c \in Callers, NEW retried \in BOOLEAN,
         m.pending = NoCaller, manager.pending = NoCaller, m.lastLogin = manager.lastLogin,
         m.session # 0 => server.proof[m.session] <= m.verified,
         StartLogin(m, c, retried), UNCHANGED <<touching, server, quiet>>
  PROVE  StepKept
<1>0. /\ callers \in [Callers -> CallerType] /\ quiet \in Ages
      /\ m.lastLogin \in Ages /\ quiet = Lifetime - m.lastLogin
  BY DEF SessionTypeOK, ManagerType, FloorIsQuiet
<1>1. SigningIn = {} BY DEF OneSignIn
<1>2. FloorRemaining(m) = quiet BY <1>0 DEF FloorRemaining
<1>3. quiet \in Nat /\ quiet <= Lifetime BY <1>0, BoundsAreNatural DEF Ages
<1>4. ASSUME NEW r \in CallerType, callers' = [callers EXCEPT ![c] = r],
             manager' \in ManagerType, manager'.lastLogin = m.lastLogin,
             manager'.session = m.session, manager'.verified = m.verified,
             \/ r.at = "idle" /\ manager'.pending = NoCaller
             \/ r.at = "signing" /\ manager'.pending = c /\ quiet = 0
             \/ r.at = "floor" /\ manager'.pending = c /\ r.wait = quiet
      PROVE  StepKept
  <2>1. callers' \in [Callers -> CallerType] BY <1>0, <1>4
  <2>2. callers'[c] = r /\ \A d \in Callers \ {c} : callers'[d] = callers[d] BY <1>0, <1>4
  <2>3. SessionTypeOK' BY <1>4, <2>1 DEF SessionTypeOK
  <2>4. OneSignIn'
    <3>1. \A d \in Callers \ {c} : callers'[d].at \notin {"floor", "signing"}
      BY <1>1, <2>2 DEF SigningIn
    <3>2. SigningIn' = IF r.at = "idle" THEN {} ELSE {c} BY <1>4, <2>2, <3>1 DEF SigningIn
    <3> QED BY <1>4, <3>2, BoundsAreNatural DEF OneSignIn
  <2>5. NobodyWaitsInVain'
    <3>1. \A d \in Callers : callers[d].at # "joined" BY DEF NobodyWaitsInVain
    <3>2. \A d \in Callers : callers'[d].at # "joined" BY <1>4, <2>2, <3>1
    <3> QED BY <3>2 DEF NobodyWaitsInVain
  <2>6. FloorIsQuiet' /\ HeldIsProved' BY <1>0, <1>4 DEF FloorIsQuiet, HeldIsProved
  <2>7. SleepersOutlastFloor' BY <1>3, <1>4, <2>2 DEF SleepersOutlastFloor
  <2>8. NoEarlyStart BY <1>4, <2>2 DEF NoEarlyStart, Starts
  <2>9. OnlyProvedOut BY <1>4, <2>2 DEF OnlyProvedOut
  <2> QED BY <2>3, <2>4, <2>5, <2>6, <2>7, <2>8, <2>9 DEF StepKept
<1>5. /\ [m EXCEPT !.pending = c] \in ManagerType
      /\ [m EXCEPT !.pending = c].lastLogin = m.lastLogin
      /\ [m EXCEPT !.pending = c].session = m.session
      /\ [m EXCEPT !.pending = c].verified = m.verified
      /\ [m EXCEPT !.pending = c].pending = c
  BY DEF ManagerType
<1>6. CASE /\ FloorRemaining(m) <= 0
           /\ manager' = [m EXCEPT !.pending = c]
           /\ callers' = [callers EXCEPT ![c] = [Idle EXCEPT !.at = "signing", !.retried = retried]]
  <2>1. LET r == [Idle EXCEPT !.at = "signing", !.retried = retried]
        IN  r \in CallerType /\ r.at = "signing"
    BY IdleType DEF CallerType
  <2>2. quiet = 0 BY <1>2, <1>3, <1>6
  <2> QED BY <1>4, <1>5, <1>6, <2>1, <2>2
<1>7. CASE manager' = m /\ callers' = [callers EXCEPT ![c] = Idle]
  BY <1>4, <1>7, IdleType
<1>8. CASE /\ FloorRemaining(m) \in 1..MaxFloorWait
           /\ manager' = [m EXCEPT !.pending = c]
           /\ callers' = [callers EXCEPT ![c] = [at |-> "floor", session |-> 0,
                            wait |-> FloorRemaining(m), retried |-> retried]]
  <2>1. LET r == [at |-> "floor", session |-> 0, wait |-> FloorRemaining(m), retried |-> retried]
        IN  r \in CallerType /\ r.at = "floor" /\ r.wait = quiet
    BY <1>2, <1>8, BoundsAreNatural DEF CallerType
  <2> QED BY <1>4, <1>5, <1>8, <2>1
<1> QED BY <1>6, <1>7, <1>8 DEF StartLogin

\* getSession, of the fields as they are or without their session.
LEMMA GetSessionKeeps ==
  ASSUME SessionInv, NEW m, m \in {manager, Invalidate(manager)},
         NEW c \in Callers, NEW retried \in BOOLEAN, callers[c].at \in {"idle", "using"},
         GetSession(m, c, retried), UNCHANGED <<touching, server, quiet>>
  PROVE  StepKept
<1>0. /\ callers \in [Callers -> CallerType] /\ manager \in ManagerType
      /\ server.proof \in [Sessions -> Ages]
  BY DEF SessionTypeOK
<1>1. /\ m \in ManagerType /\ m.pending = manager.pending /\ m.lastLogin = manager.lastLogin
      /\ m.session # 0 => server.proof[m.session] <= m.verified
  BY <1>0, InvalidateKeeps DEF HeldIsProved
<1>2. ASSUME NEW r \in CallerType, callers' = [callers EXCEPT ![c] = r], manager' = m,
             \/ r.at = "joined" /\ m.pending # NoCaller
             \/ r.at = "using" /\ server.proof[r.session] < Lifetime
      PROVE  StepKept
  <2>1. callers' \in [Callers -> CallerType] BY <1>0, <1>2
  <2>2. callers'[c] = r /\ \A d \in Callers \ {c} : callers'[d] = callers[d] BY <1>0, <1>2
  <2>3. SessionTypeOK' BY <1>1, <1>2, <2>1 DEF SessionTypeOK
  <2>4. SigningIn' = SigningIn BY <1>2, <2>2 DEF SigningIn
  <2>5. OneSignIn' BY <1>1, <1>2, <2>4 DEF OneSignIn
  <2>6. NobodyWaitsInVain' BY <1>1, <1>2, <2>2 DEF NobodyWaitsInVain
  <2>7. FloorIsQuiet' /\ HeldIsProved' BY <1>1, <1>2 DEF FloorIsQuiet, HeldIsProved
  <2>8. SleepersOutlastFloor' BY <1>2, <2>2 DEF SleepersOutlastFloor
  <2>9. NoEarlyStart /\ OnlyProvedOut
    BY <1>2, <2>2 DEF NoEarlyStart, Starts, OnlyProvedOut
  <2> QED BY <2>3, <2>5, <2>6, <2>7, <2>8, <2>9 DEF StepKept
<1>3. CASE m.session # 0 /\ IsFresh(m)
  <2> DEFINE r == [at |-> "using", session |-> m.session, wait |-> 0, retried |-> retried]
  <2>1. r \in CallerType /\ r.at = "using" /\ r.session = m.session
    BY <1>1, BoundsAreNatural DEF CallerType, ManagerType
  <2>2. manager' = m /\ callers' = [callers EXCEPT ![c] = r] BY <1>3 DEF GetSession
  <2>3. server.proof[m.session] < Lifetime
    <3>1. m.session \in Sessions /\ m.verified \in Ages
      BY <1>1, <1>3, BoundsAreNatural DEF ManagerType, Sessions
    <3>2. server.proof[m.session] \in Ages BY <1>0, <3>1
    <3> QED BY <1>1, <1>3, <3>1, <3>2, BoundsAreNatural DEF IsFresh, Ages
  <2> HIDE DEF r
  <2> QED BY <1>2, <2>1, <2>2, <2>3
<1>4. CASE ~(m.session # 0 /\ IsFresh(m)) /\ m.pending # NoCaller
  <2> DEFINE r == [Idle EXCEPT !.at = "joined", !.retried = retried]
  <2>1. r \in CallerType /\ r.at = "joined" BY IdleType DEF CallerType
  <2>2. manager' = m /\ callers' = [callers EXCEPT ![c] = r] BY <1>4 DEF GetSession
  <2> HIDE DEF r
  <2> QED BY <1>2, <1>4, <2>1, <2>2
<1>5. CASE ~(m.session # 0 /\ IsFresh(m)) /\ m.pending = NoCaller
  <2>1. StartLogin(m, c, retried) BY <1>5 DEF GetSession
  <2> QED BY <1>1, <1>5, <2>1, StartLoginKeeps
<1> QED BY <1>3, <1>4, <1>5

\* Nobody else signs in, and when a sign-in is over nobody waits for one.
LEMMA EndLoginFrees ==
  ASSUME SessionInv, NEW c \in Callers, callers[c].at = "signing",
         NEW s \in 0..MaxSessions, EndLogin(c, s)
  PROVE  /\ callers' \in [Callers -> CallerType]
         /\ \A d \in Callers : callers'[d].at \in {"idle", "using"}
         /\ \A d \in Callers : \/ callers'[d] = callers[d] \/ callers'[d].at = "idle"
                               \/ s # 0 /\ callers'[d].session = s
<1>0. callers \in [Callers -> CallerType] BY DEF SessionTypeOK
<1>1. \A d \in Callers \ {c} : callers[d].at \notin {"floor", "signing"}
  BY DEF OneSignIn, SigningIn
<1>2. ASSUME NEW d \in Callers
      PROVE  /\ callers'[d] \in CallerType /\ callers'[d].at \in {"idle", "using"}
             /\ \/ callers'[d] = callers[d] \/ callers'[d].at = "idle"
                \/ s # 0 /\ callers'[d].session = s
  <2>0. callers[d] \in CallerType /\ callers[d].retried \in BOOLEAN BY <1>0 DEF CallerType
  <2>1. CASE d # c /\ callers[d].at # "joined"
    <3>1. callers'[d] = callers[d] BY <2>1 DEF EndLogin
    <3>2. callers[d].at \in {"idle", "using"} BY <1>1, <2>0, <2>1 DEF CallerType
    <3> QED BY <2>0, <3>1, <3>2
  <2>2. CASE ~(d # c /\ callers[d].at # "joined") /\ s = 0
    <3>1. callers'[d] = Idle BY <2>2 DEF EndLogin
    <3> QED BY <3>1, IdleType
  <2>3. CASE ~(d # c /\ callers[d].at # "joined") /\ s # 0
    <3> DEFINE r == [at |-> "using", session |-> s, wait |-> 0, retried |-> callers[d].retried]
    <3>1. callers'[d] = r BY <2>3 DEF EndLogin
    <3>2. r \in CallerType /\ r.at = "using" /\ r.session = s
      BY <2>0, BoundsAreNatural DEF CallerType
    <3> HIDE DEF r
    <3> QED BY <2>3, <3>1, <3>2
  <2> QED BY <2>1, <2>2, <2>3
<1>3. callers' = [d \in Callers |-> callers'[d]] BY DEF EndLogin
<1>4. callers' \in [Callers -> CallerType] BY <1>2, <1>3
<1> QED BY <1>2, <1>4

\* What the end of a sign-in owes the invariant: the floor it leaves, and a session
\* that has been proved good, if any.
LEMMA EndLoginKeeps ==
  ASSUME SessionInv, NEW c \in Callers, callers[c].at = "signing",
         NEW s \in 0..MaxSessions, EndLogin(c, s), UNCHANGED touching,
         manager' \in ManagerType, manager'.session = s, manager'.pending = NoCaller,
         server' \in [granted : 0..MaxSessions, alive : SUBSET Sessions,
                      proof : [Sessions -> Ages]],
         s # 0 => server'.proof[s] = 0,
         quiet' = Lifetime - manager'.lastLogin
  PROVE  StepKept
<1>1. /\ callers' \in [Callers -> CallerType]
      /\ \A d \in Callers : callers'[d].at \in {"idle", "using"}
      /\ \A d \in Callers : \/ callers'[d] = callers[d] \/ callers'[d].at = "idle"
                            \/ s # 0 /\ callers'[d].session = s
  BY EndLoginFrees
<1>2. manager'.lastLogin \in Ages /\ manager'.verified \in Ages BY DEF ManagerType
<1>3. quiet' \in Ages BY <1>2, BoundsAreNatural DEF Ages
<1>4. SessionTypeOK' BY <1>1, <1>3 DEF SessionTypeOK
<1>5. SigningIn' = {} BY <1>1 DEF SigningIn
<1>6. OneSignIn' BY <1>5 DEF OneSignIn
<1>7. NobodyWaitsInVain' /\ SleepersOutlastFloor' /\ NoEarlyStart
  BY <1>1 DEF NobodyWaitsInVain, SleepersOutlastFloor, NoEarlyStart, Starts
<1>8. FloorIsQuiet' BY DEF FloorIsQuiet
<1>9. HeldIsProved' BY <1>2 DEF HeldIsProved, Ages
<1>10. OnlyProvedOut BY <1>1, BoundsAreNatural DEF OnlyProvedOut
<1> QED BY <1>4, <1>6, <1>7, <1>8, <1>9, <1>10 DEF StepKept

LEMMA SignInSucceedsKeeps ==
  ASSUME SessionInv, NEW c \in Callers, SignInSucceeds(c)
  PROVE  StepKept
<1> DEFINE s == server.granted + 1
<1>0. /\ server.granted \in Nat /\ server.alive \subseteq Sessions
      /\ server.proof \in [Sessions -> Ages]
  BY BoundsAreNatural DEF SessionTypeOK
<1>1. s \in 0..MaxSessions /\ s # 0 /\ s \in Sessions
  BY <1>0, BoundsAreNatural DEF SignInSucceeds, Sessions
<1>2. 0 \in Ages /\ 0 \in 0..(KeepAliveLimit - 1) BY BoundsAreNatural DEF Ages
<1>3. /\ callers[c].at = "signing" /\ EndLogin(c, s) /\ UNCHANGED touching
      /\ manager' = [session |-> s, verified |-> 0, lastLogin |-> 0, permanent |-> FALSE,
                     pending |-> NoCaller, keepAliveFailures |-> 0]
      /\ server' = [granted |-> s, alive |-> server.alive \cup {s},
                    proof |-> [server.proof EXCEPT ![s] = 0]]
      /\ quiet' = Lifetime
  BY DEF SignInSucceeds
<1> HIDE DEF s
<1>4. /\ manager' \in ManagerType /\ manager'.session = s /\ manager'.pending = NoCaller
      /\ manager'.lastLogin = 0
  BY <1>1, <1>2, <1>3 DEF ManagerType
<1>5. /\ server' \in [granted : 0..MaxSessions, alive : SUBSET Sessions,
                      proof : [Sessions -> Ages]]
      /\ server'.proof[s] = 0
  BY <1>0, <1>1, <1>2, <1>3
<1>6. quiet' = Lifetime - manager'.lastLogin BY <1>3, <1>4, BoundsAreNatural
<1> QED BY <1>1, <1>3, <1>4, <1>5, <1>6, EndLoginKeeps

LEMMA SignInFailsKeeps ==
  ASSUME SessionInv, NEW c \in Callers, NEW error, SignInFails(c, error)
  PROVE  StepKept
<1> DEFINE permanent == error \in AuthenticationErrors
           last == IF permanent THEN 0 ELSE Lifetime - FailedLoginFloor
           m == Invalidate(manager)
<1>0. manager \in ManagerType BY DEF SessionTypeOK
<1>1. m \in ManagerType /\ m.session = 0 BY <1>0, InvalidateKeeps
<1>2. /\ callers[c].at = "signing" /\ EndLogin(c, 0) /\ UNCHANGED <<touching, server>>
      /\ manager' = [m EXCEPT !.lastLogin = last, !.permanent = @ \/ permanent,
                              !.pending = NoCaller]
      /\ quiet' = IF permanent THEN Lifetime ELSE FailedLoginFloor
  BY DEF SignInFails
<1>3. last \in Ages /\ quiet' = Lifetime - last BY <1>2, BoundsAreNatural DEF Ages
<1>4. permanent \in BOOLEAN OBVIOUS
<1> HIDE DEF permanent, last, m
<1>5. (m.permanent \/ permanent) \in BOOLEAN OBVIOUS
<1>6. manager' = [session |-> m.session, verified |-> m.verified, lastLogin |-> last,
                  permanent |-> m.permanent \/ permanent, pending |-> NoCaller,
                  keepAliveFailures |-> m.keepAliveFailures]
  BY <1>1, <1>2 DEF ManagerType
<1>7. /\ manager' \in ManagerType /\ manager'.session = 0 /\ manager'.pending = NoCaller
      /\ manager'.lastLogin = last
  BY <1>1, <1>3, <1>5, <1>6 DEF ManagerType
<1>8. server' \in [granted : 0..MaxSessions, alive : SUBSET Sessions,
                   proof : [Sessions -> Ages]]
  BY <1>2 DEF SessionTypeOK
<1>9. 0 \in 0..MaxSessions BY BoundsAreNatural
<1> QED BY <1>2, <1>3, <1>7, <1>8, <1>9, EndLoginKeeps

\* A caller that signs in for nobody else: its own state changes, to one that neither
\* waits for a sign-in nor carries one out.
LEMMA CallerEndsKeeps ==
  ASSUME SessionInv, NEW c \in Callers, callers[c].at = "using",
         callers' = [callers EXCEPT ![c] = Idle],
         UNCHANGED <<manager, touching, server, quiet>>
  PROVE  StepKept
<1>0. callers \in [Callers -> CallerType] BY DEF SessionTypeOK
<1>1. /\ callers'[c].at = "idle" /\ \A d \in Callers \ {c} : callers'[d] = callers[d]
      /\ callers' \in [Callers -> CallerType]
  BY <1>0, IdleType
<1>2. SessionTypeOK' BY <1>1 DEF SessionTypeOK
<1>3. SigningIn' = SigningIn BY <1>1 DEF SigningIn
<1>4. OneSignIn' /\ NobodyWaitsInVain'
  BY <1>1, <1>3 DEF OneSignIn, NobodyWaitsInVain
<1>5. FloorIsQuiet' /\ HeldIsProved' /\ SleepersOutlastFloor'
  BY <1>1 DEF FloorIsQuiet, HeldIsProved, SleepersOutlastFloor
<1>6. NoEarlyStart /\ OnlyProvedOut BY <1>1 DEF NoEarlyStart, Starts, OnlyProvedOut
<1> QED BY <1>2, <1>4, <1>5, <1>6 DEF StepKept

LEMMA LapsesKeeps ==
  ASSUME SessionInv, NEW c \in Callers, Lapses(c)
  PROVE  StepKept
<1>1. CASE callers[c].retried
  BY <1>1, CallerEndsKeeps DEF Lapses
<1>2. CASE ~callers[c].retried
  BY <1>2, GetSessionKeeps DEF Lapses
<1> QED BY <1>1, <1>2

\* The sleep is over, so the quiet is.
LEMMA FloorElapsesKeeps ==
  ASSUME SessionInv, NEW c \in Callers, FloorElapses(c)
  PROVE  StepKept
<1>0. /\ callers \in [Callers -> CallerType] /\ callers[c] \in CallerType
      /\ quiet \in Nat
  BY BoundsAreNatural DEF SessionTypeOK, Ages
<1>1. callers[c].at = "floor" /\ callers[c].wait = 0 BY DEF FloorElapses
<1>2. quiet = 0 BY <1>0, <1>1 DEF SleepersOutlastFloor
<1> DEFINE r == [callers[c] EXCEPT !.at = "signing"]
<1>3. r \in CallerType /\ r.at = "signing" BY <1>0 DEF CallerType
<1>4. callers' = [callers EXCEPT ![c] = r] BY DEF FloorElapses
<1> HIDE DEF r
<1>5. /\ callers'[c] = r /\ \A d \in Callers \ {c} : callers'[d] = callers[d]
      /\ callers' \in [Callers -> CallerType]
  BY <1>0, <1>3, <1>4
<1>6. UNCHANGED <<manager, touching, server, quiet>> BY DEF FloorElapses
<1>7. SessionTypeOK' BY <1>5, <1>6 DEF SessionTypeOK
<1>8. SigningIn' = SigningIn BY <1>1, <1>3, <1>5 DEF SigningIn
<1>9. OneSignIn' /\ NobodyWaitsInVain'
  BY <1>3, <1>5, <1>6, <1>8 DEF OneSignIn, NobodyWaitsInVain
<1>10. FloorIsQuiet' /\ HeldIsProved' /\ SleepersOutlastFloor'
  BY <1>3, <1>5, <1>6 DEF FloorIsQuiet, HeldIsProved, SleepersOutlastFloor
<1>11. NoEarlyStart /\ OnlyProvedOut
  BY <1>2, <1>3, <1>5 DEF NoEarlyStart, OnlyProvedOut
<1> QED BY <1>7, <1>9, <1>10, <1>11 DEF StepKept

\* A step that leaves the requests, the floor and the pending login alone.
LEMMA FieldsKeep ==
  ASSUME SessionInv, UNCHANGED <<callers, quiet>>,
         manager' \in ManagerType, manager'.pending = manager.pending,
         manager'.lastLogin = manager.lastLogin,
         touching' \in 0..MaxSessions,
         server' \in [granted : 0..MaxSessions, alive : SUBSET Sessions,
                      proof : [Sessions -> Ages]],
         HeldIsProved'
  PROVE  StepKept
<1>1. SessionTypeOK' BY DEF SessionTypeOK
<1>2. SigningIn' = SigningIn BY DEF SigningIn
<1>3. OneSignIn' /\ NobodyWaitsInVain' BY <1>2 DEF OneSignIn, NobodyWaitsInVain
<1>4. FloorIsQuiet' /\ SleepersOutlastFloor' BY DEF FloorIsQuiet, SleepersOutlastFloor
<1>5. NoEarlyStart /\ OnlyProvedOut BY DEF NoEarlyStart, Starts, OnlyProvedOut
<1> QED BY <1>1, <1>3, <1>4, <1>5 DEF StepKept

LEMMA TouchKeeps ==
  ASSUME SessionInv, TouchStarts \/ TouchAlive \/ TouchRefused \/ TouchFails
  PROVE  StepKept
<1>0. /\ manager \in ManagerType /\ touching \in 0..MaxSessions /\ 0 \in 0..MaxSessions
      /\ server \in [granted : 0..MaxSessions, alive : SUBSET Sessions,
                     proof : [Sessions -> Ages]]
  BY BoundsAreNatural DEF SessionTypeOK
<1>1. manager.session \in 0..MaxSessions /\ manager.keepAliveFailures \in 0..(KeepAliveLimit - 1)
  BY <1>0 DEF ManagerType
<1>2. CASE TouchStarts
  <2>1. HeldIsProved' BY <1>2 DEF TouchStarts, HeldIsProved
  <2> QED BY <1>0, <1>1, <1>2, <2>1, FieldsKeep DEF TouchStarts
<1>3. Invalidate(manager) \in ManagerType /\ Invalidate(manager).session = 0
      /\ Invalidate(manager).pending = manager.pending
      /\ Invalidate(manager).lastLogin = manager.lastLogin
  BY <1>0, InvalidateKeeps
<1>4. ASSUME manager' \in {manager, Invalidate(manager)}, UNCHANGED <<callers, server, quiet>>,
             touching' = 0
      PROVE  StepKept
  <2>1. HeldIsProved' BY <1>3, <1>4 DEF HeldIsProved
  <2> QED BY <1>0, <1>3, <1>4, <2>1, FieldsKeep
<1>5. CASE TouchRefused BY <1>4, <1>5 DEF TouchRefused
<1>6. CASE TouchFails
  <2>1. CASE manager.session = touching /\ manager.keepAliveFailures + 1 < KeepAliveLimit
    <3> DEFINE k == manager.keepAliveFailures + 1
    <3>1. k \in 0..(KeepAliveLimit - 1) BY <1>1, <2>1, BoundsAreNatural
    <3>2. manager' = [manager EXCEPT !.keepAliveFailures = k]
      BY <1>1, <1>6, <2>1, BoundsAreNatural DEF TouchFails
    <3> HIDE DEF k
    <3>3. /\ manager' \in ManagerType /\ manager'.pending = manager.pending
          /\ manager'.lastLogin = manager.lastLogin /\ manager'.session = manager.session
          /\ manager'.verified = manager.verified
      BY <1>0, <3>1, <3>2 DEF ManagerType
    <3>4. HeldIsProved' BY <1>6, <3>3 DEF TouchFails, HeldIsProved
    <3> QED BY <1>0, <1>6, <3>3, <3>4, FieldsKeep DEF TouchFails
  <2>2. CASE ~(manager.session = touching /\ manager.keepAliveFailures + 1 < KeepAliveLimit)
    <3>1. manager' \in {manager, Invalidate(manager)}
      BY <1>1, <1>6, <2>2, BoundsAreNatural DEF TouchFails
    <3> QED BY <1>4, <1>6, <3>1 DEF TouchFails
  <2> QED BY <2>1, <2>2
<1>7. CASE TouchAlive
  <2>1. touching \in Sessions /\ 0 \in Ages /\ 0 \in 0..(KeepAliveLimit - 1)
    BY <1>0, <1>7, BoundsAreNatural DEF TouchAlive, Sessions, Ages
  <2>2. /\ UNCHANGED <<callers, quiet>> /\ touching' = 0
        /\ server' = [server EXCEPT !.proof[touching] = 0]
    BY <1>7 DEF TouchAlive
  <2>3. server' = [server EXCEPT !.proof = [server.proof EXCEPT ![touching] = 0]]
    BY <1>0, <2>2
  <2>4. server'.proof = [server.proof EXCEPT ![touching] = 0] BY <1>0, <2>3
  <2>5. /\ server' \in [granted : 0..MaxSessions, alive : SUBSET Sessions,
                        proof : [Sessions -> Ages]]
        /\ server'.proof[touching] = 0
        /\ \A s \in Sessions \ {touching} : server'.proof[s] = server.proof[s]
    <3>1. server'.proof \in [Sessions -> Ages] BY <1>0, <2>1, <2>4
    <3>2. server' \in [granted : 0..MaxSessions, alive : SUBSET Sessions,
                       proof : [Sessions -> Ages]]
      BY <1>0, <2>3, <3>1
    <3> QED BY <1>0, <2>1, <2>4, <3>2
  <2>6. CASE manager.session # touching
    <3>1. manager' = manager BY <1>7, <2>6 DEF TouchAlive
    <3>2. HeldIsProved' BY <1>1, <2>5, <2>6, <3>1 DEF HeldIsProved, Sessions
    <3> QED BY <1>0, <2>2, <2>5, <3>1, <3>2, FieldsKeep
  <2>7. CASE manager.session = touching
    <3>1. manager' = [manager EXCEPT !.verified = 0, !.keepAliveFailures = 0]
      BY <1>7, <2>7 DEF TouchAlive
    <3>2. /\ manager' \in ManagerType /\ manager'.pending = manager.pending
          /\ manager'.lastLogin = manager.lastLogin /\ manager'.session = touching
          /\ manager'.verified = 0
      BY <1>0, <2>1, <2>7, <3>1 DEF ManagerType
    <3>3. HeldIsProved' BY <2>5, <3>2 DEF HeldIsProved
    <3> QED BY <1>0, <2>2, <2>5, <3>2, <3>3, FieldsKeep
  <2> QED BY <2>6, <2>7
<1> QED BY <1>2, <1>5, <1>6, <1>7

LEMMA SessionDiesKeeps ==
  ASSUME SessionInv, NEW s \in Sessions, SessionDies(s)
  PROVE  StepKept
<1>1. /\ server' = [server EXCEPT !.alive = @ \ {s}]
      /\ UNCHANGED <<manager, callers, touching, quiet>>
  BY DEF SessionDies
<1>2. /\ server' \in [granted : 0..MaxSessions, alive : SUBSET Sessions,
                      proof : [Sessions -> Ages]]
      /\ server'.proof = server.proof
  BY <1>1 DEF SessionTypeOK
<1>3. HeldIsProved' BY <1>1, <1>2 DEF HeldIsProved
<1> QED BY <1>1, <1>2, <1>3, FieldsKeep DEF SessionTypeOK

\* Every age grows by a tick until it is cut off, the quiet and every sleep lose one.
LEMMA TickKeeps ==
  ASSUME SessionInv, Tick
  PROVE  StepKept
<1>0. /\ manager \in ManagerType /\ callers \in [Callers -> CallerType] /\ quiet \in Ages
      /\ server \in [granted : 0..MaxSessions, alive : SUBSET Sessions,
                     proof : [Sessions -> Ages]]
      /\ manager.session \in 0..MaxSessions
      /\ manager.verified \in Ages /\ manager.lastLogin \in Ages
  BY DEF SessionTypeOK, ManagerType
<1>1. \A a \in Ages : Older(a) \in Ages BY BoundsAreNatural DEF Older, Ages
<1>2. \A a, b \in Ages : a <= b => Older(a) <= Older(b) BY BoundsAreNatural DEF Older, Ages
<1>3. /\ manager' = [manager EXCEPT !.verified = Older(@), !.lastLogin = Older(@)]
      /\ server' = [server EXCEPT !.proof = [s \in Sessions |-> Older(@[s])]]
      /\ quiet' = (IF quiet > 0 THEN quiet - 1 ELSE 0) /\ UNCHANGED touching
  BY DEF Tick
<1> DEFINE v == Older(manager.verified)
           l == Older(manager.lastLogin)
           p == [s \in Sessions |-> Older(server.proof[s])]
<1>4. v \in Ages /\ l \in Ages /\ p \in [Sessions -> Ages] BY <1>0, <1>1
<1>5. \A s \in Sessions : p[s] = Older(server.proof[s]) OBVIOUS
<1>6. l = Older(manager.lastLogin) /\ v = Older(manager.verified) OBVIOUS
<1>7. manager' = [manager EXCEPT !.verified = v, !.lastLogin = l] BY <1>0, <1>3 DEF ManagerType
<1>8. server' = [server EXCEPT !.proof = p] BY <1>0, <1>3
<1> HIDE DEF v, l, p
<1>9. /\ manager' \in ManagerType /\ manager'.pending = manager.pending
      /\ manager'.session = manager.session
      /\ manager'.verified = v /\ manager'.lastLogin = l
  BY <1>0, <1>4, <1>7 DEF ManagerType
<1>10. /\ server' \in [granted : 0..MaxSessions, alive : SUBSET Sessions,
                       proof : [Sessions -> Ages]]
       /\ server'.proof = p
  BY <1>0, <1>4, <1>8
<1>11. quiet' \in Ages /\ quiet' <= quiet /\ (quiet > 0 => quiet' = quiet - 1)
       /\ (quiet = 0 => quiet' = 0)
  BY <1>0, <1>3, BoundsAreNatural DEF Ages
<1>12. \A c \in Callers : callers'[c] =
         IF callers[c].at = "floor" THEN [callers[c] EXCEPT !.wait = @ - 1] ELSE callers[c]
  BY DEF Tick
<1>13. ASSUME NEW c \in Callers
       PROVE  /\ callers'[c] \in CallerType /\ callers'[c].at = callers[c].at
              /\ callers[c].at # "floor" => callers'[c] = callers[c]
              /\ callers[c].at = "floor" => callers'[c].wait = callers[c].wait - 1
  <2>1. callers[c] \in CallerType BY <1>0
  <2>2. CASE callers[c].at = "floor"
    <3> DEFINE w == callers[c].wait - 1
    <3>1. w \in 0..MaxFloorWait
      BY <2>1, <2>2, BoundsAreNatural DEF Tick, CallerType
    <3>2. callers'[c] = [callers[c] EXCEPT !.wait = w] BY <1>12, <2>1, <2>2
    <3>3. w = callers[c].wait - 1 OBVIOUS
    <3> HIDE DEF w
    <3> QED BY <2>1, <2>2, <3>1, <3>2, <3>3 DEF CallerType
  <2>3. CASE callers[c].at # "floor" BY <1>12, <2>1, <2>3
  <2> QED BY <2>2, <2>3
<1>14. callers' \in [Callers -> CallerType]
  <2>1. callers' = [c \in Callers |-> callers'[c]] BY DEF Tick
  <2> QED BY <1>13, <2>1
<1>15. SessionTypeOK' BY <1>3, <1>9, <1>10, <1>11, <1>14 DEF SessionTypeOK
<1>16. SigningIn' = SigningIn BY <1>13 DEF SigningIn
<1>17. OneSignIn' /\ NobodyWaitsInVain'
  BY <1>9, <1>13, <1>16 DEF OneSignIn, NobodyWaitsInVain
<1>18. FloorIsQuiet'
  BY <1>0, <1>3, <1>6, <1>9, BoundsAreNatural DEF FloorIsQuiet, Older, Ages
<1>19. SleepersOutlastFloor'
  <2> SUFFICES ASSUME NEW c \in Callers, callers'[c].at = "floor"
               PROVE  quiet' <= callers'[c].wait
    BY DEF SleepersOutlastFloor
  <2>1. callers[c].at = "floor" /\ callers'[c].wait = callers[c].wait - 1 BY <1>13
  <2>2. quiet <= callers[c].wait /\ callers[c].wait > 0
    BY <2>1 DEF SleepersOutlastFloor, Tick
  <2>3. callers[c].wait \in Nat /\ quiet \in Nat
    BY <1>0, BoundsAreNatural DEF CallerType, Ages
  <2> QED BY <1>11, <2>1, <2>2, <2>3
<1>20. HeldIsProved'
  <2> SUFFICES ASSUME manager'.session # 0
               PROVE  server'.proof[manager'.session] <= manager'.verified
    BY DEF HeldIsProved
  <2>1. manager.session \in Sessions /\ manager'.session = manager.session
    BY <1>0, <1>9, BoundsAreNatural DEF Sessions
  <2>2. server.proof[manager.session] <= manager.verified /\ server.proof[manager.session] \in Ages
    BY <1>0, <2>1 DEF HeldIsProved, Sessions
  <2> QED BY <1>0, <1>2, <1>5, <1>6, <1>9, <1>10, <2>1, <2>2
<1>21. NoEarlyStart /\ OnlyProvedOut
  BY <1>13 DEF NoEarlyStart, Starts, OnlyProvedOut
<1> QED BY <1>15, <1>17, <1>18, <1>19, <1>20, <1>21 DEF StepKept

LEMMA SessionInvInit == Init => SessionInv
<1> SUFFICES ASSUME Init PROVE SessionInv OBVIOUS
<1>1. Lifetime \in Ages /\ 0 \in Ages /\ 0 \in 0..(KeepAliveLimit - 1) /\ 0 \in 0..MaxSessions
  BY BoundsAreNatural DEF Ages
<1>2. \A c \in Callers : callers[c] = Idle BY DEF Init
<1>3. SessionTypeOK
  BY <1>1, IdleType DEF Init, SessionTypeOK, ManagerType
<1>4. SigningIn = {} BY <1>2, IdleType DEF SigningIn
<1>5. OneSignIn /\ NobodyWaitsInVain
  BY <1>2, <1>4, IdleType DEF Init, OneSignIn, NobodyWaitsInVain
<1>6. FloorIsQuiet /\ SleepersOutlastFloor /\ HeldIsProved
  BY <1>2, IdleType, BoundsAreNatural DEF Init, FloorIsQuiet, SleepersOutlastFloor, HeldIsProved
<1> QED BY <1>3, <1>5, <1>6

LEMMA SessionStep ==
  ASSUME SessionInv, [Next]_vars
  PROVE  SessionInv' /\ (NoEarlyStart \/ UNCHANGED vars) /\ (OnlyProvedOut \/ UNCHANGED vars)
<1>1. CASE UNCHANGED vars
  <2>1. SessionInv'
    BY <1>1 DEF vars, SessionTypeOK, OneSignIn, NobodyWaitsInVain, SigningIn, FloorIsQuiet,
                SleepersOutlastFloor, HeldIsProved
  <2> QED BY <1>1, <2>1
<1>2. ASSUME NEW c \in Callers, Request(c) PROVE StepKept
  <2>1. callers[c].at \in {"idle", "using"} /\ GetSession(manager, c, FALSE)
        /\ UNCHANGED <<touching, server, quiet>>
    BY <1>2 DEF Request
  <2> QED BY <2>1, GetSessionKeeps
<1>3. ASSUME NEW c \in Callers, RequestEnds(c) PROVE StepKept
  BY <1>3, CallerEndsKeeps DEF RequestEnds
<1>4. CASE Next
  <2>1. StepKept
    BY <1>2, <1>3, <1>4, FloorElapsesKeeps, SignInSucceedsKeeps, SignInFailsKeeps,
       LapsesKeeps, TouchKeeps, SessionDiesKeeps, TickKeeps DEF Next
  <2> QED BY <2>1 DEF StepKept
<1> QED BY <1>1, <1>4
-----------------------------------------------------------------------------
\* The invariant holds of every behaviour.
THEOREM SessionInvHolds == Spec => []SessionInv
BY SessionInvInit, SessionStep, PTL DEF Spec

\* One sign-in at most, the one the pending login stands for, and nobody waits for one
\* that is not under way (session-manager.ts:97-103).
THEOREM SignInIsSound == Spec => []SignInSound
<1>1. SessionInv => SignInSound OBVIOUS
<1> QED BY <1>1, SessionInvHolds, PTL

\* No sign-in is sent within the floor its predecessor left (session-manager.ts:122-129).
THEOREM FloorHolds == Spec => FloorIsKept
<1>1. SessionInv /\ [Next]_vars => [\A c \in Callers : Starts(c) => quiet = 0]_vars
  BY SessionStep DEF NoEarlyStart
<1> QED BY <1>1, SessionInvHolds, PTL DEF Spec, FloorIsKept

\* Whoever is handed a session is handed one proved good within the lifetime
\* (session-manager.ts:14-18).
THEOREM VerifiedOnly == Spec => HandedOutWasVerified
<1>1. SessionInv /\ [Next]_vars =>
        [\A c \in Callers :
           (callers'[c].at = "using" /\ callers[c] # callers'[c])
             => server'.proof[callers'[c].session] < Lifetime]_vars
  BY SessionStep DEF OnlyProvedOut
<1> QED BY <1>1, SessionInvHolds, PTL DEF Spec, HandedOutWasVerified

\* A keep-alive that was sent for an older session, whatever its answer, leaves alone
\* the one that replaced it meanwhile (session-manager.ts:241-243).
THEOREM OldProbesSpare == Spec => OldProbeSparesNewSession
<1> DEFINE Spares == (touching # 0 /\ touching' = 0 /\ manager.session # touching)
                        => manager'.session = manager.session
<1>1. [Next]_vars => [Spares]_vars
  <2> SUFFICES ASSUME Next PROVE Spares BY DEF vars
  <2>1. CASE TouchAlive \/ TouchRefused \/ TouchFails
    BY <2>1 DEF TouchAlive, TouchRefused, TouchFails
  <2>2. CASE touching' = touching \/ TouchStarts
    BY <2>2 DEF TouchStarts
  <2>3. ASSUME NEW c \in Callers, Request(c) PROVE touching' = touching
    BY <2>3 DEF Request
  <2>4. ASSUME NEW c \in Callers,
               \/ FloorElapses(c) \/ SignInSucceeds(c)
               \/ \E error \in SignInErrors : SignInFails(c, error)
        PROVE touching' = touching
    BY <2>4 DEF FloorElapses, SignInSucceeds, SignInFails
  <2>5. ASSUME NEW c \in Callers, RequestEnds(c) \/ Lapses(c) PROVE touching' = touching
    BY <2>5 DEF RequestEnds, Lapses
  <2>6. CASE \E s \in Sessions : SessionDies(s) BY <2>2, <2>6 DEF SessionDies
  <2>7. CASE Tick BY <2>2, <2>7 DEF Tick
  <2> QED BY <2>1, <2>2, <2>3, <2>4, <2>5, <2>6, <2>7 DEF Next
<1> QED BY <1>1, PTL DEF Spec, OldProbeSparesNewSession
=============================================================================
