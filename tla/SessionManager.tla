--------------------------- MODULE SessionManager ---------------------------
(***************************************************************************)
(* The lifetime of the Alarm.com session                                   *)
(* (src/src/api/session-manager.ts): one sign-in shared by its callers,    *)
(* the floor between sign-ins, the keep-alive, and the client's recovery   *)
(* from a lapsed session (src/src/api/client.ts:381-396).  How a sign-in   *)
(* ends is the verdict of SignIn.Authenticate.                             *)
(*                                                                         *)
(* Sessions are numbered in the order Alarm.com grants them.  Times are    *)
(* kept as ages in ticks, cut off at the session lifetime, where they read *)
(* "not fresh" and "no floor left".                                        *)
(***************************************************************************)
EXTENDS SignIn

CONSTANTS
  Callers,          \* requests that need a session
  NoCaller,
  Lifetime,         \* authIntervalMinutes, in ticks
  FailedLoginFloor, \* FAILED_LOGIN_FLOOR_MS, in ticks
  MaxFloorWait,     \* MAX_LOGIN_FLOOR_WAIT_MS, in ticks
  KeepAliveLimit,   \* KEEPALIVE_FAILURE_LIMIT
  MaxSessions       \* bound: sessions granted in a behaviour

ASSUME SessionAssumption ==
  /\ NoCaller \notin Callers
  /\ {Lifetime, FailedLoginFloor, MaxFloorWait, KeepAliveLimit, MaxSessions}
       \subseteq Nat \ {0}
  /\ FailedLoginFloor < Lifetime /\ MaxFloorWait < Lifetime

VARIABLES
  manager,    \* the fields of the SessionManager
  callers,    \* what each request is doing
  touching,   \* the session a keep-alive in flight was sent for, or 0
  server,     \* the sessions granted, those alive, the age of each one's last proof
  quiet       \* history: ticks before another sign-in may be sent

vars == <<manager, callers, touching, server, quiet>>

Ages == 0..Lifetime
Sessions == 1..MaxSessions

ManagerType ==
  [session : 0..MaxSessions,               \* 0: null
   verified : Ages,                        \* since #sessionVerifiedAt
   lastLogin : Ages,                       \* since #lastLoginAttempt
   permanent : BOOLEAN,                    \* #permanentFailure is set
   pending : Callers \cup {NoCaller},      \* whose call made #pendingLogin
   keepAliveFailures : 0..(KeepAliveLimit - 1)]

CallerType ==
  [at : {"idle", "floor", "signing", "joined", "using"},
   session : 0..MaxSessions,
   wait : 0..MaxFloorWait,
   retried : BOOLEAN]                      \* past #withSessionRecovery's retry

Idle == [at |-> "idle", session |-> 0, wait |-> 0, retried |-> FALSE]
-----------------------------------------------------------------------------
(* The methods.                                                            *)

IsFresh(m) == m.verified < Lifetime

\* Mistake: the floor forgotten with the session.
InvalidateAll(m) ==
  [m EXCEPT !.session = 0, !.verified = Lifetime, !.keepAliveFailures = 0,
            !.lastLogin = Lifetime]

Invalidate(m) ==
  [m EXCEPT !.session = 0, !.verified = Lifetime, !.keepAliveFailures = 0]

FloorRemaining(m) == Lifetime - m.lastLogin

\* #login up to its first wait: signed out of the floor at once, refused by it,
\* or held for what is left of it.
StartLogin(m, c, retried) ==
  \/ /\ FloorRemaining(m) <= 0
     /\ manager' = [m EXCEPT !.pending = c]
     /\ callers' = [callers EXCEPT ![c] = [Idle EXCEPT !.at = "signing", !.retried = retried]]
  \/ /\ FloorRemaining(m) > 0
     /\ m.permanent \/ FloorRemaining(m) > MaxFloorWait    \* throws: nothing pending
     /\ manager' = m
     /\ callers' = [callers EXCEPT ![c] = Idle]
  \/ /\ FloorRemaining(m) \in 1..MaxFloorWait /\ ~m.permanent
     /\ manager' = [m EXCEPT !.pending = c]
     /\ callers' = [callers EXCEPT ![c] = [at |-> "floor", session |-> 0,
                      wait |-> FloorRemaining(m), retried |-> retried]]

\* Mistake: each caller signs in for itself.
GetSessionAlone(m, c, retried) ==
  IF m.session # 0 /\ IsFresh(m)
  THEN /\ manager' = m
       /\ callers' = [callers EXCEPT ![c] =
            [at |-> "using", session |-> m.session, wait |-> 0, retried |-> retried]]
  ELSE StartLogin(m, c, retried)

GetSession(m, c, retried) ==
  IF m.session # 0 /\ IsFresh(m)
  THEN /\ manager' = m
       /\ callers' = [callers EXCEPT ![c] =
            [at |-> "using", session |-> m.session, wait |-> 0, retried |-> retried]]
  ELSE IF m.pending # NoCaller
  THEN /\ manager' = m
       /\ callers' = [callers EXCEPT ![c] = [Idle EXCEPT !.at = "joined", !.retried = retried]]
  ELSE StartLogin(m, c, retried)

\* Mistake: only the caller that signed in hears of it.
EndLoginAlone(c, session) ==
  callers' = [callers EXCEPT ![c] =
    IF session = 0 THEN Idle
    ELSE [at |-> "using", session |-> session, wait |-> 0, retried |-> callers[c].retried]]

\* The sign-in of c is over: those awaiting it go on with a session or without.
EndLogin(c, session) ==
  callers' = [d \in Callers |->
    IF d # c /\ callers[d].at # "joined" THEN callers[d]
    ELSE IF session = 0 THEN Idle
    ELSE [at |-> "using", session |-> session, wait |-> 0, retried |-> callers[d].retried]]
-----------------------------------------------------------------------------
Init ==
  /\ manager = [session |-> 0, verified |-> Lifetime, lastLogin |-> Lifetime,
                permanent |-> FALSE, pending |-> NoCaller, keepAliveFailures |-> 0]
  /\ callers = [c \in Callers |-> Idle]
  /\ touching = 0
  /\ server = [granted |-> 0, alive |-> {}, proof |-> [s \in Sessions |-> Lifetime]]
  /\ quiet = 0

Request(c) ==
  /\ callers[c].at = "idle"
  /\ GetSession(manager, c, FALSE)
  /\ UNCHANGED <<touching, server, quiet>>

\* The sleep of #awaitLoginFloor ends and the login goes on to authenticate.
FloorElapses(c) ==
  /\ callers[c].at = "floor" /\ callers[c].wait = 0
  /\ callers' = [callers EXCEPT ![c].at = "signing"]
  /\ UNCHANGED <<manager, touching, server, quiet>>

SignInSucceeds(c) ==
  LET s == server.granted + 1
  IN  /\ callers[c].at = "signing" /\ s <= MaxSessions
      /\ manager' = [session |-> s, verified |-> 0, lastLogin |-> 0, permanent |-> FALSE,
                     pending |-> NoCaller, keepAliveFailures |-> 0]
      /\ EndLogin(c, s)
      /\ server' = [granted |-> s, alive |-> server.alive \cup {s},
                    proof |-> [server.proof EXCEPT ![s] = 0]]
      /\ quiet' = Lifetime
      /\ UNCHANGED touching

\* Mistake: a transient failure retried inside the login, its callers held.
SignInFailsRetrying(c, error) ==
  /\ callers[c].at = "signing" /\ error \notin AuthenticationErrors
  /\ manager' = [Invalidate(manager) EXCEPT !.lastLogin = Lifetime - FailedLoginFloor]
  /\ callers' = [callers EXCEPT ![c].at = "floor", ![c].wait = FailedLoginFloor]
  /\ quiet' = FailedLoginFloor
  /\ UNCHANGED <<touching, server>>

\* Only an AuthenticationError is permanent, and takes the whole floor.
SignInFails(c, error) ==
  LET permanent == error \in AuthenticationErrors
  IN  /\ callers[c].at = "signing"
      /\ manager' = [Invalidate(manager) EXCEPT
           !.lastLogin = IF permanent THEN 0 ELSE Lifetime - FailedLoginFloor,
           !.permanent = @ \/ permanent,
           !.pending = NoCaller]
      /\ EndLogin(c, 0)
      /\ quiet' = IF permanent THEN Lifetime ELSE FailedLoginFloor
      /\ UNCHANGED <<touching, server>>

\* The request is answered, or fails for another reason.
RequestEnds(c) ==
  /\ callers[c].at = "using"
  /\ callers' = [callers EXCEPT ![c] = Idle]
  /\ UNCHANGED <<manager, touching, server, quiet>>

\* A 401, or an answer that is no JSON, whether Alarm.com still knows the session or not:
\* #withSessionRecovery invalidates and tries once more, in one synchronous step.
Lapses(c) ==
  /\ callers[c].at = "using"
  /\ IF callers[c].retried
     THEN callers' = [callers EXCEPT ![c] = Idle] /\ UNCHANGED manager
     ELSE GetSession(Invalidate(manager), c, TRUE)
  /\ UNCHANGED <<touching, server, quiet>>

\* touch(): the platform's keep-alive interval outlasts its deadline, so one at a time.
TouchStarts ==
  /\ touching = 0 /\ manager.session # 0
  /\ touching' = manager.session
  /\ UNCHANGED <<manager, callers, server, quiet>>

\* Mistake: the clock re-stamped for whatever session is held by now.
TouchAliveUnchecked ==
  /\ touching # 0 /\ touching \in server.alive
  /\ touching' = 0
  /\ manager' = [manager EXCEPT !.verified = 0, !.keepAliveFailures = 0]
  /\ server' = [server EXCEPT !.proof[touching] = 0]
  /\ UNCHANGED <<callers, quiet>>

TouchAlive ==
  /\ touching # 0 /\ touching \in server.alive
  /\ touching' = 0
  /\ manager' = IF manager.session # touching THEN manager
                ELSE [manager EXCEPT !.verified = 0, !.keepAliveFailures = 0]
  /\ server' = [server EXCEPT !.proof[touching] = 0]
  /\ UNCHANGED <<callers, quiet>>

\* Mistake: the session discarded whichever it is.
TouchRefusedUnchecked ==
  /\ touching # 0
  /\ touching' = 0
  /\ manager' = Invalidate(manager)
  /\ UNCHANGED <<callers, server, quiet>>

\* Any answer but a 200: from Alarm.com that forgot the session, or is in trouble.
TouchRefused ==
  /\ touching # 0
  /\ touching' = 0
  /\ manager' = IF manager.session # touching THEN manager ELSE Invalidate(manager)
  /\ UNCHANGED <<callers, server, quiet>>

\* Mistake: one failure too many tolerated.
TouchFailsOnceMore ==
  /\ touching # 0
  /\ touching' = 0
  /\ manager' = IF manager.session # touching THEN manager
                ELSE IF manager.keepAliveFailures + 1 > KeepAliveLimit THEN Invalidate(manager)
                ELSE [manager EXCEPT !.keepAliveFailures = @ + 1]
  /\ UNCHANGED <<callers, server, quiet>>

TouchFails ==
  /\ touching # 0
  /\ touching' = 0
  /\ manager' = IF manager.session # touching THEN manager
                ELSE IF manager.keepAliveFailures + 1 >= KeepAliveLimit THEN Invalidate(manager)
                ELSE [manager EXCEPT !.keepAliveFailures = @ + 1]
  /\ UNCHANGED <<callers, server, quiet>>

\* External: Alarm.com forgets a session.
SessionDies(s) ==
  /\ s \in server.alive
  /\ server' = [server EXCEPT !.alive = @ \ {s}]
  /\ UNCHANGED <<manager, callers, touching, quiet>>

Older(a) == IF a < Lifetime THEN a + 1 ELSE a

\* The clock; a sleep that is over is noticed before it moves on.
Tick ==
  /\ \A c \in Callers : callers[c].at = "floor" => callers[c].wait > 0
  /\ manager' = [manager EXCEPT !.verified = Older(@), !.lastLogin = Older(@)]
  /\ callers' = [c \in Callers |->
       IF callers[c].at = "floor" THEN [callers[c] EXCEPT !.wait = @ - 1] ELSE callers[c]]
  /\ server' = [server EXCEPT !.proof = [s \in Sessions |-> Older(@[s])]]
  /\ quiet' = IF quiet > 0 THEN quiet - 1 ELSE 0
  /\ UNCHANGED touching

Next ==
  \/ \E c \in Callers :
       \/ Request(c) \/ FloorElapses(c) \/ SignInSucceeds(c)
       \/ \E error \in SignInErrors : SignInFails(c, error)
       \/ RequestEnds(c) \/ Lapses(c)
  \/ TouchStarts \/ TouchAlive \/ TouchRefused \/ TouchFails
  \/ \E s \in Sessions : SessionDies(s)
  \/ Tick

Spec == Init /\ [][Next]_vars

\* Timers fire, and sign-ins and requests end (http deadlines).
LiveSpec ==
  /\ Spec
  /\ WF_vars(Tick)
  /\ \A c \in Callers :
       /\ WF_vars(FloorElapses(c))
       /\ WF_vars(SignInSucceeds(c) \/ \E error \in SignInErrors : SignInFails(c, error))
       /\ WF_vars(RequestEnds(c) \/ Lapses(c))
-----------------------------------------------------------------------------
(* Properties.                                                             *)

Starts(c) == callers[c].at # "signing" /\ callers'[c].at = "signing"
SigningIn == {c \in Callers : callers[c].at \in {"floor", "signing"}}

\* The fields keep their type; no keep-alive failure is counted past the limit.
SessionTypeOK ==
  /\ manager \in ManagerType
  /\ callers \in [Callers -> CallerType]
  /\ touching \in 0..MaxSessions
  /\ server \in [granted : 0..MaxSessions, alive : SUBSET Sessions,
                 proof : [Sessions -> Ages]]
  /\ quiet \in Ages

\* One sign-in at most is under way, the one the pending login stands for, however
\* callers, lapses and keep-alives overlap (session-manager.ts:97-103).
OneSignIn == SigningIn = {manager.pending} \ {NoCaller}

\* Whoever waits for a sign-in waits for one that is under way.
NobodyWaitsInVain ==
  (\E c \in Callers : callers[c].at = "joined") => manager.pending # NoCaller

\* What every state of the manager satisfies: its type, one sign-in at most, and it
\* is there while anybody waits for one.
SignInSound == SessionTypeOK /\ OneSignIn /\ NobodyWaitsInVain

\* No sign-in is sent within the floor its predecessor left, whatever discards the
\* session or asks meanwhile (session-manager.ts:8-12, 122-129).
FloorIsKept == [][\A c \in Callers : Starts(c) => quiet = 0]_vars

\* The answer to a keep-alive touches only the session it was sent for
\* (session-manager.ts:241-243).
OldProbeSparesNewSession ==
  [][ (touching # 0 /\ touching' = 0 /\ manager.session # touching)
        => manager'.session = manager.session ]_vars

\* A session handed out has itself been proved good within the lifetime
\* (session-manager.ts:14-18).
HandedOutWasVerified ==
  [][ \A c \in Callers :
        (callers'[c].at = "using" /\ callers[c] # callers'[c])
          => server'.proof[callers'[c].session] < Lifetime ]_vars

\* Every request ends: with an answer, a refusal or a failure.
RequestsEnd == \A c \in Callers : callers[c].at # "idle" ~> callers[c].at = "idle"
-----------------------------------------------------------------------------
(* What a comment says and the code does not do.                           *)

\* session-manager.ts:11-12: "a session is held as long as it works, refreshed with a cheap
\* keep-alive": one that is fresh and that Alarm.com still accepts is not discarded by the
\* answer to one keep-alive.
HeldWhileItWorks ==
  [][ (/\ touching # 0 /\ touching' = 0
       /\ manager.session \in server.alive /\ IsFresh(manager)
       /\ manager.keepAliveFailures + 1 < KeepAliveLimit)
        => manager'.session = manager.session ]_vars
=============================================================================
