-------------------------------- MODULE Client --------------------------------
(***************************************************************************)
(* The API client (src/src/api/client.ts): a read is a chain of batched    *)
(* requests, each retried with back-off (src/src/utils/retry.ts), each     *)
(* attempt recovering from a lapsed session once; a command is one         *)
(* request, never retried.  Every attempt resolves the session, queues for *)
(* a slot (RateLimiter), passes the breaker and is sent.                   *)
(*                                                                         *)
(* The session and the breaker are the two answers they can give here;     *)
(* SessionManager and CircuitBreaker model them.  A caller of the limiter  *)
(* is a call.                                                              *)
(***************************************************************************)
EXTENDS RateLimiter, Errors

CONSTANTS
  Commands,     \* the calls that are arming commands; the others are reads
  Batches,      \* how many requests each read takes (MAX_IDS_PER_REQUEST ids each)
  MaxAttempts,  \* MAX_API_RETRY_ATTEMPTS
  BaseDelay,    \* DEFAULT_BASE_DELAY_MS, in ticks
  MaxDelay,     \* MAX_RETRY_BACKOFF_MS, in ticks
  Headers,      \* the Retry-After headers a 429 may carry, in ticks
  Outcomes      \* bound: the errors an answer is drawn from

ASSUME ClientAssumption ==
  /\ Commands \subseteq Callers
  /\ Batches \in [Callers -> Nat \ {0}]
  /\ \A c \in Commands : Batches[c] = 1
  /\ MaxAttempts \in Nat \ {0} /\ {BaseDelay, MaxDelay} \subseteq Nat
  /\ Headers \subseteq [kind : {"absent", "seconds", "date"}, value : Int]
  /\ \A h \in Headers : h.kind = "seconds" => h.value >= 0
  /\ Outcomes \subseteq ErrorCodes

\* What the provers do not know of a power, and TLC computes.
ASSUME PowersAssumption == \A n \in 0..MaxAttempts : 2 ^ n \in Nat

VARIABLES
  calls,      \* what each call is doing
  sends,      \* history: the times the request under way was sent
  rejected,   \* history: the last answer to the call was a 401
  held        \* history: ticks the call must stay away after a failure, left over

clientVars == <<calls, sends, rejected, held>>
vars == <<pacing, clientVars>>

CallType ==
  [at : {"idle", "session", "pacing", "sent", "backoff", "ended"},
   left : Nat,                    \* batches still to fetch, this one included
   attempt : 1..MaxAttempts,
   recovered : BOOLEAN,           \* this attempt has had its recovery
   wait : 0..MaxDelay]            \* what is left of the back-off

New(c) == [at |-> "idle", left |-> Batches[c], attempt |-> 1, recovered |-> FALSE, wait |-> 0]

Least(a, b) == IF a < b THEN a ELSE b
-----------------------------------------------------------------------------
(* Retry: the operators of src/src/utils/retry.ts.                         *)

Exponential(attempt) == Least(BaseDelay * 2 ^ (attempt - 1), MaxDelay)

\* computeBackoffMs: a quarter of jitter either way, clamped after it.
Backoffs(attempt) ==
  {d \in 0..MaxDelay : 4 * d \in (3 * Exponential(attempt))..(5 * Exponential(attempt))}

\* Mistake: a wait longer than the cap slept through.
DelaysUncapped(hint, attempt) ==
  IF hint = {} THEN Backoffs(attempt)
  ELSE {IF h < b THEN b ELSE h : h \in hint, b \in Backoffs(attempt)}

\* Mistake: no floor under the server's wait, which a skewed clock makes 0.
DelaysSkewed(hint, attempt) ==
  IF hint = {} THEN Backoffs(attempt) ELSE {h \in hint : h <= MaxDelay}

\* resolveDelayMs: none is null, the retry abandoned.  hint is {} or {the wait asked for}.
Delays(hint, attempt) ==
  IF hint = {} THEN Backoffs(attempt)
  ELSE {IF h < b THEN b ELSE h : h \in {g \in hint : g <= MaxDelay}, b \in Backoffs(attempt)}

\* Mistake: any lapse replayed, also the one after which the command may have run.
IsReplayableAny(c, error) == IsLapsedSession(error)

\* The failures an attempt may be made again on at once.
IsReplayable(c, error) ==
  IF c \in Commands THEN IsRejectedOutright(error) ELSE IsLapsedSession(error)
-----------------------------------------------------------------------------
\* The result is handed over, or the error thrown.
Ended(c) == [New(c) EXCEPT !.at = "ended"]

\* Mistake: a read recovered however often its session lapses.
FailForgetting(c, error, hint) ==
  LET call == calls[c]
  IN  IF IsReplayable(c, error) /\ (call.recovered => c \notin Commands)
      THEN calls' = [calls EXCEPT ![c] = [call EXCEPT !.at = "session", !.recovered = TRUE]]
      ELSE IF /\ c \notin Commands /\ IsWorthRetrying(error)
              /\ call.attempt < MaxAttempts /\ Delays(hint, call.attempt) # {}
      THEN IF c \in aborted
           THEN calls' = [calls EXCEPT ![c] = Ended(c)]
           ELSE \E d \in Delays(hint, call.attempt) :
                  calls' = [calls EXCEPT ![c] = [call EXCEPT !.at = "backoff", !.wait = d]]
      ELSE calls' = [calls EXCEPT ![c] = Ended(c)]

\* An attempt of c fails: recovered once, then retried, or over.
Fail(c, error, hint) ==
  LET call == calls[c]
  IN  IF ~call.recovered /\ IsReplayable(c, error)
      THEN calls' = [calls EXCEPT ![c] = [call EXCEPT !.at = "session", !.recovered = TRUE]]
      ELSE IF /\ c \notin Commands /\ IsWorthRetrying(error)
              /\ call.attempt < MaxAttempts /\ Delays(hint, call.attempt) # {}
      THEN IF c \in aborted
           THEN calls' = [calls EXCEPT ![c] = Ended(c)]
           ELSE \E d \in Delays(hint, call.attempt) :
                  calls' = [calls EXCEPT ![c] = [call EXCEPT !.at = "backoff", !.wait = d]]
      ELSE calls' = [calls EXCEPT ![c] = Ended(c)]
-----------------------------------------------------------------------------
Init ==
  /\ PacingInit
  /\ calls = [c \in Callers |-> New(c)]
  /\ sends = [c \in Callers |-> 0]
  /\ rejected = [c \in Callers |-> FALSE]
  /\ held = [c \in Callers |-> 0]

Start(c) ==
  /\ calls[c].at = "idle"
  /\ calls' = [calls EXCEPT ![c].at = "session"]
  /\ UNCHANGED <<pacing, sends, rejected, held>>

\* The session is there: the attempt joins the queue.
SessionResolved(c) ==
  /\ calls[c].at = "session"
  /\ Acquire(c)
  /\ calls' = [calls EXCEPT ![c].at = "pacing"]
  /\ UNCHANGED <<sends, rejected, held>>

\* getSession throws: the floor, or a sign-in that failed.
NoSession(c, error) ==
  /\ calls[c].at = "session"
  /\ Fail(c, error, {})
  /\ UNCHANGED <<pacing, sends, rejected, held>>

PacingRefuses(c) ==
  /\ Refused(c)
  /\ Fail(c, "REQUEST_PACING", {})
  /\ UNCHANGED <<sends, rejected, held>>

PacingAborts(c) ==
  /\ AbortedAtTurn(c)
  /\ Fail(c, "OPERATION_ABORTED", {})
  /\ UNCHANGED <<sends, rejected, held>>

PacingSleeps(c) ==
  /\ FallsAsleep(c)
  /\ UNCHANGED clientVars

\* A slot, but the circuit is open.
BreakerRefuses(c) ==
  /\ Grants(c)
  /\ Fail(c, "CIRCUIT_OPEN", {})
  /\ UNCHANGED <<sends, rejected, held>>

\* Mistake: httpRequest does not look at the signal before it starts.
SendRegardless(c) ==
  /\ Grants(c)
  /\ calls' = [calls EXCEPT ![c].at = "sent"]
  /\ sends' = [sends EXCEPT ![c] = @ + 1]
  /\ UNCHANGED <<rejected, held>>

\* A slot, and the request goes out.
Send(c) ==
  /\ Grants(c) /\ c \notin aborted
  /\ calls' = [calls EXCEPT ![c].at = "sent"]
  /\ sends' = [sends EXCEPT ![c] = @ + 1]
  /\ UNCHANGED <<rejected, held>>

\* A slot, but the signal was aborted while queueing: httpRequest refuses.
SendRefused(c) ==
  /\ Grants(c) /\ c \in aborted
  /\ Fail(c, "OPERATION_ABORTED", {})
  /\ UNCHANGED <<sends, rejected, held>>

\* The answer parses: the next batch is asked for, or the call is over.
Answered(c) ==
  /\ calls[c].at = "sent"
  /\ calls' = [calls EXCEPT ![c] =
       IF @.left = 1 THEN Ended(c)
       ELSE [New(c) EXCEPT !.at = "session", !.left = calls[c].left - 1]]
  /\ sends' = [sends EXCEPT ![c] = IF calls[c].left = 1 THEN @ ELSE 0]
  /\ rejected' = [rejected EXCEPT ![c] = FALSE]
  /\ UNCHANGED <<pacing, held>>

\* How long the call owes Alarm.com after an answer: what it asked for, and three
\* quarters of the back-off.
Respite(c, hint) ==
  LET owed == hint \cup {(3 * Exponential(calls[c].attempt)) \div 4}
  IN  CHOOSE d \in owed : \A h \in owed : h <= d

\* The answer is an error, or none came; a 429 may ask for a wait.
AnsweredBadly(c, error, hint) ==
  /\ calls[c].at = "sent"
  /\ error = "OPERATION_ABORTED" => c \in aborted
  /\ Fail(c, error, hint)
  /\ rejected' = [rejected EXCEPT ![c] = (error = "SESSION_EXPIRED")]
  /\ held' = [held EXCEPT ![c] = IF IsLapsedSession(error) THEN @ ELSE Respite(c, hint)]
  /\ UNCHANGED <<pacing, sends>>

\* Mistake: a retry that is not paced again.
BackoffEndsUnpaced(c) ==
  /\ calls[c].at = "backoff" /\ calls[c].wait = 0
  /\ calls' = [calls EXCEPT ![c] =
                [calls[c] EXCEPT !.at = "sent", !.attempt = @ + 1, !.recovered = FALSE]]
  /\ sends' = [sends EXCEPT ![c] = @ + 1]
  /\ UNCHANGED <<pacing, rejected, held>>

BackoffEnds(c) ==
  /\ calls[c].at = "backoff" /\ calls[c].wait = 0
  /\ calls' = [calls EXCEPT ![c] =
                [calls[c] EXCEPT !.at = "session", !.attempt = @ + 1, !.recovered = FALSE]]
  /\ UNCHANGED <<pacing, sends, rejected, held>>

\* External: the cycle's deadline or shutdown.  A sleep of the call ends at once; a
\* request in flight is answered by the transport, and a queued one finds out later.
AbortCall(c) ==
  /\ calls[c].at # "ended"
  /\ Abort(c)
  /\ IF \/ First(c) /\ sleeping >= 0
        \/ calls[c].at = "backoff"
     THEN calls' = [calls EXCEPT ![c] = Ended(c)]
     ELSE UNCHANGED calls
  /\ UNCHANGED <<sends, rejected, held>>

Tick ==
  /\ PacingTick
  /\ calls' = [c \in Callers |->
       IF calls[c].wait > 0 THEN [calls[c] EXCEPT !.wait = @ - 1] ELSE calls[c]]
  /\ held' = [c \in Callers |-> Positive(held[c] - 1)]
  /\ UNCHANGED <<sends, rejected>>

NoAnswer(c) == \E error \in Outcomes : NoSession(c, error)

AnyFailure(c) ==
  \E error \in Outcomes \cup {"OPERATION_ABORTED"}, header \in Headers :
    AnsweredBadly(c, error, IF error = "RATE_LIMIT_ERROR" THEN RetryAfter(header) ELSE {})

\* The turn of c in the queue, and what comes of it at once.
Turn(c) ==
  \/ PacingRefuses(c) \/ PacingAborts(c) \/ PacingSleeps(c)
  \/ BreakerRefuses(c) \/ Send(c) \/ SendRefused(c)

Next ==
  \/ \E c \in Callers :
       \/ Start(c) \/ SessionResolved(c) \/ NoAnswer(c) \/ Turn(c)
       \/ Answered(c) \/ AnyFailure(c) \/ BackoffEnds(c) \/ AbortCall(c)
  \/ Tick

Spec == Init /\ [][Next]_vars

\* Timers fire; a session is resolved or refused and a request is answered or timed
\* out, by the deadlines of sign-in and of the transport.
LiveSpec ==
  /\ Spec
  /\ WF_vars(Tick)
  /\ \A c \in Callers :
       /\ WF_vars(SessionResolved(c) \/ NoAnswer(c))
       /\ WF_vars(Turn(c))
       /\ WF_vars(Answered(c) \/ AnyFailure(c))
       /\ WF_vars(BackoffEnds(c))
-----------------------------------------------------------------------------
(* Properties.                                                             *)

Sends(c) == sends'[c] > sends[c]

\* The fields keep their type; no call ever sleeps past the cap on a back-off, which
\* would hold its cycle, and all polling, for as long (utils/retry.ts:134-137).
ClientTypeOK ==
  /\ PacingTypeOK
  /\ calls \in [Callers -> CallType]
  /\ rejected \in [Callers -> BOOLEAN]

\* A command is sent a second time only after Alarm.com rejected the first outright,
\* and never a third time (client.ts:375-379, 576-580).
CommandNotRepeated ==
  [][ \A c \in Commands : Sends(c) /\ sends[c] > 0
        => sends[c] = 1 /\ rejected[c] ]_vars

\* The recovery inside the retry at most doubles a request's attempts.
SendsBounded == \A c \in Callers : sends[c] <= 2 * MaxAttempts

\* What every state of the client satisfies: its type, a full window at most, and a
\* bound on the attempts of a request.
CallsSound == ClientTypeOK /\ WindowKept /\ SendsBounded

\* Every request sent, a retried or recovered one too, keeps the gap after whatever was
\* sent before it (client.ts:9-15).
SendsArePaced ==
  [][(\E c \in Callers : Sends(c)) => \A a \in granted : a >= MinInterval]_vars

\* Nothing is sent for a call once it is aborted, whatever it was waiting for, nor after
\* a failure before the back-off and the time Alarm.com asked for (utils/retry.ts:131-137).
SendsAreDue ==
  [][\A c \in Callers : Sends(c) => c \notin aborted /\ held[c] = 0]_vars

\* Every call ends, refusals, aborts and failures of those queued before it included.
EveryCallEnds == \A c \in Callers : calls[c].at # "idle" ~> calls[c].at = "ended"
=============================================================================
