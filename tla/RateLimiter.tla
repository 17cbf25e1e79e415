----------------------------- MODULE RateLimiter -----------------------------
(***************************************************************************)
(* Request pacing (src/src/api/rate-limiter.ts): a chain of claims, each   *)
(* settled before the next begins, a minimum gap between two grants and a  *)
(* ceiling on the grants of a sliding window.                              *)
(*                                                                         *)
(* Times are ages in ticks.  #timestamps is the set of the ages of its     *)
(* entries, an entry past the window kept at the age Window until it is    *)
(* pruned; the gap between grants is at least a tick, so no two entries    *)
(* within the window have one age.                                         *)
(***************************************************************************)
EXTENDS Integers, Sequences, FiniteSets

CONSTANTS
  Callers,      \* those that ask for a slot
  MinInterval,  \* minIntervalMs, in ticks
  MaxRequests,  \* maxRequests
  Window,       \* windowMs, in ticks
  MaxWait       \* maxWaitMs, in ticks

ASSUME PacingAssumption ==
  /\ {MinInterval, MaxRequests, Window} \subseteq Nat \ {0}
  /\ MaxWait \in Nat
  /\ MinInterval <= Window

VARIABLES
  stamps,     \* #timestamps, as ages
  chain,      \* #tail: the claims not yet settled, in arrival order
  sleeping,   \* what is left of the first claim's sleep, or -1 if it is not asleep
  aborted,    \* the callers whose signal is aborted
  granted     \* history: the ages of the grants younger than the window

pacing == <<stamps, chain, sleeping, aborted, granted>>

Ages == 0..Window

Youngest(ages) == CHOOSE a \in ages : \A b \in ages : a <= b
Oldest(ages) == CHOOSE a \in ages : \A b \in ages : b <= a
-----------------------------------------------------------------------------
(* The methods.                                                            *)

\* Mistake: an entry gone a tick too early.
PruneEarly(ages) == {a \in ages : a < Window - 1}

Prune(ages) == {a \in ages : a < Window}

Positive(n) == IF n > 0 THEN n ELSE 0

SpacingWait(ages) ==
  IF ages = {} THEN 0 ELSE Positive(MinInterval - Youngest(ages))

\* Mistake: the gap measured from the oldest entry.
ComputeWaitFromOldest(ages) ==
  IF ages = {} THEN 0 ELSE Positive(MinInterval - Oldest(ages))

\* #computeWaitMs, of a pruned list.
ComputeWait(ages) ==
  IF Cardinality(ages) < MaxRequests THEN SpacingWait(ages)
  ELSE LET full == Window - Oldest(ages)
       IN  IF full > SpacingWait(ages) THEN full ELSE SpacingWait(ages)

InChain(c) == \E i \in DOMAIN chain : chain[i] = c
First(c) == chain # <<>> /\ Head(chain) = c

\* The slot is claimed: the entry is pushed, and the next claim may begin.
Claim(ages) ==
  /\ stamps' = ages \cup {0}
  /\ granted' = granted \cup {0}
  /\ chain' = Tail(chain)
  /\ sleeping' = -1
  /\ UNCHANGED aborted

\* Mistake: one failure takes the whole chain with it.
RejectWedging ==
  /\ chain' = <<>>
  /\ sleeping' = -1

\* The claim is rejected; #tail swallows it, and the next may begin.
Reject ==
  /\ chain' = Tail(chain)
  /\ sleeping' = -1
-----------------------------------------------------------------------------
PacingInit ==
  /\ stamps = {} /\ granted = {}
  /\ chain = <<>> /\ sleeping = -1
  /\ aborted = {}

\* acquire: the claim joins the chain.
Acquire(c) ==
  /\ ~InChain(c)
  /\ chain' = Append(chain, c)
  /\ UNCHANGED <<stamps, sleeping, aborted, granted>>

\* The claim's turn: #tail has settled.
AtTurn(c) == First(c) /\ sleeping = -1

\* A slot is free at once.  The signal is not looked at.
GrantedAtOnce(c) ==
  /\ AtTurn(c)
  /\ ComputeWait(Prune(stamps)) = 0
  /\ Claim(Prune(stamps))

\* The wait is too long: RequestPacingError.
Refused(c) ==
  /\ AtTurn(c)
  /\ ComputeWait(Prune(stamps)) > MaxWait
  /\ stamps' = Prune(stamps)
  /\ Reject
  /\ UNCHANGED <<aborted, granted>>

\* The wait may be slept, but sleep finds the signal aborted.
AbortedAtTurn(c) ==
  /\ AtTurn(c) /\ c \in aborted
  /\ ComputeWait(Prune(stamps)) \in 1..MaxWait
  /\ stamps' = Prune(stamps)
  /\ Reject
  /\ UNCHANGED <<aborted, granted>>

FallsAsleep(c) ==
  /\ AtTurn(c) /\ c \notin aborted
  /\ ComputeWait(Prune(stamps)) \in 1..MaxWait
  /\ stamps' = Prune(stamps)
  /\ sleeping' = ComputeWait(Prune(stamps))
  /\ UNCHANGED <<chain, aborted, granted>>

\* The sleep is over.  The list is not pruned again.
Wakes(c) ==
  /\ First(c) /\ sleeping = 0
  /\ Claim(stamps)

\* External: the signal of a caller is aborted.  A sleeping claim is rejected at once;
\* any other finds out when its turn comes.
Abort(c) ==
  /\ c \notin aborted
  /\ aborted' = aborted \cup {c}
  /\ IF First(c) /\ sleeping >= 0 THEN Reject ELSE UNCHANGED <<chain, sleeping>>
  /\ UNCHANGED <<stamps, granted>>

\* The clock.  A timer may fire late, never early.
PacingTick ==
  /\ stamps' = {IF a < Window THEN a + 1 ELSE a : a \in stamps}
  /\ granted' = {a + 1 : a \in {b \in granted : b + 1 < Window}}
  /\ sleeping' = IF sleeping > 0 THEN sleeping - 1 ELSE sleeping
  /\ UNCHANGED <<chain, aborted>>

Grants(c) == GrantedAtOnce(c) \/ Wakes(c)

PacingNext ==
  \/ \E c \in Callers :
       \/ Acquire(c) \/ Refused(c) \/ AbortedAtTurn(c) \/ FallsAsleep(c)
       \/ Grants(c) \/ Abort(c)
  \/ PacingTick

PacingSpec == PacingInit /\ [][PacingNext]_pacing
-----------------------------------------------------------------------------
(* Properties.                                                             *)

PacingTypeOK ==
  /\ stamps \subseteq Ages /\ granted \subseteq Ages
  /\ chain \in Seq(Callers)
  /\ sleeping \in -1..MaxWait
  /\ aborted \subseteq Callers

\* However claims queue, sleep, are refused or aborted, a window never holds more grants
\* than the ceiling (rate-limiter.ts:15-18).
WindowKept == Cardinality(granted) <= MaxRequests

\* No grant comes within the minimum gap after another, whatever the queue did in
\* between (rate-limiter.ts:15-18).
GapKept ==
  [][(\E c \in Callers : Grants(c)) => \A a \in granted : a >= MinInterval]_pacing
=============================================================================
