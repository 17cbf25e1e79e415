------------------------------ MODULE Diagnostics ------------------------------
(***************************************************************************)
(* The health of the plugin as it reports it: the collector's counters,    *)
(* windows and roll-up (src/src/diagnostics/collector.ts) and the          *)
(* reporter's start, heartbeat, transition and stop lines                  *)
(* (src/src/diagnostics/reporter.ts).                                      *)
(*                                                                         *)
(* A desk holds the fields of both.  Two of the eleven counters stand for  *)
(* all of them, kept modulo CountBase.  told is the health a reader of the *)
(* log last saw announced; reported is the sum of what heartbeats said.    *)
(***************************************************************************)
EXTENDS Integers, Sequences, SequencesExt, FiniteSetsExt

CONSTANTS
  OutcomeWindow,  \* OUTCOME_WINDOW
  MinSamples,     \* API_ERROR_MIN_SAMPLES
  CountBase       \* bound: counters are kept modulo it

ASSUME DiagnosticsAssumption ==
  /\ OutcomeWindow \in Nat \ {0} /\ MinSamples \in 1..OutcomeWindow
  /\ CountBase \in Nat \ {0, 1}

Counters == {"pollOk", "pollFailed"}
Healths == {"none", "healthy", "degraded"}
NoCounts == [c \in Counters |-> 0]

NewCollector ==
  [counts |-> NoCounts, marker |-> NoCounts, outcomes |-> <<>>,
   lastHealth |-> "none", told |-> "none", reported |-> NoCounts]

Plus(a, b) == [c \in Counters |-> (a[c] + b[c]) % CountBase]
Minus(a, b) == [c \in Counters |-> (a[c] + CountBase - b[c]) % CountBase]
-----------------------------------------------------------------------------
(* The collector.                                                          *)

\* Mistakes: every outcome kept; a full window that takes no more.
ApiRequestUnbounded(desk, isOk) == [desk EXCEPT !.outcomes = Append(@, isOk)]
ApiRequestFull(desk, isOk) ==
  IF Len(desk.outcomes) >= OutcomeWindow THEN desk
  ELSE [desk EXCEPT !.outcomes = Append(@, isOk)]

\* apiRequest, of the outcomes: a window of the latest.
ApiRequest(desk, isOk) ==
  [desk EXCEPT !.outcomes = LET all == Append(@, isOk)
                            IN  IF Len(all) > OutcomeWindow THEN Tail(all) ELSE all]

\* pollCycle
PollCycle(desk, isOk) ==
  [desk EXCEPT !.counts[IF isOk THEN "pollOk" ELSE "pollFailed"] = (@ + 1) % CountBase]

\* rollup: what the readers say of the breaker and the stream, and the error rate.
Rollup(desk, isOpen, isStreamDown) ==
  LET errors == Len(SelectSeq(desk.outcomes, LAMBDA isOk : ~isOk))
      isFailing == /\ Len(desk.outcomes) >= MinSamples
                   /\ 2 * errors > Len(desk.outcomes)
  IN  IF isOpen \/ isStreamDown \/ isFailing THEN "degraded" ELSE "healthy"

\* Where a sort puts the i-th sample: equal ones stay in order.
Place(samples, i) ==
  Cardinality({j \in DOMAIN samples :
                 samples[j] < samples[i] \/ (samples[j] = samples[i] /\ j <= i)})
Sorted(samples) ==
  [k \in DOMAIN samples |-> samples[CHOOSE i \in DOMAIN samples : Place(samples, i) = k]]

\* Mistake: one rank too far.
PercentileBeyond(samples, rank) ==
  IF samples = <<>> THEN 0
  ELSE LET sorted == Sorted(samples)
           position == (rank * Len(sorted) + 99) \div 100
       IN  sorted[Min({Len(sorted), position + 1})]

\* #percentiles, of one rank: nearest rank, over sorted samples.
Percentile(samples, rank) ==
  IF samples = <<>> THEN 0
  ELSE LET sorted == Sorted(samples)
           position == (rank * Len(sorted) + 99) \div 100
       IN  sorted[Min({Len(sorted), Max({1, position})})]
-----------------------------------------------------------------------------
(* The reporter.                                                           *)

\* Mistake: the start line's health not kept to compare with.
StartUnrecorded(desk, health) == [desk EXCEPT !.told = health]

\* start, when heartbeats are on: the start line.
Start(desk, health) == [desk EXCEPT !.lastHealth = health, !.told = health]

\* Mistake: the marker left where it was.
HeartbeatCumulative(desk, health) ==
  [desk EXCEPT !.lastHealth = health,
               !.reported = Plus(@, Minus(desk.counts, desk.marker)),
               !.told = IF desk.lastHealth \notin {"none", health} THEN health ELSE @]

\* heartbeat: deltas since the last one, and a line when health has changed.
Heartbeat(desk, health) ==
  [desk EXCEPT !.marker = desk.counts,
               !.lastHealth = health,
               !.reported = Plus(@, Minus(desk.counts, desk.marker)),
               !.told = IF desk.lastHealth \notin {"none", health} THEN health ELSE @]
=============================================================================
