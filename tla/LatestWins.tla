----------------------------- MODULE LatestWins -----------------------------
(***************************************************************************)
(* What the partition's command pipeline promises, without saying how:     *)
(* requests are numbered in the order they are asked for, at most one of   *)
(* them is out at Alarm.com, and whenever the one that is out finishes the *)
(* next to go is the newest one asked for (the ones in between are never   *)
(* sent).  src/src/devices/partition.ts:99-119 states this promise;        *)
(* Partition.tla shows how a one-slot queue and a sequence counter keep    *)
(* it.                                                                     *)
(***************************************************************************)
EXTENDS Naturals

CONSTANT MaxRequests    \* bound: requests HomeKit makes in one behaviour

VARIABLES
  asked,    \* number of the newest request, 0 before the first
  sent,     \* number of the newest request that went out to Alarm.com
  isOut     \* whether that request is still unanswered

vars == <<asked, sent, isOut>>

Init ==
  /\ asked = 0
  /\ sent = 0
  /\ isOut = FALSE

\* A request goes straight out when nothing is running, and is held otherwise.
Ask ==
  /\ asked < MaxRequests
  /\ asked' = asked + 1
  /\ isOut' = TRUE
  /\ sent' = IF isOut THEN sent ELSE asked'

\* The running request is answered; the newest one goes out if it is not it.
Finish ==
  /\ isOut
  /\ isOut' = (sent < asked)
  /\ sent' = asked
  /\ UNCHANGED asked

Next == Ask \/ Finish

Spec == Init /\ [][Next]_vars /\ WF_vars(Finish)
=============================================================================
