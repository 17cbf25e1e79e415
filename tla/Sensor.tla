-------------------------------- MODULE Sensor --------------------------------
(***************************************************************************)
(* The sensor accessory (src/src/devices/sensor.ts) as operators on its    *)
(* fields, with the decoding of readings (src/src/types/alarm.ts,          *)
(* src/src/utils/mappers.ts) and of push events (src/src/types/events.ts). *)
(*                                                                         *)
(* The characteristic and #isTriggered always change together: "shows" is  *)
(* both.  An attribute that is not a number, or absent, is Missing.        *)
(***************************************************************************)
EXTENDS Integers

Missing == -1

\* toSensorServiceKind
ServiceKind(deviceType) ==
  CASE deviceType = 1 -> "contact"
    [] deviceType = 2 -> "motion"
    [] deviceType = 5 -> "smoke"
    [] OTHER -> "none"

TriggeredStates == {2, 4, 6}   \* OPEN, ACTIVE, WET
RestingStates == {1, 3, 5}     \* CLOSED, IDLE, DRY

\* OpenClosedStatus
StatusOpen == 3

\* Mistake: only the states seen so far count, and a new one is taken for rest.
ReadKnownStates(state, status) ==
  IF state \in TriggeredStates THEN "triggered" ELSE "rest"

\* readSensorState: the state is believed when it is known, and only then.
ReadSensorState(state, status) ==
  IF \/ state \in TriggeredStates
     \/ /\ state \notin TriggeredStates \cup RestingStates \cup {Missing}
        /\ status = StatusOpen
  THEN "triggered" ELSE "rest"
-----------------------------------------------------------------------------
(* The accessory.  One that does not exist has kind "none".                *)

NoTile == [kind |-> "none", shows |-> "unread", pulse |-> FALSE]

NewSensor(kind) == [NoTile EXCEPT !.kind = kind]

\* A momentary event arms the timer that ends it.
ApplyImmediateState(sensor, shows, isTransient) ==
  [sensor EXCEPT !.shows = shows, !.pulse = isTransient /\ shows = "triggered"]

PulseOver(sensor) == ApplyImmediateState(sensor, "rest", FALSE)

\* Clears the timer; the value stays.
Dispose(sensor) == [sensor EXCEPT !.pulse = FALSE]

\* Mistake: the timer left to overwrite the reading.
UpdateSensorKeepingPulse(sensor, raw) ==
  IF ServiceKind(raw.type) = sensor.kind
  THEN [sensor EXCEPT !.shows = ReadSensorState(raw.state, raw.status)]
  ELSE Dispose(sensor)

\* update: a reading of another kind, or of none, ends the pulse and changes nothing else.
UpdateSensor(sensor, raw) ==
  IF ServiceKind(raw.type) = sensor.kind
  THEN [sensor EXCEPT !.shows = ReadSensorState(raw.state, raw.status), !.pulse = FALSE]
  ELSE Dispose(sensor)

-----------------------------------------------------------------------------
(* Push events.                                                            *)

EventTypes == {0, 15, 100, 55}   \* CLOSED, OPENED, OPENED_AND_CLOSED, any other

\* readSensorEventHint, for contacts only: {} or the hint.
EventHint(kind, eventType) ==
  IF kind # "contact" THEN {}
  ELSE CASE eventType = 0 -> {[shows |-> "rest", transient |-> FALSE]}
         [] eventType = 15 -> {[shows |-> "triggered", transient |-> FALSE]}
         [] eventType = 100 -> {[shows |-> "triggered", transient |-> TRUE]}
         [] OTHER -> {}

\* What a push event does to the accessory of its device.
Hinted(sensor, eventType) ==
  IF EventHint(sensor.kind, eventType) = {} THEN sensor
  ELSE LET hint == CHOOSE h \in EventHint(sensor.kind, eventType) : TRUE
       IN  ApplyImmediateState(sensor, hint.shows, hint.transient)
=============================================================================
