------------------------------ MODULE MCPlatform ------------------------------
EXTENDS Platform

MCPartitions == {"panel"}
MCSensors == {"door", "shed"}
MCIgnored == {"shed"}

Reading(type, state, status, monitored) ==
  [type |-> type, state |-> state, status |-> status, monitored |-> monitored]

MCCaches == {{}, {"panel", "door", "shed"}}

\* A contact closed, open in a state not seen before, not supported, or not monitored.
Closed == Reading(1, 1, 2, TRUE)
Open == Reading(1, 9, 3, TRUE)
MCReadings == {Closed, Open, Reading(9, 1, 2, TRUE), Reading(1, 1, 2, FALSE)}
MCTripped == {Open}
MCAtFirst == {[s \in MCSensors |-> IF s = "door" THEN raw ELSE Closed] : raw \in {Closed, Open}}
=============================================================================
