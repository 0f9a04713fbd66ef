------------------------------- MODULE MCAlarm -------------------------------
(* Alarm for TLC: jobs and sensors are interchangeable. *)
EXTENDS Alarm, TLC

CONSTANTS a1, a2, j1, j2, j3

OneSensor == {a1}
TwoSensors == {a1, a2}
TwoTasks == {j1, j2}
ThreeTasks == {j1, j2, j3}
ShortDelays == {0, 1}
OneDelay == {1}

Symmetry == Permutations(Tasks) \cup Permutations(Sensors)
=============================================================================
