------------------------------ MODULE MCEnergy ------------------------------
(* Constants for TLC: two automations, one device, three requests. *)
EXTENDS Energy, TLC

CONSTANTS a1, a2, d1, t1, t2, t3

TwoAutomations == {a1, a2}
OneDevice == {d1}
TwoTasks == {t1, t2}
ThreeTasks == {t1, t2, t3}

Alike == Permutations(ThreeTasks) \cup Permutations(TwoAutomations)
=============================================================================
