------------------------------- MODULE MCHub --------------------------------
(* Hub for TLC. *)
EXTENDS Hub, TLC

CONSTANTS x1, x2, y1, y2, z1, z2

(* What is in twos is interchangeable. *)
Two == {x1, x2}
Pair == {y1, y2}
One == {z1}
Other == {z2}
Alike == Permutations(Two) \cup Permutations(Pair)
TwoSteps == <<1, 2>>

VARIABLE focus

FocusInit ==
    /\ HubInit
    /\ focus \in {"first", "second"} /\ (part \in {"push", "tank"} \/ focus = "first")
FocusSpec == FocusInit /\ [][HubNext /\ UNCHANGED focus]_<<hubVars, focus>>

(* Two parts are looked at in two focuses, for their actions are many: push   *)
(* tokens, with one batch at a time, or the members' data; a tank's requests, *)
(* or its alerts.                                                             *)
Focused ==
    /\ part = "push" /\ focus = "first" =>
         /\ data' = data /\ paired' \cap One = {}
         /\ Cardinality({j \in Two : pushJob'[j].step \in
                           {"select", "posted", "clean", "drop"}}) < 2
         /\ \A j \in Two : pushJob'[j].step \notin {"member", "write"}
    /\ part = "push" /\ focus = "second" =>
         /\ token' = token /\ dead' = dead /\ pushActive' = pushActive
         /\ \A j \in Two : pushJob'[j].step \notin {"register", "select"}
    /\ part = "tank" /\ focus = "first" => sweep' = sweep /\ low' = low
    /\ part = "tank" /\ focus = "second" =>
         /\ Cardinality({a \in Pair : add'[a].step # "idle"}) < 2
         /\ Cardinality({a \in Pair : removal'[a].step # "idle"}) < 2 /\ minted' < 3
         /\ \A a \in Pair : add'[a].step # "undo"
=============================================================================
