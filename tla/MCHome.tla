------------------------------- MODULE MCHome -------------------------------
(* Home for TLC: slots are interchangeable. *)
EXTENDS Home, TLC

CONSTANTS s1, s2, pass, z1, here, east, fajr

TwoSlots == {s1, s2}
OneSensor == {z1}
ShortDelays == {0, 1}
TwoLevels == {"medium", "smart"}

(* Rooms that follow presence under Smart, and one that takes no part in it. *)
SmartRooms ==
    {[kind |-> k, kept |-> k # "plug", auto |-> TRUE] : k \in {"ac", "cover", "plug"}}
    \cup {[kind |-> "light", kept |-> FALSE, auto |-> FALSE]}

(* Two days of two hours, and a place an hour ahead: its day turns halfway    *)
(* through the other's. One prays just before its midnight, one at its.       *)
TwoPlaces == {here, east}
OnePrayer == {fajr}
HomeZones == here :> 0 @@ east :> 3
HomeClock == here :> (fajr :> 4) @@ east :> (fajr :> 0)

(* Two speakers, room for one of them in the table, and a broker without any. *)
TwoMacs == {fajr, z1}
OneBus == [s \in TwoMacs |-> here]

(* The parts that rest start alike. *)
RestedInit ==
    /\ HomeInit
    /\ part # "alarm" => zones[z1] = None
    /\ part # "rules" => room.kind = "ac"
    /\ part # "athan" => config = None
    /\ part # "speakers" => broker = None

RestedSpec == RestedInit /\ [][HomeNext]_homeVars

(* A room's behaviours are bounded to the levels that concern it and to two     *)
(* rules in flight; rooms that are left out are looked at with a plug.          *)
InFlight == Cardinality({t \in Slots \cup {pass} : ruleJob[t] # SmartRoom!Idle})
Bounds ==
    /\ IF room.auto THEN level # "medium" ELSE level # "smart"
    /\ sense = "bad" => temp # "bad"
    /\ temp # "cold"
    /\ InFlight <= 2
    /\ room.kind = "plug" \/ choice = "in"
    /\ (room.kind = "ac" /\ "bad" \in {sense, temp}) => ~(boosted \/ released \/ stray)

Alike == Permutations(TwoSlots)
=============================================================================
