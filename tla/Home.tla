--------------------------------- MODULE Home ---------------------------------
(* The alarm, a room under Energy Saving's rules, the prayer calls and the    *)
(* speakers. They share nothing, so a behaviour runs one of them: part says   *)
(* which, and the others stay as they start.                                  *)
EXTENDS Alarm

CONSTANTS
    Rooms, Levels, Slots, Pass, Calm,                            \* SmartRoom's
    Places, Prayers, Hour, Day, Zone, Clock, Grace, MaxTime,     \* Athan's
    Macs, Brokers, Bus, LiveMax, Hurried,                        \* Speakers'
    Requests            \* the requests of the last two

VARIABLES
    part,
    room, level, released, occ, choice, applied, watched, controller, sense, temp, sun, value,
    inv, boosted, own, grace, boost, stray, ruleJob,
    now, config, up, bus, schedule, athanTimers, hourly, fired, athanJob, plays, hushed, since,
    broker, enrolled, loaded, live, client, wire, queue, strayClient, busJob, retained, cut,
    statusHeard

(* Hours and days turn at the same ticks everywhere, and a play has a try left. *)
ASSUME AthanAssumption ==
    /\ Hour \in Nat /\ Hour >= 2 /\ Day \in Nat /\ Day > 0 /\ Day % Hour = 0
    /\ Zone \in [Places -> 0 .. Day - 1] /\ \A p \in Places : Zone[p] % Hour = 0
    /\ Clock \in [Places -> [Prayers -> 0 .. Day - 1]]
    /\ Grace \in Nat /\ Grace >= 1 /\ MaxTime \in Nat
    /\ None \notin Places
ASSUME RulesAssumption ==
    /\ Rooms \subseteq [kind: {"ac", "light", "cover", "plug", "gang"}, kept: BOOLEAN, auto: BOOLEAN]
    /\ Levels \subseteq {"low", "medium", "smart"} /\ Pass \notin Slots
    /\ None \notin {"low", "medium", "smart", "off", "high", "offs"}
ASSUME SpeakersAssumption == None \notin Macs /\ None \notin [to: Brokers, link: BOOLEAN]

roomVars == <<room, level, released, occ, choice, applied, watched, controller, sense, temp, sun,
              value, inv, boosted, own, grace, boost, stray, ruleJob>>
athanVars == <<now, config, up, bus, schedule, athanTimers, hourly, fired, athanJob,
               plays, hushed, since>>
speakerVars == <<broker, enrolled, loaded, live, client, wire, queue, strayClient, busJob,
                 retained, cut, statusHeard>>
homeVars == <<part, vars, roomVars, athanVars, speakerVars>>

SmartRoom == INSTANCE SmartRoom WITH mode <- controller, job <- ruleJob

Athan == INSTANCE Athan WITH Jobs <- Requests, timers <- athanTimers, job <- athanJob

Speakers == INSTANCE Speakers WITH
    Jobs <- Requests, up <- loaded, stray <- strayClient, job <- busJob, heard <- statusHeard

HomeInit ==
    /\ part \in {"alarm", "rules", "athan", "speakers"}
    /\ Init /\ SmartRoom!Init /\ Athan!Init /\ Speakers!Init

HomeNext ==
    \/ part = "alarm" /\ Next /\ UNCHANGED <<part, roomVars, athanVars, speakerVars>>
    \/ part = "rules" /\ SmartRoom!Next /\ UNCHANGED <<part, vars, athanVars, speakerVars>>
    \/ part = "athan" /\ Athan!Next /\ UNCHANGED <<part, vars, roomVars, speakerVars>>
    \/ part = "speakers" /\ Speakers!Next /\ UNCHANGED <<part, vars, roomVars, athanVars>>

HomeSpec == HomeInit /\ [][HomeNext]_homeVars

(* As SmartRoom states them. *)
OccupancyFollows == part = "rules" => SmartRoom!OccupancyFollows
BoostTracked == part = "rules" => SmartRoom!BoostTracked

(* Every trigger of a hub that does not stop is announced, and the panel shows *)
(* what the alarm is in, also after a restart.                                 *)
AlarmHeard == part = "alarm" => (~Crashes => TriggerHeard) /\ PanelFollows

(* As Athan and Speakers state them: no prayer is played twice in its day, and  *)
(* none the hub could play within its grace is missed; one client runs, for the *)
(* broker stored last, and shows the speakers that are enrolled as they are.    *)
AudioKept ==
    /\ part = "athan" => Athan!TypeOK /\ Athan!PlayedOnce /\ Athan!Heard
    /\ part = "speakers" => /\ Speakers!TypeOK
                            /\ Speakers!OneClient /\ Speakers!BusFollows /\ Speakers!StatusTrue
=============================================================================
