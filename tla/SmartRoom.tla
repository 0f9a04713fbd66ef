------------------------------ MODULE SmartRoom ------------------------------
(* One room under Energy Saving's rules (energy_adapter.py) over the state the *)
(* engine keeps (energy.py): a pass applies a level, then sensors, the sun and *)
(* timers run the rules of a Smart room, and a device that a person changes is *)
(* released.  The room has one device that is managed, of any kind: the rules  *)
(* of a device read no other.                                                  *)
(*                                                                             *)
(* A rule is a task of the event loop.  It reads the level, the exclusions and *)
(* last a snapshot of the home (one step here: nothing is written on the way), *)
(* and acts on that snapshot over further awaits.                              *)

CONSTANTS
    None,
    Rooms,                 \* the rooms there may be
    Levels,                \* the levels a person may choose
    Slots,                 \* rules in flight
    Pass,                  \* the one task that applies a level
    Calm                   \* a sensor that fails stays out until the rules in flight have
                           \* looked; while a pass runs none fails or recovers, no edge falls
                           \* between its snapshot and its context, and no grace ends

VARIABLES
    room,      \* what the room is: its device, a keeper or not, automatic or not
    level,     \* active_level, stored
    released,  \* the device is in the release ledger, stored
    occ,       \* room_occupancy of the room, stored
    choice,    \* the room in the level's stored configuration: "in", "out", or in
               \* again since the last pass ("back"; the code keeps no difference)
    applied,   \* it was out when that configuration was applied
    watched,   \* the room's sensors and its device are in the adapter's context
    mode,      \* the controller: "off", "on", or on its way from on to off
    sense,     \* presence is "on" or "off", or its sensor is unavailable ("bad")
    temp,      \* the room is "cold", "mild" or "hot" for its AC, or "bad"
    sun,
    value,     \* the device: "off", "low" or "high"; a cover is closed or open
    inv,       \* it is on in the newest snapshot
    boosted,   \* history: the hub boosted it, and it was not set, released or out of reach since
    own,       \* the echo window of the hub's last command is open
    grace, boost, stray,   \* timers: the empty grace, the boost, a boost's replaced
    job        \* rules in flight

stored == <<level, released, occ, choice>>
context == <<applied, watched, mode>>
world == <<room, sense, temp, sun>>
device == <<value, inv, boosted, own>>
timers == <<grace, boost, stray>>
vars == <<stored, context, world, device, timers, job>>

Kinds == {"ac", "light", "cover", "plug", "gang"}
Values == {"off", "low", "high"}
Suns == {"night", "morning", "heat", "evening"}
Rules == {"presence", "temperature", "finish", "settle", "release", "sunChange", "heatWindow",
          "offs"}
RuleTasks == Slots \cup {Pass}

Idle == [rule |-> None, step |-> "idle", sense |-> "off", temp |-> "mild", value |-> "off",
         want |-> None]
At(t, step) == job[t].step = step
Free == {s \in Slots : job[s] = Idle}
Busy == \E t \in RuleTasks : job[t] # Idle

(* A rule that starts: the slots are alike. *)
Started(j, rule) == LET s == CHOOSE s \in Slots : j[s] = Idle
                    IN  [j EXCEPT ![s].rule = rule, ![s].step = "look"]

Done(t) == job' = [job EXCEPT ![t] = Idle]

Excluded == choice = "out"
Automatic == room.auto
Smart == level = "smart"
Daytime == sun # "night"
Bad(s, t) == "bad" \in {s, t}
Common == room.kind \in {"plug", "gang"}

-----------------------------------------------------------------------------
(* What the rules want of the device; None leaves it alone. *)

On(v) == v # "off"

Static(v, t) ==
    CASE Common -> IF On(v) /\ ~room.kept THEN "off" ELSE None
      [] room.kind = "light" ->
            IF On(v) /\ ~room.kept THEN "off" ELSE IF v = "high" THEN "low" ELSE None
      [] room.kind = "cover" ->
            IF level # "low" /\ sun = "heat" /\ On(v) THEN "off" ELSE None
      [] OTHER ->
            IF ~On(v) THEN None
            ELSE IF level # "low" /\ ~room.kept THEN "off"
            ELSE IF Smart THEN None
            ELSE IF level = "medium" /\ t = "cold" THEN "off"
            ELSE IF level = "medium" \/ v = "high" THEN "low" ELSE None

Comfort(v, t) ==
    CASE room.kind = "ac" -> IF t = "cold" THEN "off" ELSE IF t = "hot" THEN "high" ELSE "low"
      [] room.kind = "light" -> IF ~Daytime /\ room.kept THEN "low" ELSE None
      [] room.kind = "cover" -> IF Daytime /\ ~On(v) THEN "high"
                                ELSE IF ~Daytime /\ On(v) THEN "off" ELSE None
      [] OTHER -> None

(* The chosen plugs are looked up in the newest snapshot. *)
Posture(v) ==
    CASE room.kind \in {"ac", "light"} -> IF On(v) THEN "off" ELSE None
      [] room.kind = "plug" -> IF inv /\ ~room.kept THEN "off" ELSE None
      [] room.kind = "cover" -> IF On(v) /\ sun = "heat" THEN "off" ELSE None
      [] OTHER -> None

-----------------------------------------------------------------------------
(* A command: not to a released device, and not once the level is off. *)

(* What a task does once it commanded "want": an AC in a boost is told its fan *)
(* speed, and the pass goes on from the gangs and plugs to the rooms.          *)
Ended(t, want) ==
    IF room.kind = "ac" /\ want = "high" THEN [Idle EXCEPT !.step = "fan"]
    ELSE IF job[t].rule = "offs" THEN [Idle EXCEPT !.step = "rules", !.sense = job[t].sense]
    ELSE Idle

Command(t, want, honor) ==
    IF want = None \/ (honor /\ released)
    THEN job' = [job EXCEPT ![t] = Ended(t, None)] /\ UNCHANGED own
    ELSE IF level = None
    THEN job' = [job EXCEPT ![t] = Ended(t, want)] /\ UNCHANGED own
    ELSE /\ job' = [job EXCEPT ![t].step = "wait", ![t].want = want,
                               ![t].temp = "mild", ![t].value = "off"]
         /\ own' = TRUE

(* An AC that was running in the newest snapshot is not told to start. *)
Effect(t) == IF room.kind = "ac" /\ job[t].want # "off" /\ ~On(value) /\ inv
             THEN value ELSE job[t].want

(* A change of a watched device outside the echo window is a person's. *)
Noticed == watched /\ level # None /\ ~own /\ ~(room.kind = "plug" /\ room.kept)

Obey(t) ==
    /\ At(t, "wait")
    /\ LET next == [job EXCEPT ![t] = Ended(t, job[t].want)]
       IN  IF Noticed /\ Effect(t) # value
           THEN Free # {} /\ job' = Started(next, "release")
           ELSE job' = next
    /\ value' = Effect(t)
    /\ boosted' = (~released /\ room.kind = "ac" /\ "high" = Effect(t)
                    /\ (boosted \/ job[t].want = "high"))
    /\ UNCHANGED <<stored, context, world, inv, own, timers>>

(* Fails is reported, never raised; the echo window closes. *)
Fails(t) ==
    /\ At(t, "wait")
    /\ own' = FALSE /\ boosted' = FALSE
    /\ job' = [job EXCEPT ![t] = Ended(t, job[t].want)]
    /\ UNCHANGED <<stored, context, world, value, inv, timers>>

(* Fault: a boost is sent and nothing watches over it. *)
FanUnwatched(t) ==
    /\ At(t, "fan")
    /\ Done(t)
    /\ UNCHANGED <<stored, context, world, device, timers>>

(* Whatever came of the commands, the boost gets its timer; a boost that another *)
(* rule started meanwhile loses its place, and its timer goes on.                *)
Fan(t) ==
    /\ At(t, "fan")
    /\ boost' = TRUE /\ stray' = (stray \/ boost)
    /\ Done(t)
    /\ UNCHANGED <<stored, context, world, device, grace>>

(* mark_released, and the device leaves its boost. *)
Mark(t) ==
    /\ At(t, "look") /\ job[t].rule = "release"
    /\ released' = (released \/ level # None)
    /\ boost' = (boost /\ (released \/ level = None))
    /\ Done(t)
    /\ boosted' = (boosted /\ ~released')
    /\ UNCHANGED <<level, occ, choice, context, world, value, inv, own, grace, stray>>

-----------------------------------------------------------------------------
(* A rule looks at the home. *)

Edges == {"presence", "temperature"}
Needs(rule) == CASE rule \in {"presence", "finish", "settle"} -> {"smart"}
                 [] OTHER -> {"medium", "smart"}
Looks(t, rules) ==
    At(t, "look") /\ job[t].rule \in rules /\ level \in Needs(job[t].rule)
Acts(t, rules) ==
    /\ Looks(t, rules) /\ ~Excluded /\ ~applied
    /\ ~Bad(sense, temp) \/ job[t].rule = "sunChange"
    /\ inv' = On(value)

LookNot(t) ==
    /\ At(t, "look") /\ job[t].rule # "release" /\ level \notin Needs(job[t].rule)
    /\ Done(t)
    /\ UNCHANGED <<stored, context, world, device, timers>>

(* An edge in a room that was excluded ends its timers. *)
LookExcluded(t) ==
    /\ Looks(t, Rules) /\ (Excluded \/ applied)
    /\ Done(t)
    /\ grace' = (grace /\ job[t].rule \notin Edges)
    /\ boost' = (boost /\ job[t].rule \notin Edges)
    /\ UNCHANGED <<stored, context, world, device, stray>>

(* set_room_occupancy keeps nothing unless the level is Smart. *)
SetOcc(o) == occ' = IF Smart THEN o ELSE occ

(* A room with an unavailable sensor is skipped; an edge, and the heat window, *)
(* show it as unknown.                                                         *)
LookBad(t) ==
    /\ Looks(t, Rules \ {"sunChange"}) /\ ~Excluded /\ ~applied /\ Bad(sense, temp)
    /\ LET rule == job[t].rule
       IN  /\ grace' = (grace /\ rule # "presence")
           /\ boost' = (boost /\ rule # "presence" /\ ~(rule = "temperature" /\ Smart /\ Automatic))
           /\ occ' = IF Smart /\ Automatic /\ rule \notin {"finish", "settle"} THEN "unknown" ELSE occ
    /\ Done(t) /\ inv' = On(value)
    /\ UNCHANGED <<level, released, choice, context, world, value, boosted, own, stray>>

(* _follow_occupancy, and _initialize_smart_room in a pass. *)
Follow(t, s, v, x) ==
    IF s = "on"
    THEN /\ grace' = (t = Pass /\ grace)
         /\ SetOcc("occupied")
         /\ job' = [job EXCEPT ![t] = [Idle EXCEPT !.step = "comfort", !.value = v, !.temp = x]]
    ELSE /\ grace' = TRUE
         /\ Done(t)
         /\ UNCHANGED occ

LookPresence(t) ==
    /\ Acts(t, {"presence"})
    /\ IF Automatic THEN Follow(t, sense, value, temp) ELSE Done(t) /\ UNCHANGED <<grace, occ>>
    /\ UNCHANGED <<level, released, choice, context, world, value, boosted, own, boost, stray>>

(* Medium switches off an AC the room no longer needs. *)
LookTemperatureMedium(t) ==
    /\ Acts(t, {"temperature"}) /\ level = "medium"
    /\ Command(t, IF room.kind = "ac" /\ On(value) /\ temp = "cold" THEN "off" ELSE None, TRUE)
    /\ UNCHANGED <<stored, context, world, value, boosted, timers>>

(* A Smart room whose sensors were out starts again; a boost that did its work *)
(* settles.                                                                    *)
LookTemperature(t) ==
    /\ Acts(t, {"temperature"}) /\ Smart
    /\ IF Automatic /\ occ \notin {"occupied", "empty"}
       THEN Follow(t, sense, value, temp) /\ UNCHANGED boost
       ELSE /\ IF boost /\ temp # "hot"
               THEN boost' = FALSE /\ job' = [job EXCEPT ![t].rule = "settle"]
               ELSE Done(t) /\ UNCHANGED boost
            /\ UNCHANGED <<occ, grace>>
    /\ UNCHANGED <<level, released, choice, context, world, value, boosted, own, stray>>

LookSettle(t) ==
    /\ Acts(t, {"settle"})
    /\ Command(t, IF sense = "on" THEN "low" ELSE None, TRUE)
    /\ UNCHANGED <<stored, context, world, value, boosted, timers>>

(* The grace is over: a room that is still empty is shut down. *)
LookEmpty(t) ==
    /\ Acts(t, {"finish"})
    /\ IF Automatic /\ sense = "off"
       THEN /\ boost' = FALSE /\ SetOcc("empty")
            /\ job' = [job EXCEPT ![t] = [Idle EXCEPT !.step = "clear", !.value = value]]
       ELSE Done(t) /\ UNCHANGED <<boost, occ>>
    /\ UNCHANGED <<level, released, choice, context, world, value, boosted, own, grace, stray>>

(* clear_room_releases, then the energy posture, over releases. *)
Clear(t) ==
    /\ At(t, "clear")
    /\ released' = (released /\ ~Smart)
    /\ Command(t, Posture(job[t].value), FALSE)
    /\ UNCHANGED <<level, occ, choice, context, world, value, inv, boosted, timers>>

(* The comfort posture, of a snapshot that may be old by now. *)
Welcome(t) ==
    /\ At(t, "comfort")
    /\ boost' = (boost /\ room.kind # "ac")
    /\ Command(t, Comfort(job[t].value, job[t].temp), TRUE)
    /\ UNCHANGED <<stored, context, world, value, inv, boosted, grace, stray>>

(* At sunrise and sunset the covers of an occupied Smart room follow the sun; *)
(* as the heat window opens those of the other rooms close.                   *)
LookSun(t) ==
    /\ Acts(t, {"sunChange", "heatWindow"})
    /\ LET occupied == Smart /\ Automatic /\ occ = "occupied"
       IN  Command(t, IF job[t].rule = "sunChange" /\ occupied THEN Comfort(value, temp)
                      ELSE IF job[t].rule = "heatWindow" /\ ~occupied /\ On(value) THEN "off"
                      ELSE None, TRUE)
    /\ UNCHANGED <<stored, context, world, value, boosted, timers>>

-----------------------------------------------------------------------------
(* A pass applies the level: it drops the timers, takes its snapshot, reads the *)
(* configuration and starts to watch, then goes through the home.               *)

PassStarts ==
    /\ At(Pass, "start")
    /\ grace' = FALSE /\ boost' = FALSE
    /\ job' = [job EXCEPT ![Pass].step = "build"]
    /\ UNCHANGED <<stored, context, world, device, stray>>

Build ==
    /\ At(Pass, "build")
    /\ job' = [job EXCEPT ![Pass].step = "config", ![Pass].sense = sense, ![Pass].temp = temp,
                          ![Pass].value = value]
    /\ UNCHANGED <<stored, context, world, device, timers>>

Configure ==
    /\ At(Pass, "config")
    /\ applied' = Excluded
    /\ watched' = ~Excluded
    /\ choice' = IF choice = "back" THEN "in" ELSE choice
    /\ inv' = On(job[Pass].value)
    /\ LET bad == Bad(job[Pass].sense, job[Pass].temp)
       IN  /\ occ' = IF bad /\ Smart /\ Automatic /\ ~Excluded THEN "unknown" ELSE occ
           /\ IF bad \/ Excluded THEN Done(Pass)
              ELSE job' = [job EXCEPT ![Pass].step = IF Common THEN "offs" ELSE "rules"]
    /\ UNCHANGED <<level, released, mode, world, value, boosted, own, timers>>

(* The gangs and the chosen plugs, in every room. *)
ApplyOffs ==
    /\ At(Pass, "offs")
    /\ LET want == Static(job[Pass].value, job[Pass].temp)
       IN  IF want # None /\ ~released
           THEN /\ job' = [job EXCEPT ![Pass].rule = "offs", ![Pass].step = "wait",
                                      ![Pass].want = want, ![Pass].value = "off"]
                /\ own' = TRUE
           ELSE job' = [job EXCEPT ![Pass].step = "rules"] /\ UNCHANGED own
    /\ UNCHANGED <<stored, context, world, value, inv, boosted, timers>>

(* Fault: an empty room that turns Smart is left to its next edge. *)
ApplyOccupied ==
    /\ At(Pass, "rules") /\ Smart /\ Automatic
    /\ IF job[Pass].sense = "on" THEN Follow(Pass, "on", job[Pass].value, job[Pass].temp)
       ELSE Done(Pass) /\ UNCHANGED <<grace, occ>>
    /\ UNCHANGED <<level, released, choice, context, world, device, boost, stray>>

ApplySmart ==
    /\ At(Pass, "rules") /\ Smart /\ Automatic
    /\ Follow(Pass, job[Pass].sense, job[Pass].value, job[Pass].temp)
    /\ UNCHANGED <<level, released, choice, context, world, device, boost, stray>>

ApplyStatic ==
    /\ At(Pass, "rules") /\ ~(Smart /\ Automatic)
    /\ Command(Pass, IF Common THEN None ELSE Static(job[Pass].value, job[Pass].temp), TRUE)
    /\ UNCHANGED <<stored, context, world, value, inv, boosted, timers>>

-----------------------------------------------------------------------------
(* The controller (energy_runtime.py), as far as the rules meet it. *)

Activate(l) ==
    /\ mode = "off"
    /\ level' = l /\ released' = FALSE /\ occ' = "none"
    /\ mode' = "on"
    /\ job' = [job EXCEPT ![Pass].step = "start"]
    /\ UNCHANGED <<choice, applied, watched, world, device, timers>>

Reapply ==
    /\ mode = "on" /\ job[Pass] = Idle
    /\ released' = FALSE
    /\ job' = [job EXCEPT ![Pass].step = "start"]
    /\ UNCHANGED <<level, occ, choice, context, world, device, timers>>

(* A deactivate cancels the pass, waits for the lock, then stops the engine, *)
(* then the adapter.  Rules in flight go on.                                 *)
Deactivate ==
    /\ mode = "on"
    /\ mode' = "cancelled"
    /\ Done(Pass)
    /\ UNCHANGED <<stored, applied, watched, world, device, timers>>

EngineOff ==
    /\ mode = "cancelled"
    /\ mode' = "stopped"
    /\ level' = None /\ released' = FALSE /\ occ' = "none"
    /\ UNCHANGED <<choice, applied, watched, world, device, timers, job>>

ModeStopped ==
    /\ mode = "stopped"
    /\ mode' = "off"
    /\ applied' = FALSE /\ watched' = FALSE /\ own' = FALSE
    /\ grace' = FALSE /\ boost' = FALSE
    /\ UNCHANGED <<stored, world, value, inv, boosted, stray, job>>

(* The hub stops; a level that was active is applied again, releases kept. *)
Restart ==
    /\ mode \notin {"cancelled", "stopped"}
    /\ mode' = IF level = None THEN "off" ELSE "on"
    /\ job' = [t \in RuleTasks |-> IF t = Pass /\ level # None
                               THEN [Idle EXCEPT !.step = "start"] ELSE Idle]
    /\ applied' = FALSE /\ watched' = FALSE /\ own' = FALSE
    /\ grace' = FALSE /\ boost' = FALSE /\ stray' = FALSE
    /\ UNCHANGED <<stored, world, value, inv, boosted>>

Exclude ==
    /\ choice' = IF Excluded THEN "back" ELSE "out"
    /\ UNCHANGED <<level, released, occ, context, world, device, timers, job>>

-----------------------------------------------------------------------------
(* The room. *)

(* A change that is heard needs a task. *)
Hear(rule) == IF watched THEN Free # {} /\ job' = Started(job, rule) ELSE UNCHANGED job

Looking == \E s \in Slots : At(s, "look")
Steady(old, new) == Calm =>
    /\ old = "bad" => ~Looking
    /\ job[Pass] # Idle => "bad" \notin {old, new} /\ ~At(Pass, "config")

PresenceChanges ==
    /\ Automatic
    /\ \E s \in {"on", "off", "bad"} \ {sense} : Steady(sense, s) /\ sense' = s
    /\ Hear("presence")
    /\ UNCHANGED <<stored, context, room, temp, sun, device, timers>>

(* What a room without an AC measures makes no difference. *)
TemperatureChanges ==
    /\ \E x \in (IF room.kind = "ac" THEN {"cold", "mild", "hot"} ELSE {"mild"}) \cup {"bad"} :
         x # temp /\ Steady(temp, x) /\ temp' = x
    /\ Hear("temperature")
    /\ UNCHANGED <<stored, context, room, sense, sun, device, timers>>

(* The timer of the heat window: a pass drops it first and sets it last, and a *)
(* rule of the sun sets it again.                                              *)
SunTimer == mode = "on" /\ level \in {"medium", "smart"} /\ job[Pass] = Idle

(* The sun matters to covers and lights only. *)
SunMoves ==
    /\ room.kind \in {"cover", "light"}
    /\ sun' = CASE sun = "night" -> "morning" [] sun = "morning" -> "heat"
                [] sun = "heat" -> "evening" [] OTHER -> "night"
    /\ IF room.kind = "cover" /\ "night" \in {sun, sun'}
       THEN Free # {} /\ job' = Started(job, "sunChange")
       ELSE IF room.kind = "cover" /\ sun' = "heat" /\ SunTimer
       THEN Free # {} /\ job' = Started(job, "heatWindow")
       ELSE UNCHANGED job
    /\ UNCHANGED <<stored, context, room, sense, temp, device, timers>>

Settings == IF room.kind \in {"ac", "light"} THEN Values ELSE {"off", "high"}

PersonSets ==
    /\ \E v \in Settings \ {value} : value' = v
    /\ boosted' = FALSE
    /\ IF Noticed THEN Free # {} /\ job' = Started(job, "release") ELSE UNCHANGED job
    /\ UNCHANGED <<stored, context, world, inv, own, timers>>

(* The window is shorter than a slow device may take. *)
EchoEnds ==
    /\ own /\ own' = FALSE
    /\ UNCHANGED <<stored, context, world, value, inv, boosted, timers, job>>

GraceEnds ==
    /\ grace /\ Free # {}
    /\ Calm => job[Pass] = Idle
    /\ grace' = FALSE
    /\ job' = Started(job, "finish")
    /\ UNCHANGED <<stored, context, world, device, boost, stray>>

(* The failsafe: a timer that was replaced ends the boost that replaced it. *)
BoostEnds ==
    /\ boost \/ stray
    /\ Free # {}
    /\ boost' = FALSE
    /\ stray' = (stray /\ boost)
    /\ job' = Started(job, "settle")
    /\ UNCHANGED <<stored, context, world, device, grace>>

Init ==
    /\ room \in Rooms
    /\ level = None /\ released = FALSE /\ occ = "none" /\ choice = "in"
    /\ applied = FALSE /\ watched = FALSE /\ mode = "off"
    /\ sense = "off" /\ temp = "mild" /\ sun = "night"
    /\ value = "off" /\ inv = FALSE /\ boosted = FALSE /\ own = FALSE
    /\ grace = FALSE /\ boost = FALSE /\ stray = FALSE
    /\ job = [t \in RuleTasks |-> Idle]

Next ==
    \/ \E t \in RuleTasks :
         \/ LookNot(t) \/ LookExcluded(t) \/ LookBad(t) \/ LookPresence(t) \/ LookTemperature(t)
         \/ LookTemperatureMedium(t) \/ LookSettle(t) \/ LookEmpty(t) \/ LookSun(t) \/ Mark(t)
         \/ Clear(t) \/ Welcome(t) \/ Obey(t) \/ Fails(t) \/ Fan(t)
    \/ PassStarts \/ Build \/ Configure \/ ApplyOffs \/ ApplySmart \/ ApplyStatic
    \/ \E l \in Levels : Activate(l)
    \/ Reapply \/ Deactivate \/ EngineOff \/ ModeStopped \/ Restart \/ Exclude
    \/ PresenceChanges \/ TemperatureChanges \/ SunMoves \/ PersonSets
    \/ EchoEnds \/ GraceEnds \/ BoostEnds

Spec == Init /\ [][Next]_vars

-----------------------------------------------------------------------------
TypeOK ==
    /\ level \in {None, "low", "medium", "smart"}
    /\ occ \in {"none", "occupied", "empty", "unknown"} /\ choice \in {"in", "out", "back"}
    /\ sense \in {"on", "off", "bad"} /\ sun \in Suns /\ value \in Values
    /\ {released, applied, watched, inv, boosted, own, grace, boost, stray} \subseteq BOOLEAN
    /\ \A t \in RuleTasks : job[t].rule \in Rules \cup {None} /\ job[t].want \in Values \cup {None}

(* A Smart room with no rule at work, and in as long as the pass that applied it. *)
AtRest == ~Busy /\ mode = "on" /\ Smart /\ Automatic /\ choice = "in" /\ ~applied

(* However edges, timers, outages and passes overlap, a Smart room that comes *)
(* to rest is known for what it is: welcomed when somebody is there, shut     *)
(* down or in its grace when nobody is, unknown when a sensor is out.         *)
OccupancyFollows == AtRest =>
    IF Bad(sense, temp) THEN occ = "unknown"
    ELSE IF sense = "on" THEN occ = "occupied" ELSE occ = "empty" \/ grace

(* No AC is left boosting: one the hub boosted in an occupied room has a timer *)
(* that will settle it, unless a person took it or its last command failed.    *)
BoostTracked == AtRest /\ sense = "on" /\ temp # "bad" /\ ~released /\ boosted => boost \/ stray
=============================================================================
