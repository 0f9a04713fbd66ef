-------------------------------- MODULE Alarm --------------------------------
(* The alarm: alarm.py (the arm state machine), alarm_adapter.py (sensor edges *)
(* and the entry-delay timer), alarm_api.py and alarm_control_panel.py.        *)
(*                                                                             *)
(* Calls of the engine are executor jobs.  A job may read the clock and the    *)
(* zone before it takes the engine's lock, and what the event loop does with   *)
(* its result comes later still; other jobs run in between.  Times are kept as *)
(* the time left, so they shrink as time passes: the model needs no bound on   *)
(* how long the hub runs.                                                      *)
EXTENDS Integers, FiniteSets

CONSTANTS
    None,
    Sensors,
    Tasks,        \* slots for jobs in flight
    Delays,       \* exit and entry delays users choose
    MaxWait,      \* bound: how long a job that read the clock waits for the lock
    Early,        \* how early a timer of the event loop may fire
    Crashes,      \* the hub may stop and start
    WritesFail    \* saving the state may fail

ASSUME NoneAssumption == None \notin Int
ASSUME DelaysAssumption == Delays \subseteq Nat
ASSUME TimesAssumption == MaxWait \in Nat /\ Early \in Nat
ASSUME SwitchesAssumption == Crashes \in BOOLEAN /\ WritesFail \in BOOLEAN

ArmableModes == {"armed_away", "armed_home", "armed_night"}
AllModes == {"disarmed", "pending", "triggered"} \cup ArmableModes
AllZones == {"perimeter", "interior", "entry", "life_safety"}

(* The zones that trip the alarm in each armed mode. *)
ActiveZones(mode) ==
    CASE mode = "armed_away" -> {"perimeter", "interior", "entry"}
      [] mode = "armed_home" -> {"perimeter"}
      [] mode = "armed_night" -> {"perimeter", "entry"}

VARIABLES
    alarm,     \* the engine's state in memory
    stored,    \* the saved state
    zones,     \* sensor -> zone
    hub,       \* "up" or "down"
    task,      \* jobs in flight
    timer,     \* the adapter's entry-delay timer: time left, or None
    repaint,   \* the panel's exit-delay timer: time left, or None
    shown,     \* what the panel shows
    heard      \* the siren event went out for the alarm that is on

vars == <<alarm, stored, zones, hub, task, timer, repaint, shown, heard>>

(* exit and left are active_at and trigger_deadline, seen from now; they are *)
(* kept down to -MaxWait, below which no job can tell them apart, and at 0   *)
(* in the modes that do not read them, as is delay.                          *)
Disarmed == [mode |-> "disarmed", exit |-> 0, left |-> 0, delay |-> 0]

Idle == [step |-> "idle", sensor |-> None, zone |-> None, age |-> 0, set |-> Disarmed]
Work(step) == [Idle EXCEPT !.step = step]

Larger(a, b) == IF a >= b THEN a ELSE b
Floor(t) == Larger(t, -MaxWait)

At(t, step) == hub = "up" /\ task[t].step = step
IdleTasks == {t \in Tasks : task[t] = Idle}
Done(t) == task' = [task EXCEPT ![t] = Idle]
Goto(t, w) == task' = [task EXCEPT ![t] = w]

(* People and sensors leave a slot free for the timer. *)
Begin(t, w) ==
    /\ hub = "up"
    /\ t \in IdleTasks
    /\ Cardinality(IdleTasks) > 1
    /\ Goto(t, w)

-----------------------------------------------------------------------------
(* The engine. *)

(* _persist_state logs a failed write and goes on. *)
Persist == stored' = alarm' \/ (WritesFail /\ stored' = stored)

EnterPending(age) ==
    /\ alarm' = [Disarmed EXCEPT !.mode = "pending", !.left = alarm.delay - age]
    /\ Persist
    /\ UNCHANGED heard

EnterTriggered ==
    /\ alarm' = [Disarmed EXCEPT !.mode = "triggered"]
    /\ Persist
    /\ heard' = FALSE

(* arm and disarm work from any state. *)
Arm(t) ==
    /\ At(t, "arm")
    /\ alarm' = [task[t].set EXCEPT !.exit = Floor(@ - task[t].age)]
    /\ Persist
    /\ Goto(t, Work("react"))
    /\ UNCHANGED <<zones, hub, timer, repaint, shown, heard>>

Disarm(t) ==
    /\ At(t, "disarm")
    /\ alarm' = Disarmed
    /\ Persist
    /\ Goto(t, Work("react"))
    /\ UNCHANGED <<zones, hub, timer, repaint, shown, heard>>

(* process_sensor, up to the lock: the clock, then the sensor's zone. *)
ReadZone(t) ==
    /\ At(t, "edge")
    /\ LET zone == zones[task[t].sensor]
       IN  IF zone = None THEN Done(t) ELSE Goto(t, [Work("sense") EXCEPT !.zone = zone])
    /\ UNCHANGED <<alarm, stored, zones, hub, timer, repaint, shown, heard>>

(* An edge matters to an armed hub once its exit delay is over. *)
Armed(age) == alarm.mode \in ArmableModes /\ alarm.exit <= -age

SenseLifeSafety(t) ==
    /\ At(t, "sense")
    /\ task[t].zone = "life_safety"
    /\ EnterTriggered
    /\ Goto(t, Work("sound"))
    /\ UNCHANGED <<zones, hub, timer, repaint, shown>>

SenseEntry(t) ==
    /\ At(t, "sense")
    /\ Armed(task[t].age)
    /\ task[t].zone = "entry" /\ "entry" \in ActiveZones(alarm.mode)
    /\ EnterPending(task[t].age)
    /\ Goto(t, Work("react"))
    /\ UNCHANGED <<zones, hub, timer, repaint, shown>>

SenseIntrusion(t) ==
    /\ At(t, "sense")
    /\ Armed(task[t].age)
    /\ task[t].zone \in ActiveZones(alarm.mode) \ {"entry"}
    /\ EnterTriggered
    /\ Goto(t, Work("sound"))
    /\ UNCHANGED <<zones, hub, timer, repaint, shown>>

SenseNothing(t) ==
    /\ At(t, "sense")
    /\ task[t].zone # "life_safety"
    /\ Armed(task[t].age) => task[t].zone \notin ActiveZones(alarm.mode)
    /\ Done(t)
    /\ UNCHANGED <<alarm, stored, zones, hub, timer, repaint, shown, heard>>

(* A sensor that goes offline is tamper, which only reports, unless disarmed. *)
Offline(t) ==
    /\ At(t, "offline")
    /\ IF zones[task[t].sensor] = None \/ alarm.mode = "disarmed"
       THEN Done(t)
       ELSE Goto(t, Work("react"))
    /\ UNCHANGED <<alarm, stored, zones, hub, timer, repaint, shown, heard>>

(* tick reads the clock, then takes the lock. *)
ReadClock(t) ==
    /\ At(t, "wake")
    /\ Goto(t, Work("tick"))
    /\ UNCHANGED <<alarm, stored, zones, hub, timer, repaint, shown, heard>>

(* Fault: an end of an entry delay only reports a change. *)
TickQuietly(t) ==
    /\ At(t, "tick")
    /\ IF alarm.mode = "pending" /\ alarm.left <= -task[t].age
       THEN EnterTriggered /\ Goto(t, Work("react"))
       ELSE Goto(t, Work("resync")) /\ UNCHANGED <<alarm, stored, heard>>
    /\ UNCHANGED <<zones, hub, timer, repaint, shown>>

(* Fault: a tick ends an entry delay without looking at its deadline. *)
TickAnyway(t) ==
    /\ At(t, "tick")
    /\ IF alarm.mode = "pending"
       THEN EnterTriggered /\ Goto(t, Work("sound"))
       ELSE Goto(t, Work("resync")) /\ UNCHANGED <<alarm, stored, heard>>
    /\ UNCHANGED <<zones, hub, timer, repaint, shown>>

Tick(t) ==
    /\ At(t, "tick")
    /\ IF alarm.mode = "pending" /\ alarm.left <= -task[t].age
       THEN EnterTriggered /\ Goto(t, Work("sound"))
       ELSE Goto(t, Work("resync")) /\ UNCHANGED <<alarm, stored, heard>>
    /\ UNCHANGED <<zones, hub, timer, repaint, shown>>

-----------------------------------------------------------------------------
(* The adapter and the panel, on the event loop. *)

SyncTimer ==
    timer' = IF alarm.mode = "pending" THEN Larger(alarm.left, 0) ELSE None

PanelState ==
    IF alarm.mode \in ArmableModes /\ alarm.exit > 0 THEN "arming" ELSE alarm.mode

SyncPanel ==
    /\ shown' = PanelState
    /\ repaint' = IF PanelState = "arming" THEN alarm.exit ELSE None

(* EVENT_ALARM_CHANGED reaches both listeners; a trigger fires the siren too. *)
React(t) ==
    /\ At(t, "react") \/ At(t, "sound")
    /\ SyncTimer
    /\ SyncPanel
    /\ heard' = (heard \/ task[t].step = "sound")
    /\ Done(t)
    /\ UNCHANGED <<alarm, stored, zones, hub>>

(* Fault: a tick that came early leaves the countdown without a timer. *)
ResyncForgotten(t) ==
    /\ At(t, "resync")
    /\ Done(t)
    /\ UNCHANGED <<alarm, stored, zones, hub, timer, repaint, shown, heard>>

(* A tick that came early sets the timer for the rest. *)
Resync(t) ==
    /\ At(t, "resync")
    /\ SyncTimer
    /\ Done(t)
    /\ UNCHANGED <<alarm, stored, zones, hub, repaint, shown, heard>>

TimerFires(t) ==
    /\ timer # None /\ timer <= Early
    /\ hub = "up"
    /\ t \in IdleTasks
    /\ timer' = None
    /\ Goto(t, Work("wake"))
    /\ UNCHANGED <<alarm, stored, zones, hub, repaint, shown, heard>>

(* _on_arming_done only paints what the engine says at that moment. *)
RepaintFires ==
    /\ repaint # None /\ repaint <= Early
    /\ hub = "up"
    /\ repaint' = None
    /\ shown' = PanelState
    /\ UNCHANGED <<alarm, stored, zones, hub, task, timer, heard>>

(* Home Assistant polls the panel, an entity that does not say otherwise. *)
Poll ==
    /\ hub = "up"
    /\ shown' = PanelState
    /\ UNCHANGED <<alarm, stored, zones, hub, task, timer, repaint, heard>>

(* A state change of a watched sensor: it became active, or went offline. *)
SensorEdge(t) == \E s \in Sensors, step \in {"edge", "offline"} :
    /\ zones[s] # None
    /\ Begin(t, [Work(step) EXCEPT !.sensor = s])
    /\ UNCHANGED <<alarm, stored, zones, hub, timer, repaint, shown, heard>>

AskArm(t) == \E mode \in ArmableModes, exit, delay \in Delays :
    /\ Begin(t, [Work("arm") EXCEPT !.set =
                   [mode |-> mode, exit |-> exit, left |-> 0, delay |-> delay]])
    /\ UNCHANGED <<alarm, stored, zones, hub, timer, repaint, shown, heard>>

AskDisarm(t) ==
    /\ Begin(t, Work("disarm"))
    /\ UNCHANGED <<alarm, stored, zones, hub, timer, repaint, shown, heard>>

SetZone == \E s \in Sensors, zone \in AllZones \cup {None} :
    /\ hub = "up"
    /\ zones[s] # zone
    /\ zones' = [zones EXCEPT ![s] = zone]
    /\ UNCHANGED <<alarm, stored, hub, task, timer, repaint, shown, heard>>

-----------------------------------------------------------------------------
(* Time, and the hub stopping and starting. *)

Sooner(t) == IF t = None THEN None ELSE Larger(t - 1, 0)
Age(a) ==
    [a EXCEPT !.exit = IF a.mode \in ArmableModes THEN Floor(@ - 1) ELSE @,
              !.left = IF a.mode = "pending" THEN Floor(@ - 1) ELSE @]

Clocked == {"arm", "sense", "tick"}

Advance ==
    /\ \A t \in Tasks : task[t].step \in Clocked => task[t].age < MaxWait
    /\ alarm' = Age(alarm)
    /\ stored' = Age(stored)
    /\ timer' = Sooner(timer)
    /\ repaint' = Sooner(repaint)
    /\ task' = [t \in Tasks |->
         IF task[t].step \in Clocked THEN [task[t] EXCEPT !.age = @ + 1] ELSE task[t]]
    /\ UNCHANGED <<zones, hub, shown, heard>>

Crash ==
    /\ Crashes
    /\ hub = "up"
    /\ hub' = "down"
    /\ task' = [t \in Tasks |-> Idle]
    /\ timer' = None /\ repaint' = None
    /\ UNCHANGED <<alarm, stored, zones, shown, heard>>

(* Fault: a restored entry delay is taken as it is. *)
StartPending ==
    /\ hub = "down"
    /\ hub' = "up"
    /\ alarm' = stored
    /\ timer' = None
    /\ shown' = PanelState'
    /\ repaint' = IF shown' = "arming" THEN alarm'.exit ELSE None
    /\ UNCHANGED <<stored, zones, task, heard>>

(* warm_up: a restored entry delay fails secure; then the listeners start. *)
Start ==
    /\ hub = "down"
    /\ hub' = "up"
    /\ IF stored.mode = "pending"
       THEN EnterTriggered
       ELSE /\ alarm' = stored
            /\ UNCHANGED <<stored, heard>>
    /\ timer' = None
    /\ shown' = PanelState'
    /\ repaint' = IF shown' = "arming" THEN alarm'.exit ELSE None
    /\ UNCHANGED <<zones, task>>

-----------------------------------------------------------------------------
Init ==
    /\ alarm = Disarmed /\ stored = Disarmed
    /\ zones \in [Sensors -> AllZones \cup {None}]
    /\ hub = "up"
    /\ task = [t \in Tasks |-> Idle]
    /\ timer = None /\ repaint = None
    /\ shown = "disarmed"
    /\ heard = FALSE

Ask(t) == SensorEdge(t) \/ AskArm(t) \/ AskDisarm(t)

Continue(t) ==
    \/ Arm(t) \/ Disarm(t) \/ ReadZone(t)
    \/ SenseLifeSafety(t) \/ SenseEntry(t) \/ SenseIntrusion(t) \/ SenseNothing(t)
    \/ Offline(t) \/ ReadClock(t) \/ Tick(t) \/ React(t) \/ Resync(t)

Next ==
    \/ \E t \in Tasks : Ask(t) \/ Continue(t) \/ TimerFires(t)
    \/ RepaintFires \/ Poll \/ SetZone \/ Advance \/ Crash \/ Start

Spec == Init /\ [][Next]_vars

(* Jobs end, the timer of the loop fires, time passes, a stopped hub is started. *)
FairSpec ==
    /\ Spec
    /\ \A t \in Tasks : WF_vars(Continue(t))
    /\ WF_vars(\E t \in Tasks : TimerFires(t))
    /\ WF_vars(Advance)
    /\ WF_vars(Start)

-----------------------------------------------------------------------------
States == [mode: AllModes, exit: Int, left: Int, delay: Int]
Steps == {"idle", "edge", "offline", "sense", "arm", "disarm", "wake", "tick",
          "resync", "react", "sound"}
Jobs == [step: Steps, sensor: Sensors \cup {None}, zone: AllZones \cup {None},
         age: 0..MaxWait, set: States]

Complete(w) ==
    /\ w.step \in {"edge", "offline"} => w.sensor \in Sensors
    /\ w.step = "sense" => w.zone \in AllZones
    /\ w.step = "arm" => w.set.mode \in ArmableModes

(* Every variable keeps its type; a job has the sensor, zone or mode it needs. *)
TypeOK ==
    /\ alarm \in States /\ stored \in States
    /\ zones \in [Sensors -> AllZones \cup {None}]
    /\ hub \in {"up", "down"}
    /\ task \in [Tasks -> Jobs]
    /\ \A t \in Tasks : Complete(task[t])
    /\ timer = None \/ timer \in Nat
    /\ repaint = None \/ repaint \in Nat
    /\ shown \in AllModes \cup {"arming"}
    /\ heard \in BOOLEAN

Settled == hub = "up" /\ IdleTasks = Tasks

TimerRight ==
    IF alarm.mode = "pending" THEN timer = Larger(alarm.left, 0) ELSE timer = None
(* Whatever order edges, ticks, arming and disarming came in: once their jobs  *)
(* are through, a countdown has its timer, set to the deadline, and there is    *)
(* no timer without a countdown.  A restart leaves no countdown without a timer. *)
TimerMatches == Settled => TimerRight

(* The alarm trips only for a life-safety edge, in an armed mode whose exit     *)
(* delay is over, or at the end of its own entry delay: neither an edge or tick *)
(* that read the clock earlier nor the timer of a countdown that was disarmed   *)
(* can trip a hub armed since.                                                  *)
LifeSafetyEdge == \E t \in Tasks : At(t, "sense") /\ task[t].zone = "life_safety"
TripsForCause ==
    [][hub = "up" /\ alarm'.mode \in {"pending", "triggered"} /\ alarm'.mode # alarm.mode =>
         \/ LifeSafetyEdge
         \/ alarm.mode \in ArmableModes /\ alarm.exit <= 0
         \/ alarm.mode = "pending" /\ alarm.left <= 0]_vars

(* An alarm that is on has been announced: the siren event went out. *)
TriggerHeard == Settled /\ alarm.mode = "triggered" => heard

(* Once the jobs are through the panel shows the alarm's mode; at most it still  *)
(* shows an exit delay that has run out since, which no event announces.        *)
PanelFollows == Settled =>
    shown = PanelState \/ (shown = "arming" /\ alarm.mode \in ArmableModes)

(* An entry delay always ends: disarmed, armed anew or triggered. *)
PendingEnds == alarm.mode = "pending" ~> alarm.mode # "pending"

=============================================================================
