------------------------------ MODULE HomeProofs ------------------------------
(* Proofs about the alarm, the speakers, the prayer calls and a Smart room.     *)
(*                                                                              *)
(* Of the alarm: types, the entry-delay timer, the causes of a trip, what is    *)
(* announced, the panel. TimerMatches speaks of a hub whose jobs are through    *)
(* and is not inductive. What every step keeps is that the timer is right or    *)
(* that a job that will set it anew, or that runs because it fired, is still on *)
(* its way; the panel and the announcements are kept in the same way, each by   *)
(* the jobs that will see to them. SpeakersInv is that of the speakers,         *)
(* AthanInv, which reckons in hours and days, that of the prayer calls, and     *)
(* RulesInv that of a Smart room, whose sensors keep calm.                      *)
EXTENDS Home, FiniteSetTheorems, TLAPS

Syncing == {"wake", "tick", "resync", "react", "sound"}

TimerKept ==
    hub = "up" => TimerRight \/ \E t \in Tasks : task[t].step \in Syncing

-----------------------------------------------------------------------------
LEMMA DisarmedTyped == Disarmed \in States
BY DEF Disarmed, States, AllModes

LEMMA IdleTyped == Idle \in Jobs /\ Idle.step = "idle"
BY DisarmedTyped, TimesAssumption DEF Idle, Jobs, Steps

LEMMA WorkTyped ==
    ASSUME NEW step \in Steps
    PROVE  Work(step) \in Jobs /\ Work(step).step = step
BY IdleTyped DEF Work, Idle, Jobs

LEMMA FloorTyped == \A x \in Int : Floor(x) \in Int /\ Floor(x) >= -MaxWait
BY TimesAssumption DEF Floor, Larger

(* A job that takes a well-typed step leaves the jobs well-typed. *)
LEMMA GotoTyped ==
    ASSUME TypeOK, NEW t \in Tasks, NEW w \in Jobs,
           Complete(w),
           task' = [task EXCEPT ![t] = w]
    PROVE  /\ task' \in [Tasks -> Jobs]
           /\ \A u \in Tasks : Complete(task'[u])
BY DEF TypeOK

-----------------------------------------------------------------------------
(* Types. *)

(* The engine's two transitions, and saving, keep states typed. *)
LEMMA TransitionsTyped ==
    ASSUME TypeOK, NEW age \in 0..MaxWait, EnterTriggered \/ EnterPending(age)
    PROVE  alarm' \in States /\ stored' \in States /\ heard' \in BOOLEAN
<1>1. CASE EnterTriggered
  <2>1. alarm' \in States
    BY <1>1, DisarmedTyped DEF EnterTriggered, States, AllModes
  <2> QED  BY <1>1, <2>1 DEF EnterTriggered, Persist, TypeOK
<1>2. CASE EnterPending(age)
  <2>1. alarm.delay - age \in Int
    BY TimesAssumption DEF TypeOK, States
  <2>2. alarm' \in States
    BY <1>2, <2>1, DisarmedTyped DEF EnterPending, States, AllModes
  <2> QED  BY <1>2, <2>2 DEF EnterPending, Persist, TypeOK
<1> QED  BY <1>1, <1>2

LEMMA TimersTyped ==
    ASSUME TypeOK
    PROVE  /\ Larger(alarm.left, 0) \in Nat
           /\ PanelState \in AllModes \cup {"arming"}
           /\ PanelState = "arming" => alarm.exit \in Nat
BY DEF TypeOK, States, Larger, PanelState, AllModes, ArmableModes

LEMMA AgeTyped == \A a \in States : Age(a) \in States
<1> TAKE a \in States
<1> DEFINE exit == IF a.mode \in ArmableModes THEN Floor(a.exit - 1) ELSE a.exit
           left == IF a.mode = "pending" THEN Floor(a.left - 1) ELSE a.left
<1>1. exit \in Int /\ left \in Int
  BY FloorTyped DEF States
<1> HIDE DEF exit, left
<1>2. [[a EXCEPT !.exit = exit] EXCEPT !.left = left] \in States
  BY <1>1 DEF States
<1>3. Age(a) = [[a EXCEPT !.exit = exit] EXCEPT !.left = left]
  BY DEF Age, exit, left
<1> QED  BY <1>2, <1>3

(* A job's time and words stay typed as the engine goes on with it. *)
LEMMA TaskTyped ==
    ASSUME TypeOK, NEW t \in Tasks
    PROVE  task[t] \in Jobs /\ task[t].age \in 0..MaxWait /\ task[t].set \in States
           /\ task[t].zone \in AllZones \cup {None}
BY DEF TypeOK, Jobs

(* A step of a job: it ends, or moves to a step that needs nothing more.    *)
Plain == Steps \ {"edge", "offline", "sense", "arm"}

LEMMA JobTyped ==
    ASSUME TypeOK, NEW t \in Tasks,
           Done(t) \/ \E step \in Plain : Goto(t, Work(step))
    PROVE  /\ task' \in [Tasks -> Jobs]
           /\ \A u \in Tasks : Complete(task'[u])
<1>1. CASE Done(t)
  BY <1>1, IdleTyped, GotoTyped DEF Done, Complete
<1>2. CASE \E step \in Plain : Goto(t, Work(step))
  <2>1. PICK step \in Plain : Goto(t, Work(step))
    BY <1>2
  <2>2. Work(step) \in Jobs /\ Complete(Work(step))
    BY WorkTyped DEF Plain, Complete
  <2> QED  BY <2>1, <2>2, GotoTyped DEF Goto
<1> QED  BY <1>1, <1>2

LEMMA EngineTyped ==
    ASSUME TypeOK, NEW t \in Tasks,
           \/ Arm(t) \/ Disarm(t) \/ SenseLifeSafety(t) \/ SenseEntry(t)
           \/ SenseIntrusion(t) \/ SenseNothing(t) \/ Offline(t) \/ ReadClock(t) \/ Tick(t)
    PROVE  TypeOK'
<1> USE TaskTyped
<1> DEFINE J == Done(t) \/ \E step \in Plain : Goto(t, Work(step))
<1> DEFINE Rest == /\ task' \in [Tasks -> Jobs]
                   /\ \A u \in Tasks : Complete(task'[u])
<1>0. J => Rest
  BY JobTyped
<1>1. CASE Arm(t)
  <2>1. task[t].set.exit - task[t].age \in Int
    BY TimesAssumption DEF States
  <2>2. alarm' \in States
    BY <1>1, <2>1, FloorTyped DEF Arm, States
  <2>3. J
    BY <1>1 DEF Arm, Steps, Plain
  <2> QED  BY <1>0, <1>1, <2>2, <2>3 DEF Arm, TypeOK, Persist
<1>2. CASE Disarm(t)
  <2>1. J
    BY <1>2 DEF Disarm, Steps, Plain
  <2> QED  BY <1>0, <1>2, <2>1, DisarmedTyped DEF Disarm, TypeOK, Persist
<1>3. CASE SenseLifeSafety(t)
  <2>1. J
    BY <1>3 DEF SenseLifeSafety, Steps, Plain
  <2> QED  BY <1>0, <1>3, <2>1, TransitionsTyped DEF SenseLifeSafety, TypeOK
<1>4. CASE SenseEntry(t)
  <2>1. J
    BY <1>4 DEF SenseEntry, Steps, Plain
  <2> QED  BY <1>0, <1>4, <2>1, TransitionsTyped DEF SenseEntry, TypeOK
<1>5. CASE SenseIntrusion(t)
  <2>1. J
    BY <1>5 DEF SenseIntrusion, Steps, Plain
  <2> QED  BY <1>0, <1>5, <2>1, TransitionsTyped DEF SenseIntrusion, TypeOK
<1>6. CASE SenseNothing(t) \/ Offline(t) \/ ReadClock(t)
  <2>1. J
    BY <1>6 DEF SenseNothing, Offline, ReadClock, Steps, Plain
  <2> QED  BY <1>0, <1>6, <2>1 DEF SenseNothing, Offline, ReadClock, TypeOK
<1>7. CASE Tick(t)
  <2>1. J
    BY <1>7 DEF Tick, Steps, Plain
  <2> QED  BY <1>0, <1>7, <2>1, TransitionsTyped DEF Tick, TypeOK
<1> QED  BY <1>1, <1>2, <1>3, <1>4, <1>5, <1>6, <1>7

(* A job that comes with a sensor, a zone or an order. *)
LEMMA AskTyped ==
    ASSUME TypeOK, NEW t \in Tasks,
           ReadZone(t) \/ SensorEdge(t) \/ AskArm(t) \/ AskDisarm(t)
    PROVE  TypeOK'
<1>1. CASE ReadZone(t)
  <2> DEFINE zone == zones[task[t].sensor]
             w == [Work("sense") EXCEPT !.zone = zone]
  <2>1. CASE zone = None
    BY <1>1, <2>1, JobTyped DEF ReadZone, TypeOK
  <2>2. CASE zone # None
    <3>1. zone \in AllZones
      BY <1>1, <2>2 DEF ReadZone, At, TypeOK, Complete
    <3>2. w \in Jobs /\ Complete(w)
      BY <3>1, WorkTyped DEF Jobs, Steps, Complete
    <3>3. task' = [task EXCEPT ![t] = w]
      BY <1>1, <2>2 DEF ReadZone, Goto
    <3> HIDE DEF w
    <3> QED  BY <1>1, <3>2, <3>3, GotoTyped DEF ReadZone, TypeOK
  <2> QED  BY <2>1, <2>2
<1>2. CASE SensorEdge(t)
  <2>1. PICK s \in Sensors, step \in {"edge", "offline"} :
           task' = [task EXCEPT ![t] = [Work(step) EXCEPT !.sensor = s]]
    BY <1>2 DEF SensorEdge, Begin, Goto
  <2> DEFINE w == [Work(step) EXCEPT !.sensor = s]
  <2>2. w \in Jobs /\ Complete(w)
    BY WorkTyped DEF Jobs, Steps, Complete
  <2>3. task' = [task EXCEPT ![t] = w]
    BY <2>1
  <2> HIDE DEF w
  <2> QED  BY <1>2, <2>2, <2>3, GotoTyped DEF SensorEdge, TypeOK
<1>3. CASE AskArm(t)
  <2>1. PICK mode \in ArmableModes, exit \in Delays, delay \in Delays :
           task' = [task EXCEPT ![t] = [Work("arm") EXCEPT !.set =
                      [mode |-> mode, exit |-> exit, left |-> 0, delay |-> delay]]]
    BY <1>3 DEF AskArm, Begin, Goto
  <2> DEFINE set == [mode |-> mode, exit |-> exit, left |-> 0, delay |-> delay]
             w == [Work("arm") EXCEPT !.set = set]
  <2>2. set \in States
    BY DelaysAssumption DEF States, AllModes
  <2>3. w \in Jobs /\ Complete(w)
    BY <2>2, WorkTyped DEF Jobs, Steps, Complete
  <2>4. task' = [task EXCEPT ![t] = w]
    BY <2>1
  <2> HIDE DEF w
  <2> QED  BY <1>3, <2>3, <2>4, GotoTyped DEF AskArm, TypeOK
<1>4. CASE AskDisarm(t)
  <2>1. Goto(t, Work("disarm"))
    BY <1>4 DEF AskDisarm, Begin
  <2> QED  BY <1>4, <2>1, JobTyped DEF AskDisarm, TypeOK, Steps, Plain
<1> QED  BY <1>1, <1>2, <1>3, <1>4

LEMMA LoopTyped ==
    ASSUME TypeOK, NEW t \in Tasks, React(t) \/ Resync(t) \/ TimerFires(t)
    PROVE  TypeOK'
<1>1. timer' = None \/ timer' \in Nat
  BY TimersTyped DEF React, Resync, TimerFires, SyncTimer
<1>2. Done(t) \/ \E step \in Plain : Goto(t, Work(step))
  BY DEF React, Resync, TimerFires, Steps, Plain
<1>3. CASE React(t)
  <2>1. (repaint' = None \/ repaint' \in Nat) /\ shown' \in AllModes \cup {"arming"}
    BY <1>3, TimersTyped DEF React, SyncPanel
  <2>2. heard' \in BOOLEAN
    BY <1>3 DEF React, TypeOK
  <2> QED  BY <1>1, <1>2, <1>3, <2>1, <2>2, JobTyped DEF React, TypeOK
<1>4. CASE Resync(t) \/ TimerFires(t)
  BY <1>1, <1>2, <1>4, JobTyped DEF Resync, TimerFires, TypeOK
<1> QED  BY <1>3, <1>4

LEMMA WorldTyped ==
    ASSUME TypeOK, RepaintFires \/ Poll \/ SetZone \/ Advance \/ Crash \/ Start
    PROVE  TypeOK'
<1>1. CASE RepaintFires \/ Poll
  BY <1>1, TimersTyped DEF RepaintFires, Poll, TypeOK
<1>2. CASE SetZone
  <2>1. zones' \in [Sensors -> AllZones \cup {None}]
    BY <1>2 DEF SetZone, TypeOK
  <2> QED  BY <1>2, <2>1 DEF SetZone, TypeOK
<1>3. CASE Advance
  <2>1. alarm' \in States /\ stored' \in States
    BY <1>3, AgeTyped DEF Advance, TypeOK
  <2>2. (timer' = None \/ timer' \in Nat) /\ (repaint' = None \/ repaint' \in Nat)
    BY <1>3 DEF Advance, Sooner, Larger, TypeOK
  <2>3. \A t \in Tasks : task'[t] \in Jobs /\ Complete(task'[t])
    <3> TAKE t \in Tasks
    <3>1. CASE task[t].step \in Clocked
      <4>1. task[t].age + 1 \in 0..MaxWait
        BY <1>3, <3>1, TaskTyped, TimesAssumption DEF Advance
      <4>2. task'[t] = [task[t] EXCEPT !.age = @ + 1]
        BY <1>3, <3>1 DEF Advance
      <4> QED  BY <4>1, <4>2 DEF TypeOK, Jobs, Complete
    <3>2. CASE task[t].step \notin Clocked
      BY <1>3, <3>2 DEF Advance, TypeOK
    <3> QED  BY <3>1, <3>2
  <2> QED  BY <1>3, <2>1, <2>2, <2>3 DEF Advance, TypeOK
<1>4. CASE Crash
  BY <1>4, IdleTyped DEF Crash, TypeOK, Complete
<1>5. CASE Start
  <2>1. alarm' \in States /\ stored' \in States /\ heard' \in BOOLEAN
    <3>1. CASE stored.mode = "pending"
      <4>1. EnterTriggered
        BY <1>5, <3>1 DEF Start
      <4> QED  BY <4>1, TransitionsTyped, TimesAssumption
    <3>2. CASE stored.mode # "pending"
      BY <1>5, <3>2 DEF Start, TypeOK
    <3> QED  BY <3>1, <3>2
  <2>2. shown' \in AllModes \cup {"arming"} /\ (shown' = "arming" => alarm'.exit \in Nat)
    BY <1>5, <2>1 DEF Start, States, PanelState, AllModes, ArmableModes
  <2> QED  BY <1>5, <2>1, <2>2 DEF Start, TypeOK
<1> QED  BY <1>1, <1>2, <1>3, <1>4, <1>5

LEMMA TypeInit == Init => TypeOK
BY IdleTyped, DisarmedTyped DEF Init, TypeOK, Complete, AllModes

LEMMA TypeStep == TypeOK /\ [Next]_vars => TypeOK'
<1> SUFFICES ASSUME TypeOK, [Next]_vars PROVE TypeOK'
  OBVIOUS
<1>1. CASE UNCHANGED vars
  BY <1>1 DEF vars, TypeOK, Complete
<1>2. ASSUME NEW t \in Tasks, Ask(t) \/ Continue(t) \/ TimerFires(t)
      PROVE  TypeOK'
  BY <1>2, EngineTyped, AskTyped, LoopTyped DEF Ask, Continue
<1>3. CASE RepaintFires \/ Poll \/ SetZone \/ Advance \/ Crash \/ Start
  BY <1>3, WorldTyped
<1> QED  BY <1>1, <1>2, <1>3 DEF Next

(* Every state a hub reaches is well-typed: TypeOK is inductive by itself. *)
THEOREM TypeCorrect == Spec => []TypeOK
BY TypeInit, TypeStep, PTL DEF Spec

-----------------------------------------------------------------------------
(* The entry-delay timer. *)

(* A job that will set the timer is still there when another one goes on. *)
LEMMA SyncingStays ==
    ASSUME TypeOK, NEW t \in Tasks, NEW u \in Tasks, task[u].step \in Syncing,
           task[t].step \notin Syncing, NEW w, task' = [task EXCEPT ![t] = w]
    PROVE  \E v \in Tasks : task'[v].step \in Syncing
<1>1. u # t /\ task'[u] = task[u]
  BY DEF TypeOK
<1> QED  BY <1>1

LEMMA EngineKeepsTimer ==
    ASSUME TypeOK, TimerKept, NEW t \in Tasks,
           \/ Arm(t) \/ Disarm(t) \/ SenseLifeSafety(t) \/ SenseEntry(t)
           \/ SenseIntrusion(t) \/ ReadClock(t) \/ Tick(t) \/ TimerFires(t)
    PROVE  TimerKept'
<1>1. PICK step \in Syncing : Goto(t, Work(step))
  BY DEF Arm, Disarm, SenseLifeSafety, SenseEntry, SenseIntrusion, ReadClock, Tick,
         TimerFires, Syncing
<1>2. task'[t].step = step
  BY <1>1, WorkTyped DEF Goto, TypeOK, Syncing, Steps
<1> QED  BY <1>2 DEF TimerKept

(* A job that changes neither the alarm nor the timer does not end a job that    *)
(* will set the timer.                                                          *)
LEMMA OthersKeepTimer ==
    ASSUME TypeOK, TimerKept, NEW t \in Tasks,
           ReadZone(t) \/ SenseNothing(t) \/ Offline(t) \/ Ask(t)
    PROVE  TimerKept'
<1>1. UNCHANGED <<alarm, timer, hub>> /\ hub = "up"
  BY DEF ReadZone, SenseNothing, Offline, Ask, SensorEdge, AskArm, AskDisarm, At, Begin
<1>2. \E w : task' = [task EXCEPT ![t] = w]
  BY DEF ReadZone, SenseNothing, Offline, Ask, SensorEdge, AskArm, AskDisarm, Begin,
         Goto, Done
<1>3. task[t].step \notin Syncing
  BY IdleTyped DEF ReadZone, SenseNothing, Offline, Ask, SensorEdge, AskArm, AskDisarm,
         At, Begin, IdleTasks, Syncing
<1>4. CASE TimerRight
  BY <1>1, <1>4 DEF TimerKept, TimerRight
<1>5. CASE \E u \in Tasks : task[u].step \in Syncing
  BY <1>2, <1>3, <1>5, SyncingStays DEF TimerKept
<1> QED  BY <1>1, <1>4, <1>5 DEF TimerKept

LEMMA AdvanceKeepsTimer ==
    ASSUME TypeOK, TimerKept, Advance, hub = "up"
    PROVE  TimerKept'
<1>1. CASE \E u \in Tasks : task[u].step \in Syncing
  <2>1. PICK u \in Tasks : task[u].step \in Syncing
    BY <1>1
  <2>2. task'[u].step = task[u].step
    BY TaskTyped DEF Advance, Jobs
  <2> QED  BY <2>1, <2>2 DEF TimerKept
<1>2. CASE TimerRight
  <2>1. alarm'.mode = alarm.mode
    BY DEF Advance, Age, TypeOK, States
  <2>2. CASE alarm.mode = "pending"
    <3>1. alarm'.left = Floor(alarm.left - 1)
      BY <2>2 DEF Advance, Age, TypeOK, States, ArmableModes
    <3>2. timer = Larger(alarm.left, 0) /\ timer # None
      BY <1>2, <2>2, TimersTyped, NoneAssumption DEF TimerRight
    <3>3. timer' = Larger(timer - 1, 0)
      BY <3>2 DEF Advance, Sooner
    <3>4. timer' = Larger(alarm'.left, 0)
      BY <3>1, <3>2, <3>3, TimesAssumption DEF Larger, Floor, TypeOK, States
    <3> QED  BY <2>1, <2>2, <3>4 DEF TimerKept, TimerRight
  <2>3. CASE alarm.mode # "pending"
    BY <1>2, <2>1, <2>3 DEF TimerRight, TimerKept, Advance, Sooner
  <2> QED  BY <2>2, <2>3
<1> QED  BY <1>1, <1>2 DEF TimerKept

LEMMA StepKeepsTimer ==
    ASSUME TypeOK, TimerKept, [Next]_vars
    PROVE  TimerKept'
<1>1. ASSUME NEW t \in Tasks, Ask(t) \/ Continue(t) \/ TimerFires(t)
      PROVE  TimerKept'
  <2>1. CASE React(t) \/ Resync(t)
    BY <2>1 DEF React, Resync, SyncTimer, TimerKept, TimerRight
  <2> QED  BY <1>1, <2>1, EngineKeepsTimer, OthersKeepTimer DEF Continue
<1>2. CASE RepaintFires \/ Poll \/ SetZone \/ UNCHANGED vars
  BY <1>2 DEF RepaintFires, Poll, SetZone, vars, TimerKept, TimerRight
<1>3. CASE Advance
  BY <1>3, AdvanceKeepsTimer DEF Advance, TimerKept
<1>4. CASE Crash
  BY <1>4 DEF Crash, TimerKept
<1>5. CASE Start
  <2>1. alarm'.mode # "pending" /\ timer' = None
    BY <1>5 DEF Start, EnterTriggered, Disarmed
  <2> QED  BY <2>1 DEF TimerKept, TimerRight
<1> QED  BY <1>1, <1>2, <1>3, <1>4, <1>5 DEF Next

(* The adapter's timer is never lost and never left behind, however edges, ticks, *)
(* arming, disarming and restarts follow one another.                            *)
THEOREM TimerMatchesAlways == Spec => []TimerMatches
<1>1. Init => TimerKept
  BY DEF Init, TimerKept, TimerRight, Disarmed
<1>2. TypeOK /\ TimerKept /\ [Next]_vars => TimerKept'
  BY StepKeepsTimer
<1>3. TypeOK /\ TimerKept => TimerMatches
  BY IdleTyped DEF TimerMatches, Settled, TimerKept, IdleTasks, Syncing
<1> QED  BY <1>1, <1>2, <1>3, TypeCorrect, PTL DEF Spec

-----------------------------------------------------------------------------
(* Causes. *)

(* Nothing trips the alarm but a life-safety edge, an edge in an armed mode past *)
(* its exit delay, or the end of the entry delay itself.                         *)
THEOREM TripsForCauseAlways == Spec => TripsForCause
<1> DEFINE Trips ==
      hub = "up" /\ alarm'.mode \in {"pending", "triggered"} /\ alarm'.mode # alarm.mode
    Cause == \/ LifeSafetyEdge
             \/ alarm.mode \in ArmableModes /\ alarm.exit <= 0
             \/ alarm.mode = "pending" /\ alarm.left <= 0
<1>1. ASSUME TypeOK, [Next]_vars, Trips
      PROVE  Cause
  <2>1. ASSUME NEW t \in Tasks, Ask(t) \/ Continue(t) \/ TimerFires(t)
        PROVE  Cause
    <3> task[t].age \in Nat /\ task[t].set \in States
      BY <1>1, TaskTyped, TimesAssumption
    <3> alarm.exit \in Int /\ alarm.left \in Int
      BY <1>1 DEF TypeOK, States
    <3>1. CASE SenseLifeSafety(t)
      BY <3>1 DEF SenseLifeSafety, LifeSafetyEdge
    <3>2. CASE SenseEntry(t) \/ SenseIntrusion(t)
      <4>1. Armed(task[t].age)
        BY <3>2 DEF SenseEntry, SenseIntrusion
      <4> QED  BY <4>1 DEF Armed
    <3>3. CASE Tick(t)
      BY <1>1, <3>3 DEF Tick
    <3>4. CASE Arm(t)
      <4>1. alarm'.mode \in ArmableModes
        BY <1>1, <3>4 DEF Arm, At, TypeOK, Complete, States
      <4> QED  BY <1>1, <4>1 DEF ArmableModes
    <3>5. CASE Disarm(t)
      BY <1>1, <3>5 DEF Disarm, Disarmed
    <3> QED
      BY <1>1, <2>1, <3>1, <3>2, <3>3, <3>4, <3>5
         DEF Ask, Continue, SensorEdge, AskArm, AskDisarm, ReadZone, SenseNothing, Offline,
             ReadClock, React, Resync, TimerFires
  <2>2. CASE RepaintFires \/ Poll \/ SetZone \/ Advance \/ Crash \/ UNCHANGED vars
    BY <1>1, <2>2 DEF RepaintFires, Poll, SetZone, Advance, Age, Crash, vars, TypeOK, States
  <2>3. CASE Start
    BY <1>1, <2>3 DEF Start
  <2> QED  BY <1>1, <2>1, <2>2, <2>3 DEF Next
<1>2. TypeOK /\ [Next]_vars => [Trips => Cause]_vars
  BY <1>1
<1> QED  BY <1>2, TypeCorrect, PTL DEF Spec, TripsForCause

-----------------------------------------------------------------------------
(* The siren event, on a hub that does not stop. *)

TriggerKept ==
    /\ hub = "up"
    /\ alarm.mode = "triggered" => heard \/ \E t \in Tasks : task[t].step = "sound"

(* A job that is to sound the siren is still there when another one goes on. *)
LEMMA SoundStays ==
    ASSUME TypeOK, NEW t \in Tasks, task[t].step # "sound", NEW w,
           task' = [task EXCEPT ![t] = w], NEW u \in Tasks, task[u].step = "sound"
    PROVE  \E v \in Tasks : task'[v].step = "sound"
<1>1. u # t /\ task'[u] = task[u]
  BY DEF TypeOK
<1> QED  BY <1>1

LEMMA TaskKeepsTrigger ==
    ASSUME TypeOK, TriggerKept, NEW t \in Tasks, Ask(t) \/ Continue(t) \/ TimerFires(t)
    PROVE  TriggerKept'
<1>0. hub' = "up"
  BY DEF TriggerKept, Ask, Continue, SensorEdge, AskArm, AskDisarm, Arm, Disarm, ReadZone,
         SenseLifeSafety, SenseEntry, SenseIntrusion, SenseNothing, Offline, ReadClock,
         Tick, React, Resync, TimerFires
<1>1. CASE Arm(t) \/ Disarm(t) \/ SenseEntry(t)
  <2>1. alarm'.mode # "triggered"
    <3>1. CASE Arm(t)
      BY <3>1 DEF Arm, At, TypeOK, Complete, States, ArmableModes
    <3>2. CASE Disarm(t)
      BY <3>2 DEF Disarm, Disarmed
    <3>3. CASE SenseEntry(t)
      BY <3>3 DEF SenseEntry, EnterPending, Disarmed
    <3> QED  BY <1>1, <3>1, <3>2, <3>3
  <2> QED  BY <1>0, <2>1 DEF TriggerKept
<1>2. CASE EnterTriggered /\ Goto(t, Work("sound"))
  <2>1. task'[t].step = "sound"
    BY <1>2, WorkTyped DEF Goto, TypeOK, Steps
  <2> QED  BY <1>0, <2>1 DEF TriggerKept
<1>3. CASE React(t) /\ task[t].step = "sound"
  BY <1>0, <1>3 DEF React, TriggerKept
<1>4. CASE UNCHANGED alarm /\ heard' = heard /\ task[t].step # "sound"
           /\ \E w : task' = [task EXCEPT ![t] = w]
  BY <1>0, <1>4, SoundStays DEF TriggerKept
<1>5. CASE React(t) /\ task[t].step # "sound"
  <2>1. heard' = heard
    BY <1>5 DEF React, TypeOK
  <2> QED  BY <1>4, <1>5, <2>1 DEF React, Done
<1>6. CASE ReadZone(t) \/ SenseNothing(t) \/ Offline(t) \/ ReadClock(t) \/ Resync(t)
  BY <1>4, <1>6 DEF ReadZone, SenseNothing, Offline, ReadClock, Resync, At, Goto, Done
<1>7. CASE Tick(t)
  BY <1>2, <1>4, <1>7 DEF Tick, At, Goto
<1>8. CASE SenseLifeSafety(t) \/ SenseIntrusion(t)
  BY <1>2, <1>8 DEF SenseLifeSafety, SenseIntrusion
<1>9. CASE Ask(t) \/ TimerFires(t)
  <2>1. task[t].step = "idle"
    BY <1>9, IdleTyped
       DEF Ask, SensorEdge, AskArm, AskDisarm, Begin, TimerFires, IdleTasks
  <2> QED
    BY <1>4, <1>9, <2>1 DEF Ask, SensorEdge, AskArm, AskDisarm, Begin, TimerFires, Goto
<1> QED  BY <1>1, <1>3, <1>5, <1>6, <1>7, <1>8, <1>9 DEF Continue

LEMMA TriggerInit == Init => TriggerKept
BY DEF Init, TriggerKept, Disarmed

LEMMA TriggerStep == ~Crashes /\ TypeOK /\ TriggerKept /\ [Next]_vars => TriggerKept'
<1> SUFFICES ASSUME ~Crashes, TypeOK, TriggerKept, [Next]_vars PROVE TriggerKept'
  OBVIOUS
<1>1. CASE Advance
  <2>1. alarm'.mode = alarm.mode
    BY <1>1 DEF Advance, Age, TypeOK, States
  <2>2. \A t \in Tasks : task'[t].step = task[t].step
    BY <1>1, TaskTyped DEF Advance, Jobs
  <2> QED  BY <1>1, <2>1, <2>2 DEF Advance, TriggerKept
<1>2. CASE RepaintFires \/ Poll \/ SetZone \/ UNCHANGED vars
  BY <1>2 DEF RepaintFires, Poll, SetZone, vars, TriggerKept
<1>3. ~Crash /\ ~Start
  BY DEF Crash, Start, TriggerKept
<1> QED  BY <1>1, <1>2, <1>3, TaskKeepsTrigger DEF Next

LEMMA TriggerSound == TypeOK /\ TriggerKept => TriggerHeard
BY IdleTyped DEF TriggerHeard, Settled, TriggerKept, IdleTasks

(* As long as the hub does not stop, an alarm that is on has been announced once *)
(* the jobs are through.                                                         *)
THEOREM TriggerHeardAlways == ~Crashes => (Spec => []TriggerHeard)
<1> SUFFICES ASSUME ~Crashes PROVE Spec => []TriggerHeard
  OBVIOUS
<1>1. TypeOK /\ TriggerKept /\ [Next]_vars => TriggerKept'
  BY TriggerStep
<1> QED  BY <1>1, TriggerInit, TriggerSound, TypeCorrect, PTL DEF Spec

-----------------------------------------------------------------------------
(* The panel: what it shows is right, or a job will have it painted anew. *)

Painting == {"react", "sound"}
PanelRight == shown = PanelState \/ (shown = "arming" /\ alarm.mode \in ArmableModes)
PanelKept == hub = "up" => PanelRight \/ \E t \in Tasks : task[t].step \in Painting

LEMMA EngineKeepsPanel ==
    ASSUME TypeOK, PanelKept, NEW t \in Tasks,
           \/ Arm(t) \/ Disarm(t) \/ SenseLifeSafety(t) \/ SenseEntry(t) \/ SenseIntrusion(t)
           \/ (Tick(t) /\ alarm.mode = "pending" /\ alarm.left <= -task[t].age)
    PROVE  PanelKept'
<1>1. PICK step \in Painting : Goto(t, Work(step))
  BY DEF Arm, Disarm, SenseLifeSafety, SenseEntry, SenseIntrusion, Tick, Painting
<1>2. task'[t].step = step
  BY <1>1, WorkTyped DEF Goto, TypeOK, Painting, Steps
<1> QED  BY <1>2 DEF PanelKept

(* A job that neither changes the alarm nor paints it leaves one that will. *)
LEMMA OthersKeepPanel ==
    ASSUME TypeOK, PanelKept, NEW t \in Tasks, UNCHANGED <<alarm, hub, shown>>, hub = "up",
           task[t].step \notin Painting, NEW w, task' = [task EXCEPT ![t] = w]
    PROVE  PanelKept'
<1>1. CASE PanelRight
  BY <1>1 DEF PanelKept, PanelRight, PanelState
<1>2. CASE \E u \in Tasks : task[u].step \in Painting
  <2>1. PICK u \in Tasks : task[u].step \in Painting
    BY <1>2
  <2>2. u # t /\ task'[u] = task[u]
    BY <2>1 DEF TypeOK
  <2> QED  BY <2>1, <2>2 DEF PanelKept
<1> QED  BY <1>1, <1>2 DEF PanelKept

LEMMA TaskKeepsPanel ==
    ASSUME TypeOK, PanelKept, NEW t \in Tasks, Ask(t) \/ Continue(t) \/ TimerFires(t)
    PROVE  PanelKept'
<1>1. CASE React(t)
  BY <1>1 DEF React, SyncPanel, PanelKept, PanelRight, PanelState
<1>2. CASE ReadZone(t) \/ SenseNothing(t) \/ Offline(t) \/ ReadClock(t) \/ Resync(t)
           \/ (Tick(t) /\ ~(alarm.mode = "pending" /\ alarm.left <= -task[t].age))
  BY <1>2, OthersKeepPanel DEF ReadZone, SenseNothing, Offline, ReadClock, Resync, Tick, At,
     Goto, Done, Painting
<1>3. CASE Ask(t) \/ TimerFires(t)
  <2>1. task[t].step = "idle"
    BY <1>3, IdleTyped DEF Ask, SensorEdge, AskArm, AskDisarm, Begin, TimerFires, IdleTasks
  <2> QED
    BY <1>3, <2>1, OthersKeepPanel
       DEF Ask, SensorEdge, AskArm, AskDisarm, Begin, TimerFires, Goto, Painting
<1> QED  BY <1>1, <1>2, <1>3, EngineKeepsPanel DEF Continue

LEMMA PanelInit == Init => PanelKept
BY DEF Init, PanelKept, PanelRight, PanelState, Disarmed, ArmableModes

(* An exit delay that runs out changes what the panel should show, and nothing *)
(* paints it then.                                                             *)
LEMMA PanelStep == TypeOK /\ PanelKept /\ [Next]_vars => PanelKept'
<1> SUFFICES ASSUME TypeOK, PanelKept, [Next]_vars PROVE PanelKept'
  OBVIOUS
<1>1. CASE Advance
  <2>1. \A t \in Tasks : task'[t].step = task[t].step
    BY <1>1, TaskTyped DEF Advance, Jobs
  <2>2. PanelRight => PanelRight'
    <3>1. /\ alarm'.mode = alarm.mode /\ shown' = shown
          /\ alarm.mode \in ArmableModes => alarm'.exit = Floor(alarm.exit - 1)
      BY <1>1 DEF Advance, Age, TypeOK, States, ArmableModes
    <3>2. alarm.mode \in ArmableModes /\ alarm'.exit > 0 => alarm.exit > 0
      BY <3>1, TimesAssumption DEF Floor, Larger, TypeOK, States
    <3> QED  BY <3>1, <3>2 DEF PanelRight, PanelState
  <2> QED  BY <1>1, <2>1, <2>2 DEF Advance, PanelKept
<1>2. CASE RepaintFires \/ Poll
  BY <1>2 DEF RepaintFires, Poll, PanelKept, PanelRight, PanelState
<1>3. CASE SetZone \/ UNCHANGED vars
  BY <1>3 DEF SetZone, vars, PanelKept, PanelRight, PanelState
<1>4. CASE Crash
  BY <1>4 DEF Crash, PanelKept
<1>5. CASE Start
  BY <1>5 DEF Start, PanelKept, PanelRight
<1> QED  BY <1>1, <1>2, <1>3, <1>4, <1>5, TaskKeepsPanel DEF Next

LEMMA PanelSound == TypeOK /\ PanelKept => PanelFollows
BY IdleTyped DEF PanelFollows, PanelKept, PanelRight, Settled, IdleTasks, Painting

-----------------------------------------------------------------------------
(* The home: a behaviour runs one part. *)

AlarmInv ==
    part = "alarm" => TypeOK /\ PanelKept /\ (~Crashes => TriggerKept)

LEMMA AlarmInit == HomeInit => AlarmInv
BY TypeInit, PanelInit, TriggerInit DEF HomeInit, AlarmInv

LEMMA AlarmStep == AlarmInv /\ [HomeNext]_homeVars => AlarmInv'
<1> SUFFICES ASSUME AlarmInv, [HomeNext]_homeVars, part' = "alarm" PROVE AlarmInv'
  BY DEF AlarmInv
<1>1. part = "alarm" /\ [Next]_vars
  BY DEF HomeNext, homeVars
<1> QED  BY <1>1, TypeStep, PanelStep, TriggerStep DEF AlarmInv

(* Every trigger of a hub that does not stop is announced, and the panel shows *)
(* what the alarm is in, also after a restart.                                 *)
THEOREM AlarmAlwaysHeard == HomeSpec => []AlarmHeard
<1>1. AlarmInv => AlarmHeard
  BY TriggerSound, PanelSound DEF AlarmInv, AlarmHeard
<1> QED  BY <1>1, AlarmInit, AlarmStep, PTL DEF HomeSpec

-----------------------------------------------------------------------------
(* The speakers (Speakers), on a hub that is not hurried. *)

Statuses == {None, "online", "offline"}
BusJobs == [step : {"idle", "removed", "wait", "stop"}, mac : Macs \cup {None}, old : {FALSE}]
Clients == [to : Brokers, link : BOOLEAN]

SpeakerTypes ==
    /\ broker \in Brokers \cup {None} /\ enrolled \subseteq Macs
    /\ loaded \in BOOLEAN /\ cut \in BOOLEAN /\ strayClient = FALSE
    /\ client \in Clients \cup {None}
    /\ {live, wire, retained} \subseteq [Macs -> Statuses]
    /\ queue \subseteq Macs
    /\ busJob \in [Requests -> BusJobs]
    /\ \A j \in Requests : busJob[j].step = "removed" => busJob[j].mac \in Macs

Stopping(j) == busJob[j].step = "stop"

(* The client that stops is the only one, and its request will start the next. *)
OneStops ==
    \A j \in Requests : Stopping(j) => client = None /\ \A k \in Requests : Stopping(k) => k = j

Follows == IF broker = None THEN client = None ELSE client # None /\ client.to = broker

(* The client is the stored broker's, or a request on its way will see to it. *)
FollowsSoon ==
    loaded /\ ~cut => Follows \/ \E j \in Requests : busJob[j].step \in {"wait", "stop"}

(* A hub that is down. *)
Unloaded ==
    ~loaded => /\ client = None /\ statusHeard = {} /\ wire = Speakers!Silent
               /\ \A j \in Requests : busJob[j].step \in {"idle", "removed"}

(* What a linked client has not taken yet is what is retained, unless that was *)
(* cleared; what it took is shown.                                             *)
Linked(s) == client # None /\ client.link /\ client.to = Bus[s]
ShownSoon ==
    /\ statusHeard \subseteq enrolled
    /\ \A s \in Macs : Linked(s) /\ wire[s] # None => retained[s] \in {None, wire[s]}
    /\ \A s \in statusHeard :
         /\ live[s] # None
         /\ Linked(s) /\ wire[s] = None /\ retained[s] # None => live[s] = retained[s]

SpeakersInv == SpeakerTypes /\ OneStops /\ FollowsSoon /\ Unloaded /\ ShownSoon

LEMMA SpeakersInit == Speakers!Init => SpeakersInv
<1> SUFFICES ASSUME Speakers!Init PROVE SpeakersInv
  OBVIOUS
<1>1. \A j \in Requests : busJob[j].step = "idle"
  BY DEF Speakers!Init, Speakers!Idle
<1>2. SpeakerTypes
  BY <1>1 DEF Speakers!Init, Speakers!Idle, Speakers!Silent, SpeakerTypes, Statuses, BusJobs
<1> QED
  BY <1>1, <1>2 DEF Speakers!Init, SpeakersInv, OneStops, Stopping, FollowsSoon, Unloaded, ShownSoon,
     Linked

LEMMA EnrollSpeaker ==
    ASSUME SpeakersInv, NEW s \in Macs, Speakers!Enroll(s)
    PROVE  SpeakersInv'
BY DEF Speakers!Enroll, Speakers!bus, Speakers!history, SpeakersInv, SpeakerTypes, OneStops, Stopping,
   FollowsSoon, Follows, Unloaded, ShownSoon, Linked

LEMMA RemoveSpeaker ==
    ASSUME SpeakersInv, NEW j \in Requests, NEW s \in Macs, Speakers!Remove(j, s)
    PROVE  SpeakersInv'
<1>1. /\ loaded /\ busJob[j].step = "idle" /\ loaded' = loaded
      /\ enrolled' = enrolled \ {s} /\ live' = [live EXCEPT ![s] = None]
      /\ busJob' = [busJob EXCEPT ![j] = [step |-> "removed", mac |-> s, old |-> FALSE]]
      /\ statusHeard' = statusHeard \ {s}
      /\ UNCHANGED <<broker, client, wire, queue, strayClient, retained, cut>>
  BY DEF Speakers!Remove, Speakers!At, Speakers!bus
<1>2. SpeakerTypes'
  BY <1>1 DEF SpeakersInv, SpeakerTypes, BusJobs, Statuses
<1>3. \A k \in Requests : \/ busJob'[k] = busJob[k]
                          \/ k = j /\ busJob'[k].step = "removed"
  BY <1>1 DEF SpeakersInv, SpeakerTypes
<1>4. \A m \in Macs \ {s} : live'[m] = live[m]
  BY <1>1 DEF SpeakersInv, SpeakerTypes
<1>5. OneStops'
  BY <1>1, <1>3 DEF SpeakersInv, OneStops, Stopping
<1>6. FollowsSoon'
  BY <1>1, <1>3 DEF SpeakersInv, FollowsSoon, Follows
<1>7. ShownSoon'
  BY <1>1, <1>4 DEF SpeakersInv, ShownSoon, Linked, SpeakerTypes
<1> QED  BY <1>1, <1>2, <1>5, <1>6, <1>7 DEF SpeakersInv, Unloaded

(* A request ends that had nothing to do with the client. *)
LEMMA DeprovisionSpeaker ==
    ASSUME SpeakersInv, NEW j \in Requests, Speakers!Deprovision(j)
    PROVE  SpeakersInv'
<1>1. /\ busJob[j].step = "removed" /\ busJob' = [busJob EXCEPT ![j] = Speakers!Idle]
      /\ UNCHANGED <<broker, enrolled, loaded, live, client, wire, strayClient, cut, statusHeard>>
  BY DEF Speakers!Deprovision, Speakers!At, Speakers!Ends, Speakers!stored, Speakers!history
<1>2. busJob[j].mac \in Macs
  BY <1>1 DEF SpeakersInv, SpeakerTypes
<1>3. /\ retained' \in [Macs -> Statuses] /\ queue' \subseteq Macs
      /\ \A s \in Macs : retained'[s] \in {None, retained[s]}
  <2>1. CASE Speakers!Linked
    <3>1. \E b : Speakers!Cleared({busJob[j].mac}, b) /\ queue' = queue
      BY <2>1 DEF Speakers!Deprovision
    <3> QED  BY <3>1 DEF Speakers!Cleared, SpeakersInv, SpeakerTypes, Statuses
  <2>2. CASE ~Speakers!Linked
    <3>1. retained' = retained /\ queue' \in {queue, queue \cup {busJob[j].mac}}
      BY <2>2 DEF Speakers!Deprovision
    <3> QED  BY <3>1, <1>2 DEF SpeakersInv, SpeakerTypes
  <2> QED  BY <2>1, <2>2
<1>4. SpeakerTypes'
  BY <1>1, <1>3 DEF SpeakersInv, SpeakerTypes, Speakers!Idle, BusJobs
<1>5. \A k \in Requests : \/ busJob'[k] = busJob[k]
                          \/ k = j /\ busJob'[k].step = "idle"
  BY <1>1 DEF SpeakersInv, SpeakerTypes, Speakers!Idle
<1>6. OneStops'
  BY <1>1, <1>5 DEF SpeakersInv, OneStops, Stopping
<1>7. FollowsSoon'
  BY <1>1, <1>5 DEF SpeakersInv, FollowsSoon, Follows
<1>8. ShownSoon'
  BY <1>1, <1>3 DEF SpeakersInv, ShownSoon, Linked, SpeakerTypes
<1>9. Unloaded'
  BY <1>1, <1>5 DEF SpeakersInv, Unloaded
<1> QED  BY <1>4, <1>6, <1>7, <1>8, <1>9 DEF SpeakersInv

(* A message is taken: an enrolled speaker finds room, and only an unknown one *)
(* makes room.                                                                 *)
LEMMA TakeStatus ==
    ASSUME SpeakersInv, NEW s \in Macs, Speakers!Take(s)
    PROVE  SpeakersInv'
<1>1. /\ wire[s] # None /\ wire' = [wire EXCEPT ![s] = None] /\ Speakers!Ingest(s, wire[s])
      /\ statusHeard' = statusHeard \cup ({s} \cap enrolled)
      /\ UNCHANGED <<broker, enrolled, loaded, client, queue, strayClient, busJob, retained, cut>>
  BY DEF Speakers!Take, Speakers!stored
<1>2. /\ live' \in [Macs -> Statuses]
      /\ \A m \in enrolled \ {s} : live[m] # None => live'[m] = live[m]
      /\ s \in enrolled => live'[s] = wire[s]
  <2>1. wire[s] \in Statuses
    BY DEF SpeakersInv, SpeakerTypes
  <2>2. CASE Speakers!Admits(s)
    <3>1. PICK m \in Speakers!Evicts(s) :
            live' = [n \in Macs |-> IF n = s THEN wire[s] ELSE IF n = m THEN None ELSE live[n]]
      BY <1>1, <2>2 DEF Speakers!Ingest
    <3>2. m \notin enrolled \/ m = None
      BY DEF Speakers!Evicts, Speakers!Unknown
    <3>3. m = None => \A n \in enrolled \ {s} : live[n] # None => live'[n] = live[n]
      BY <3>1, SpeakersAssumption DEF SpeakersInv, SpeakerTypes
    <3> QED  BY <2>1, <3>1, <3>2, <3>3 DEF SpeakersInv, SpeakerTypes, Statuses
  <2>3. CASE ~Speakers!Admits(s)
    <3>1. live' = live /\ s \notin enrolled
      BY <1>1, <2>3 DEF Speakers!Ingest, Speakers!Admits
    <3> QED  BY <3>1 DEF SpeakersInv, SpeakerTypes
  <2> QED  BY <2>2, <2>3
<1>3. /\ wire' \in [Macs -> Statuses] /\ wire'[s] = None
      /\ \A m \in Macs \ {s} : wire'[m] = wire[m]
  BY <1>1 DEF SpeakersInv, SpeakerTypes, Statuses
<1>4. SpeakerTypes'
  BY <1>1, <1>2, <1>3 DEF SpeakersInv, SpeakerTypes
<1>5. ShownSoon'
  <2>1. statusHeard' \subseteq enrolled
    BY <1>1 DEF SpeakersInv, ShownSoon
  <2>2. ASSUME NEW m \in statusHeard'
        PROVE  /\ live'[m] # None
               /\ Linked(m) /\ wire'[m] = None /\ retained[m] # None => live'[m] = retained[m]
    <3>1. CASE m = s
      <4>1. s \in enrolled /\ live'[s] = wire[s]
        BY <2>1, <2>2, <3>1, <1>2
      <4>2. Linked(s) => retained[s] \in {None, wire[s]}
        BY <1>1 DEF SpeakersInv, ShownSoon
      <4> QED  BY <1>1, <3>1, <4>1, <4>2
    <3>2. CASE m # s
      <4>1. m \in statusHeard /\ m \in enrolled \ {s} /\ m \in Macs
        BY <1>1, <2>2, <3>2 DEF SpeakersInv, ShownSoon, SpeakerTypes
      <4>2. live[m] # None /\ (Linked(m) /\ wire[m] = None /\ retained[m] # None => live[m] = retained[m])
        BY <4>1 DEF SpeakersInv, ShownSoon
      <4> QED  BY <1>2, <1>3, <3>2, <4>1, <4>2
    <3> QED  BY <3>1, <3>2
  <2>3. \A m \in Macs : Linked(m) /\ wire'[m] # None => retained[m] \in {None, wire'[m]}
    BY <1>3 DEF SpeakersInv, ShownSoon
  <2> QED  BY <1>1, <2>1, <2>2, <2>3 DEF ShownSoon, Linked
<1>6. loaded
  BY <1>1 DEF SpeakersInv, Unloaded, Speakers!Silent
<1> QED  BY <1>1, <1>4, <1>5, <1>6 DEF SpeakersInv, OneStops, Stopping, FollowsSoon, Follows, Unloaded

LEMMA SpeakerSpeaks ==
    ASSUME SpeakersInv, NEW s \in Macs, NEW v \in {"online", "offline"}, Speakers!Speak(s, v)
    PROVE  SpeakersInv'
<1>1. /\ retained' = [retained EXCEPT ![s] = v]
      /\ wire' = IF Speakers!Linked /\ client.to = Bus[s] THEN [wire EXCEPT ![s] = v] ELSE wire
      /\ UNCHANGED <<broker, enrolled, loaded, live, client, queue, strayClient, busJob, cut, statusHeard>>
  BY DEF Speakers!Speak, Speakers!stored, Speakers!history
<1>2. /\ retained'[s] = v /\ (Linked(s) => wire'[s] = v)
      /\ \A m \in Macs \ {s} : retained'[m] = retained[m] /\ wire'[m] = wire[m]
  <2>1. CASE Linked(s)
    BY <1>1, <2>1, SpeakersAssumption DEF SpeakersInv, SpeakerTypes, Statuses, Linked, Speakers!Linked
  <2>2. CASE ~Linked(s)
    BY <1>1, <2>2, SpeakersAssumption DEF SpeakersInv, SpeakerTypes, Statuses, Linked, Speakers!Linked
  <2> QED  BY <2>1, <2>2
<1>3. SpeakerTypes'
  BY <1>1 DEF SpeakersInv, SpeakerTypes, Statuses
<1>4. ShownSoon'
  BY <1>1, <1>2 DEF SpeakersInv, SpeakerTypes, ShownSoon, Linked
<1>5. Unloaded'
  BY <1>1 DEF SpeakersInv, Unloaded, Speakers!Linked
<1> QED  BY <1>1, <1>3, <1>4, <1>5 DEF SpeakersInv, OneStops, Stopping, FollowsSoon, Follows

LEMMA ClientConnects ==
    ASSUME SpeakersInv, Speakers!Connect
    PROVE  SpeakersInv'
<1>1. /\ client # None /\ ~client.link /\ client' = [client EXCEPT !.link = TRUE]
      /\ wire' = [s \in Macs |-> IF Bus[s] = client.to THEN retained[s] ELSE None]
      /\ Speakers!Cleared(queue, client.to) /\ queue' = {}
      /\ UNCHANGED <<broker, enrolled, loaded, live, strayClient, busJob, cut, statusHeard>>
  BY DEF Speakers!Connect, Speakers!stored, Speakers!history
<1>2. client \in Clients /\ client' \in Clients /\ client' # None /\ client'.to = client.to
  BY <1>1, SpeakersAssumption DEF SpeakersInv, SpeakerTypes, Clients
<1>3. /\ retained' \in [Macs -> Statuses]
      /\ \A s \in Macs : retained'[s] \in {None, retained[s]}
  BY <1>1 DEF Speakers!Cleared, SpeakersInv, SpeakerTypes, Statuses
<1>4. SpeakerTypes'
  BY <1>1, <1>2, <1>3 DEF SpeakersInv, SpeakerTypes, Statuses
<1>5. ShownSoon'
  <2>1. \A s \in Macs : Linked(s)' => wire'[s] = retained[s]
    BY <1>1, <1>2 DEF Linked
  <2> QED  BY <1>1, <1>3, <2>1 DEF SpeakersInv, SpeakerTypes, ShownSoon
<1> QED
  BY <1>1, <1>2, <1>4, <1>5 DEF SpeakersInv, OneStops, Stopping, FollowsSoon, Follows, Unloaded

LEMMA ClientDisconnects ==
    ASSUME SpeakersInv, Speakers!Disconnect
    PROVE  SpeakersInv'
<1>1. /\ client # None /\ client' = [client EXCEPT !.link = FALSE] /\ wire' = Speakers!Silent
      /\ UNCHANGED <<broker, enrolled, loaded, live, queue, strayClient, busJob, retained, cut,
                     statusHeard>>
  BY DEF Speakers!Disconnect, Speakers!Linked, Speakers!stored, Speakers!history
<1>2. client' \in Clients /\ client' # None /\ client'.to = client.to /\ ~client'.link
  BY <1>1, SpeakersAssumption DEF SpeakersInv, SpeakerTypes, Clients
<1>3. SpeakerTypes'
  BY <1>1, <1>2 DEF SpeakersInv, SpeakerTypes, Statuses, Speakers!Silent
<1>4. ShownSoon'
  BY <1>1, <1>2 DEF SpeakersInv, ShownSoon, Linked
<1> QED
  BY <1>1, <1>2, <1>3, <1>4 DEF SpeakersInv, OneStops, Stopping, FollowsSoon, Follows, Unloaded

(* A client that is started is the stored broker's, and is not linked yet. *)
LEMMA StartedFollows ==
    ASSUME SpeakersInv, Speakers!Started(broker)
    PROVE  /\ client' \in Clients \cup {None} /\ (broker' = broker => Follows')
           /\ queue' = {} /\ wire' = Speakers!Silent /\ wire' \in [Macs -> Statuses]
           /\ \A s : ~Linked(s)'
<1>1. /\ client' = IF broker = None THEN None ELSE [to |-> broker, link |-> FALSE]
      /\ wire' = Speakers!Silent /\ queue' = {}
  BY DEF Speakers!Started
<1>2. /\ client' \in Clients \cup {None}
      /\ client' # None => client'.to = broker /\ ~client'.link
      /\ client' = None <=> broker = None
  <2>1. CASE broker = None
    BY <1>1, <2>1
  <2>2. CASE broker # None
    <3>1. client' = [to |-> broker, link |-> FALSE] /\ broker \in Brokers
      BY <1>1, <2>2 DEF SpeakersInv, SpeakerTypes
    <3>2. client' \in [to : Brokers, link : BOOLEAN]
      BY <3>1
    <3> QED  BY <2>2, <3>1, <3>2, SpeakersAssumption DEF Clients
  <2> QED  BY <2>1, <2>2
<1> QED  BY <1>1, <1>2 DEF Follows, Linked, Speakers!Silent, Statuses

LEMMA BrokerSet ==
    ASSUME SpeakersInv, NEW j \in Requests, NEW b \in Brokers, Speakers!SetBroker(j, b)
    PROVE  SpeakersInv'
<1>1. /\ loaded /\ busJob[j].step = "idle" /\ broker' = b
      /\ busJob' = [busJob EXCEPT ![j].step = "wait"]
      /\ UNCHANGED <<enrolled, loaded, live, client, wire, queue, strayClient, retained, cut,
                     statusHeard>>
  BY DEF Speakers!SetBroker, Speakers!At, Speakers!Goes, Speakers!bus, Speakers!history
<1>2. /\ busJob' \in [Requests -> BusJobs] /\ busJob'[j].step = "wait"
      /\ \A k \in Requests \ {j} : busJob'[k] = busJob[k]
  BY <1>1 DEF SpeakersInv, SpeakerTypes, BusJobs
<1>3. SpeakerTypes'
  BY <1>1, <1>2 DEF SpeakersInv, SpeakerTypes
<1>4. OneStops'
  BY <1>1, <1>2 DEF SpeakersInv, OneStops, Stopping
<1> QED
  BY <1>1, <1>2, <1>3, <1>4 DEF SpeakersInv, FollowsSoon, Unloaded, ShownSoon, Linked

(* A request is through: its client, if it was to start one, is the broker's. *)
LEMMA RequestEnds ==
    ASSUME SpeakersInv, NEW j \in Requests, busJob' = [busJob EXCEPT ![j] = Speakers!Idle]
    PROVE  /\ busJob' \in [Requests -> BusJobs] /\ busJob'[j].step = "idle"
           /\ \A k \in Requests \ {j} : busJob'[k] = busJob[k]
BY DEF SpeakersInv, SpeakerTypes, BusJobs, Speakers!Idle

LEMMA ClientStarts ==
    ASSUME SpeakersInv, NEW j \in Requests, loaded, Speakers!Starts(j), Speakers!Ends(j),
           \A k \in Requests \ {j} : ~Stopping(k),
           UNCHANGED <<broker, enrolled, loaded, live, retained, statusHeard>>
    PROVE  SpeakersInv'
<1>1. Speakers!Started(broker) /\ cut' = FALSE /\ strayClient' = strayClient
  BY DEF Speakers!Starts, SpeakersInv, SpeakerTypes, BusJobs
<1>2. /\ busJob' \in [Requests -> BusJobs] /\ busJob'[j].step = "idle"
      /\ \A k \in Requests \ {j} : busJob'[k] = busJob[k]
  BY RequestEnds DEF Speakers!Ends
<1>3. /\ client' \in Clients \cup {None} /\ Follows'
      /\ queue' = {} /\ wire' \in [Macs -> Statuses] /\ \A s : ~Linked(s)'
  BY <1>1, StartedFollows
<1>4. SpeakerTypes'
  BY <1>1, <1>2, <1>3 DEF SpeakersInv, SpeakerTypes
<1>5. OneStops'
  BY <1>2 DEF OneStops, Stopping
<1>6. ShownSoon'
  BY <1>3 DEF SpeakersInv, ShownSoon
<1> QED  BY <1>3, <1>4, <1>5, <1>6 DEF SpeakersInv, FollowsSoon, Unloaded

LEMMA ClientReconfigured ==
    ASSUME SpeakersInv, NEW j \in Requests, Speakers!Reconfigure(j)
    PROVE  SpeakersInv'
<1>1. /\ busJob[j].step = "wait" /\ \A k \in Requests : ~Stopping(k) /\ ~busJob[j].old
      /\ UNCHANGED <<broker, enrolled, loaded, live, retained, statusHeard>>
  BY DEF Speakers!Reconfigure, Speakers!Turn, Speakers!At, Speakers!stored, Stopping, SpeakersInv,
     SpeakerTypes, BusJobs
<1>2. loaded
  BY <1>1 DEF SpeakersInv, SpeakerTypes, Unloaded
<1>3. CASE client = None
  <2>1. Speakers!Starts(j) /\ Speakers!Ends(j)
    BY <1>3 DEF Speakers!Reconfigure
  <2> QED  BY <1>1, <1>2, <2>1, ClientStarts
<1>4. CASE client # None
  <2>1. /\ client' = None /\ queue' = {} /\ busJob' = [busJob EXCEPT ![j].step = "stop"]
        /\ UNCHANGED <<wire, strayClient, cut>>
    BY <1>1, <1>4 DEF Speakers!Reconfigure, Speakers!Goes
  <2>2. /\ busJob' \in [Requests -> BusJobs] /\ busJob'[j].step = "stop"
        /\ \A k \in Requests \ {j} : busJob'[k] = busJob[k]
    BY <2>1 DEF SpeakersInv, SpeakerTypes, BusJobs
  <2>3. SpeakerTypes'
    BY <1>1, <2>1, <2>2 DEF SpeakersInv, SpeakerTypes
  <2>4. OneStops'
    BY <1>1, <2>1, <2>2 DEF OneStops, Stopping
  <2>5. ShownSoon'
    BY <1>1, <2>1 DEF SpeakersInv, ShownSoon, Linked
  <2> QED  BY <1>1, <1>2, <2>2, <2>3, <2>4, <2>5 DEF SpeakersInv, FollowsSoon, Unloaded
<1> QED  BY <1>3, <1>4

LEMMA ClientJoined ==
    ASSUME SpeakersInv, NEW j \in Requests, Speakers!Joined(j)
    PROVE  SpeakersInv'
<1>1. /\ Stopping(j) /\ Speakers!Ends(j) /\ Speakers!Starts(j)
      /\ UNCHANGED <<broker, enrolled, loaded, live, retained, statusHeard>>
  BY DEF Speakers!Joined, Speakers!At, Speakers!stored, Stopping
<1>2. loaded /\ \A k \in Requests \ {j} : ~Stopping(k)
  BY <1>1 DEF SpeakersInv, SpeakerTypes, Unloaded, OneStops, Stopping
<1> QED  BY <1>1, <1>2, ClientStarts

LEMMA RequestQuits ==
    ASSUME ~Hurried, SpeakersInv, NEW j \in Requests, Speakers!Quit(j)
    PROVE  SpeakersInv'
<1>1. /\ busJob[j].step \in {"wait", "removed"} /\ Speakers!Ends(j)
      /\ cut' = (cut \/ (busJob[j].step # "removed"))
      /\ UNCHANGED <<broker, enrolled, loaded, live, client, wire, queue, strayClient, retained,
                     statusHeard>>
  BY DEF Speakers!Quit, Speakers!At, Speakers!stored, Speakers!bus, SpeakersInv, SpeakerTypes, BusJobs
<1>2. /\ busJob' \in [Requests -> BusJobs] /\ busJob'[j].step = "idle"
      /\ \A k \in Requests \ {j} : busJob'[k] = busJob[k]
  BY <1>1, RequestEnds DEF Speakers!Ends
<1>3. SpeakerTypes'
  BY <1>1, <1>2 DEF SpeakersInv, SpeakerTypes
<1>4. OneStops'
  BY <1>1, <1>2 DEF SpeakersInv, OneStops, Stopping
<1>5. FollowsSoon'
  <2> SUFFICES ASSUME loaded, ~cut' PROVE FollowsSoon'
    BY <1>1 DEF FollowsSoon
  <2>1. ~cut /\ busJob[j].step = "removed"
    BY <1>1
  <2> QED  BY <1>1, <1>2, <2>1 DEF SpeakersInv, FollowsSoon, Follows
<1>6. Unloaded'
  BY <1>1, <1>2 DEF SpeakersInv, Unloaded
<1> QED  BY <1>1, <1>3, <1>4, <1>5, <1>6 DEF SpeakersInv, ShownSoon, Linked

LEMMA SpeakersSetUp ==
    ASSUME SpeakersInv, Speakers!SetUp
    PROVE  SpeakersInv'
<1>1. /\ ~loaded /\ loaded' = TRUE /\ Speakers!Started(broker) /\ live' = Speakers!Silent
      /\ UNCHANGED <<broker, enrolled, strayClient, busJob, retained, cut, statusHeard>>
  BY DEF Speakers!SetUp, Speakers!stored, Speakers!history
<1>2. statusHeard = {} /\ \A j \in Requests : busJob[j].step \in {"idle", "removed"}
  BY <1>1 DEF SpeakersInv, Unloaded
<1>3. /\ client' \in Clients \cup {None} /\ Follows'
      /\ queue' = {} /\ wire' \in [Macs -> Statuses] /\ \A s : ~Linked(s)'
  BY <1>1, StartedFollows
<1>4. SpeakerTypes'
  BY <1>1, <1>3 DEF SpeakersInv, SpeakerTypes, Speakers!Silent, Statuses
<1> QED
  BY <1>1, <1>2, <1>3, <1>4 DEF SpeakersInv, OneStops, Stopping, FollowsSoon, Unloaded, ShownSoon

LEMMA SpeakersUnload ==
    ASSUME ~Hurried, SpeakersInv, Speakers!Unload
    PROVE  SpeakersInv'
<1>1. /\ loaded' = FALSE /\ \A j \in Requests : busJob[j].step \in {"idle", "removed"}
      /\ client' = None /\ wire' = Speakers!Silent /\ queue' = {} /\ live' = Speakers!Silent
      /\ busJob' = [j \in Requests |-> IF busJob[j].step \in {"wait", "stop"}
                                       THEN [busJob[j] EXCEPT !.old = TRUE] ELSE busJob[j]]
      /\ cut' = FALSE /\ statusHeard' = {}
      /\ UNCHANGED <<broker, enrolled, strayClient, retained>>
  BY DEF Speakers!Unload, Speakers!stored
<1>2. \A j \in Requests : busJob'[j] = busJob[j]
  BY <1>1
<1>3. busJob' = busJob
  BY <1>1, <1>2 DEF SpeakersInv, SpeakerTypes
<1>4. SpeakerTypes'
  BY <1>1, <1>3 DEF SpeakersInv, SpeakerTypes, Speakers!Silent, Statuses
<1> QED
  BY <1>1, <1>3, <1>4 DEF SpeakersInv, OneStops, Stopping, FollowsSoon, Unloaded, ShownSoon, Linked

LEMMA SpeakersHalt ==
    ASSUME SpeakersInv, Speakers!Halt
    PROVE  SpeakersInv'
<1>1. /\ loaded' = FALSE /\ strayClient' = FALSE
      /\ client' = None /\ wire' = Speakers!Silent /\ queue' = {} /\ live' = Speakers!Silent
      /\ busJob' = [j \in Requests |-> Speakers!Idle] /\ cut' = FALSE /\ statusHeard' = {}
      /\ UNCHANGED <<broker, enrolled, retained>>
  BY DEF Speakers!Halt, Speakers!stored
<1>2. \A j \in Requests : busJob'[j].step = "idle"
  BY <1>1 DEF Speakers!Idle
<1>3. SpeakerTypes'
  BY <1>1, <1>2 DEF SpeakersInv, SpeakerTypes, Speakers!Silent, Statuses, Speakers!Idle, BusJobs
<1> QED
  BY <1>1, <1>2, <1>3 DEF SpeakersInv, OneStops, Stopping, FollowsSoon, Unloaded, ShownSoon, Linked

LEMMA SpeakersStep ==
    ~Hurried /\ SpeakersInv /\ (Speakers!Next \/ UNCHANGED speakerVars) => SpeakersInv'
<1> SUFFICES ASSUME ~Hurried, SpeakersInv, Speakers!Next \/ UNCHANGED speakerVars PROVE SpeakersInv'
  OBVIOUS
<1>1. CASE UNCHANGED speakerVars
  BY <1>1 DEF speakerVars, SpeakersInv, SpeakerTypes, OneStops, Stopping, FollowsSoon, Follows,
     Unloaded, ShownSoon, Linked
<1>2. ASSUME NEW j \in Requests, Speakers!Left(j) PROVE FALSE
  BY <1>2 DEF Speakers!Left, Speakers!At, SpeakersInv, SpeakerTypes, BusJobs
<1> QED
  BY <1>1, <1>2, EnrollSpeaker, RemoveSpeaker, DeprovisionSpeaker, TakeStatus, SpeakerSpeaks,
     ClientConnects, ClientDisconnects, BrokerSet, ClientReconfigured, ClientJoined, RequestQuits,
     SpeakersSetUp, SpeakersUnload, SpeakersHalt DEF Speakers!Next

LEMMA SpeakersCount == \A set : Speakers!Cardinality(set) = Cardinality(set)
BY DEF Speakers!Cardinality, Cardinality

LEMMA SpeakersSound ==
    SpeakersInv => /\ Speakers!TypeOK /\ Speakers!OneClient
                   /\ Speakers!BusFollows /\ Speakers!StatusTrue
<1> SUFFICES ASSUME SpeakersInv
             PROVE  /\ Speakers!TypeOK /\ Speakers!OneClient
                    /\ Speakers!BusFollows /\ Speakers!StatusTrue
  OBVIOUS
<1>1. Speakers!TypeOK
  BY DEF SpeakersInv, SpeakerTypes, ShownSoon, Clients, Statuses, BusJobs, Speakers!TypeOK
<1>2. Speakers!OneClient
  <2> DEFINE stopping == {j \in Requests : busJob[j].step \in {"stop", "left"}}
  <2>1. stopping = {} \/ (client = None /\ \E j \in Requests : stopping = {j})
    <3>1. stopping = {j \in Requests : Stopping(j)}
      BY DEF SpeakersInv, SpeakerTypes, BusJobs, Stopping
    <3>2. ASSUME NEW j \in Requests, Stopping(j) PROVE client = None /\ stopping = {j}
      BY <3>1, <3>2 DEF SpeakersInv, OneStops
    <3> QED  BY <3>1, <3>2
  <2>2. \/ Cardinality(stopping) = 0
        \/ client = None /\ Cardinality(stopping) = 1
    BY <2>1, FS_EmptySet, FS_Singleton
  <2> HIDE DEF stopping
  <2>3. Cardinality(stopping) + (IF client = None THEN 0 ELSE 1) <= 1
    BY <2>2
  <2> QED  BY <2>3, SpeakersCount DEF Speakers!OneClient, stopping, SpeakersInv, SpeakerTypes
<1>3. Speakers!BusFollows
  BY DEF SpeakersInv, FollowsSoon, Follows, Speakers!BusFollows
<1>4. Speakers!StatusTrue
  BY DEF SpeakersInv, ShownSoon, Linked, Speakers!StatusTrue, Speakers!Linked
<1> QED  BY <1>1, <1>2, <1>3, <1>4

-----------------------------------------------------------------------------
(* The prayer calls (Athan). *)

Dates == Athan!Keys
AthanTimers == [key : Dates, due : Nat, at : Nat]
AthanJobs == [step : {"idle", "set", "wait", "zone"}, want : Places \cup {None}]

AthanTypes ==
    /\ now \in 0 .. MaxTime /\ hourly \in Nat
    /\ {config, schedule} \subseteq Places \cup {None} /\ {up, bus} \subseteq BOOLEAN
    /\ athanTimers \subseteq AthanTimers /\ fired \subseteq Dates /\ hushed \subseteq Dates
    /\ plays \in [Dates -> Nat]
    /\ athanJob \in [Requests -> AthanJobs]
    /\ since \in {None} \cup (0 .. now)

(* The timers are those of the schedule, and fire while their prayer is in its grace. *)
TimersKept ==
    \A t \in athanTimers : /\ schedule # None /\ t.due = Athan!When(schedule, t.key)
                           /\ t.at <= t.due + Grace

(* What is fired was played once or settled. *)
Played(k) == plays[k] > 0 \/ k \in hushed
FiredKept ==
    /\ \A k \in Dates : plays[k] <= 1 /\ (plays[k] = 1 => k \in fired)
    /\ \A k \in fired : Played(k)

Asleep ==
    ~up => ~bus /\ schedule = None /\ since = None /\ \A j \in Requests : athanJob[j].step = "idle"

(* The hourly timer is not after the next minute 1. *)
HourlyKept == up => \A t \in Nat : t > now /\ t % Hour = 1 => hourly <= t

Timed(k) == \E t \in athanTimers : t.key = k
Over(p, k) == Athan!When(p, k) + Grace
Todays(p) == {k \in Dates : Athan!Ahead(p, k) /\ k[1] = Athan!Today(p)}
Midnight(p) == Athan!Today(p) * Day - Zone[p]

(* The schedule is made anew, or will be within a tick of midnight. *)
Remade(p) == Athan!Waiting \/ hourly <= Midnight(p) + 1

(* What of today can still be played has a timer, unless the day turned since *)
(* the schedule was made.                                                     *)
Planned(p) ==
    \/ \A k \in Todays(p) : now < Over(p, k) => Played(k) \/ Timed(k)
    \/ Remade(p)

ScheduleKept == up => \A p \in Places : schedule = p => Planned(p)

(* Since the timers are the configuration's and bus and host are there, nothing *)
(* of today is missed; after midnight nothing is over before the next schedule. *)
NoneMissed(p) ==
    \/ \A k \in Todays(p) :
         since < Over(p, k) => Played(k) \/ (now <= Over(p, k) /\ Timed(k))
    \/ Remade(p) /\ (now <= Midnight(p) + 1 \/ now = since)

SinceKept ==
    since # None =>
        /\ up /\ bus /\ schedule = config
        /\ \A p \in Places : config = p => NoneMissed(p)

AthanInv ==
    /\ AthanTypes /\ TimersKept /\ FiredKept /\ Asleep /\ HourlyKept /\ ScheduleKept /\ SinceKept

-----------------------------------------------------------------------------
(* Hours and days. *)

LEMMA Division ==
    ASSUME NEW h \in Nat, h >= 1, NEW a \in Nat
    PROVE  /\ a = (a \div h) * h + (a % h)
           /\ a % h \in 0 .. h - 1 /\ a \div h \in Nat
           /\ (a \div h) * h <= a /\ a < (a \div h) * h + h
OBVIOUS

LEMMA DivisionGrows ==
    ASSUME NEW h \in Nat, h >= 1, NEW a \in Nat, NEW b \in Nat, a <= b
    PROVE  a \div h <= b \div h
OBVIOUS

LEMMA Residue ==
    ASSUME NEW h \in Nat, h >= 1, NEW q \in Int, NEW r \in 0 .. h - 1
    PROVE  (q * h + r) % h = r
OBVIOUS

LEMMA WholeHours ==
    ASSUME NEW h \in Nat, h >= 1, NEW a \in Nat, a % h = 0
    PROVE  \E m \in Nat : a = m * h
<1> DEFINE m == a \div h
<1>1. a = m * h + (a % h) /\ m \in Nat
  BY Division
<1> HIDE DEF m
<1>2. m * h + 0 = m * h
  BY <1>1
<1>3. a = m * h + 0
  BY <1>1
<1>4. a = m * h
  BY <1>2, <1>3
<1> QED  BY <1>1, <1>4

LEMMA Product ==
    ASSUME NEW h \in Nat, NEW q \in Nat, NEW d \in Nat, NEW z \in Nat
    PROVE  q * (d * h) - z * h = (q * d - z) * h /\ q * d - z \in Int
OBVIOUS

LEMMA DayLater ==
    ASSUME NEW h \in Nat, h >= 1, NEW a \in Nat
    PROVE  (a + h) \div h = a \div h + 1
OBVIOUS

(* Two ticks less than an hour apart are at different minutes. *)
LEMMA SameResidue ==
    ASSUME NEW h \in Nat, h >= 1, NEW a \in Nat, NEW b \in Nat,
           a % h = b % h, a <= b, b < a + h
    PROVE  a = b
<1> DEFINE m == a \div h
           n == b \div h
           r == a % h
<1>1. /\ a = m * h + r /\ b = n * h + r
      /\ m \in Nat /\ n \in Nat /\ r \in Nat
  BY Division
<1>2. m <= n
  BY DivisionGrows
<1> HIDE DEF m, n, r
<1>3. n >= m + 1 => n * h >= m * h + h
  <2> SUFFICES ASSUME n >= m + 1 PROVE n * h >= m * h + h
    OBVIOUS
  <2>1. PICK d \in Nat : n = m + 1 + d
    BY <1>1, n - m - 1 \in Nat, n = m + 1 + (n - m - 1)
  <2>2. n * h = m * h + h + d * h
    BY <2>1, <1>1
  <2>3. d * h \in Nat
    OBVIOUS
  <2> QED  BY <2>2, <2>3, <1>1
<1>4. m * h \in Nat /\ n * h \in Nat
  BY <1>1
<1>5. m = n
  BY <1>1, <1>2, <1>3, <1>4
<1> QED  BY <1>1, <1>5

(* Minute 1 comes once an hour. *)
LEMMA NextMinuteOne ==
    ASSUME now \in Nat
    PROVE  /\ Athan!NextHour \in Nat /\ now < Athan!NextHour
           /\ Athan!NextHour % Hour = 1
           /\ \A t \in Nat : t > now /\ t % Hour = 1 => Athan!NextHour <= t
<1>0. Hour \in Nat /\ Hour >= 1 /\ Hour >= 2
  BY AthanAssumption
<1>1. \E t \in (now + 1) .. (now + Hour) : t % Hour = 1
  <2> DEFINE q == now \div Hour
             r == now % Hour
  <2>1. now = q * Hour + r /\ r \in 0 .. Hour - 1 /\ q \in Nat
    BY <1>0, Division
  <2>2. (q * Hour + 1) % Hour = 1 /\ ((q + 1) * Hour + 1) % Hour = 1
    BY <1>0, <2>1, Residue, 1 \in 0 .. Hour - 1, q \in Int, q + 1 \in Int
  <2>3. (q + 1) * Hour = q * Hour + Hour /\ q * Hour \in Nat
    BY <1>0, <2>1
  <2> HIDE DEF q, r
  <2>4. CASE r = 0
    BY <2>1, <2>2, <2>3, <2>4, <1>0, q * Hour + 1 \in (now + 1) .. (now + Hour)
  <2>5. CASE r > 0
    BY <2>1, <2>2, <2>3, <2>5, <1>0, (q + 1) * Hour + 1 \in (now + 1) .. (now + Hour)
  <2> QED  BY <2>1, <2>4, <2>5
<1>2. Athan!NextHour \in (now + 1) .. (now + Hour) /\ Athan!NextHour % Hour = 1
  BY <1>1 DEF Athan!NextHour
<1>3. ASSUME NEW t \in Nat, t > now, t % Hour = 1 PROVE Athan!NextHour <= t
  <2> SUFFICES ASSUME t < Athan!NextHour PROVE FALSE
    BY <1>2, <1>3
  <2>1. t = Athan!NextHour
    BY <1>0, <1>2, <1>3, SameResidue, Athan!NextHour \in Nat, t <= Athan!NextHour,
       Athan!NextHour < t + Hour, t % Hour = Athan!NextHour % Hour
  <2> QED  BY <2>1
<1> QED  BY <1>2, <1>3

(* The day of a place. *)
LEMMA DayAt ==
    ASSUME NEW n \in 0 .. MaxTime, NEW p \in Places, NEW q, q = (n + Zone[p]) \div Day,
           NEW m, m = q * Day - Zone[p]
    PROVE  /\ q \in Nat /\ q <= (MaxTime + Hour) \div Day + 1
           /\ m \in Int /\ m <= n /\ n < m + Day
           /\ m \in Nat => (m + 1) % Hour = 1
<1>1. /\ Hour \in Nat /\ Hour >= 1 /\ Hour >= 2
      /\ Day \in Nat /\ Day >= 1 /\ Day % Hour = 0 /\ MaxTime \in Nat
      /\ Zone[p] \in Nat /\ Zone[p] < Day /\ Zone[p] % Hour = 0
  BY AthanAssumption
<1>2. q \in Nat /\ q * Day <= n + Zone[p] /\ n + Zone[p] < q * Day + Day
  <2> DEFINE a == n + Zone[p]
  <2>1. a \in Nat
    BY <1>1
  <2>2. q = a \div Day
    OBVIOUS
  <2> HIDE DEF a
  <2>3. q \in Nat /\ q * Day <= a /\ a < q * Day + Day
    BY <1>1, <2>1, <2>2, Division
  <2> QED  BY <2>3 DEF a
<1>3. q <= (MaxTime + Hour) \div Day + 1
  <2>1. q <= (MaxTime + Hour + Day) \div Day
    <3>1. /\ n + Zone[p] \in Nat /\ MaxTime + Hour + Day \in Nat
          /\ n + Zone[p] <= MaxTime + Hour + Day
      BY <1>1
    <3> QED  BY <1>1, <3>1, DivisionGrows
  <2>2. (MaxTime + Hour + Day) \div Day = (MaxTime + Hour) \div Day + 1
    BY <1>1, DayLater, MaxTime + Hour \in Nat
  <2> QED  BY <2>1, <2>2
<1>4. m \in Int /\ m <= n /\ n < m + Day
  <2>1. q * Day \in Nat
    BY <1>1, <1>2
  <2> QED  BY <1>1, <1>2, <2>1
<1>5. m \in Nat => (m + 1) % Hour = 1
  <2>1. PICK d \in Nat : Day = d * Hour
    BY <1>1, WholeHours
  <2>2. PICK z \in Nat : Zone[p] = z * Hour
    BY <1>1, WholeHours
  <2>3. m = q * (d * Hour) - z * Hour
    BY <2>1, <2>2
  <2>4. m = (q * d - z) * Hour /\ q * d - z \in Int
    BY <1>1, <1>2, <2>3, Product
  <2> QED  BY <1>1, <2>4, Residue, 1 \in 0 .. Hour - 1
<1> QED  BY <1>2, <1>3, <1>4, <1>5

LEMMA DayTyped ==
    ASSUME now \in 0 .. MaxTime, NEW p \in Places
    PROVE  /\ Athan!Today(p) \in Nat
           /\ Athan!Today(p) <= (MaxTime + Hour) \div Day + 1
           /\ Midnight(p) \in Int /\ Midnight(p) <= now
BY DayAt DEF Athan!Today, Midnight

(* When the day turns, the midnight is new. *)
LEMMA DayTurns ==
    ASSUME now \in 0 .. MaxTime, now' \in 0 .. MaxTime, now <= now', NEW p \in Places,
           Athan!Today(p)' # Athan!Today(p)
    PROVE  /\ Midnight(p)' \in Nat /\ now < Midnight(p)' /\ Midnight(p)' <= now'
           /\ (Midnight(p)' + 1) % Hour = 1
<1>1. /\ Zone[p] \in Nat /\ Day \in Nat /\ Day >= 1
      /\ now \in Nat /\ now' \in Nat
  BY AthanAssumption
<1> DEFINE a == (now + Zone[p]) \div Day
           b == (now' + Zone[p]) \div Day
           m == a * Day - Zone[p]
           n == b * Day - Zone[p]
<1>2. /\ a \in Nat /\ m \in Int /\ now < m + Day
      /\ b \in Nat /\ n \in Int /\ n <= now' /\ (n \in Nat => (n + 1) % Hour = 1)
  BY DayAt
<1>3. a <= b
  BY <1>1, DivisionGrows, now + Zone[p] \in Nat, now' + Zone[p] \in Nat
<1>4. a # b /\ Midnight(p)' = n
  BY DEF Athan!Today, Midnight
<1> HIDE DEF a, b
<1>5. b * Day >= a * Day + Day
  <2>1. PICK d \in Nat : b = a + 1 + d
    BY <1>2, <1>3, <1>4, b - a - 1 \in Nat, b = a + 1 + (b - a - 1)
  <2>2. b * Day = a * Day + Day + d * Day /\ d * Day \in Nat
    BY <2>1, <1>1, <1>2
  <2> QED  BY <2>2, <1>1, <1>2
<1>6. a * Day \in Nat /\ b * Day \in Nat
  BY <1>1, <1>2
<1>7. now < n /\ n \in Nat
  BY <1>1, <1>2, <1>5, <1>6
<1> QED  BY <1>2, <1>4, <1>7

-----------------------------------------------------------------------------
(* The steps of the prayer calls. *)

(* A prayer of the day is not before its midnight. *)
LEMMA PrayerTimed ==
    ASSUME now \in 0 .. MaxTime, NEW p \in Places, NEW k \in Dates,
           Athan!Ahead(p, k), k[1] = Athan!Today(p)
    PROVE  /\ Athan!When(p, k) \in Nat /\ Over(p, k) \in Nat
           /\ Over(p, k) = Athan!When(p, k) + Grace
           /\ Midnight(p) <= Athan!When(p, k) /\ Midnight(p) + 1 <= Over(p, k)
<1>1. /\ Day \in Nat /\ Grace \in Nat /\ Grace >= 1
      /\ Zone[p] \in Nat /\ Athan!Today(p) \in Nat
      /\ Clock[p][k[2]] \in Nat
  BY AthanAssumption, DayTyped DEF Dates, Athan!Keys
<1> DEFINE start == Athan!Today(p) * Day
<1>2. start \in Nat
  BY <1>1
<1>3. /\ Athan!When(p, k) = start + Clock[p][k[2]] - Zone[p]
      /\ start + Clock[p][k[2]] >= Zone[p]
      /\ Midnight(p) = start - Zone[p]
  BY <1>1, <1>2 DEF Athan!When, Athan!Ahead, Midnight
<1> HIDE DEF start
<1> QED  BY <1>1, <1>2, <1>3 DEF Over

LEMMA AthanInit == Athan!Init => AthanInv
<1> SUFFICES ASSUME Athan!Init PROVE AthanInv
  OBVIOUS
<1>1. \A j \in Requests : athanJob[j].step = "idle"
  BY DEF Athan!Init
<1>2. AthanTypes
  <2>1. athanJob \in [Requests -> AthanJobs] /\ plays \in [Dates -> Nat]
    BY DEF Athan!Init, AthanJobs, Dates, Athan!Never
  <2>2. {up, bus} \subseteq BOOLEAN
    BY DEF Athan!Init
  <2>3. now \in 0 .. MaxTime /\ hourly \in Nat /\ since \in {None} \cup (0 .. now)
    BY AthanAssumption DEF Athan!Init
  <2> QED  BY <2>1, <2>2, <2>3 DEF Athan!Init, AthanTypes
<1>3. \A k \in Dates : plays[k] = 0
  BY DEF Athan!Init, Athan!Never, Dates
<1> QED
  BY <1>1, <1>2, <1>3 DEF Athan!Init, AthanInv, TimersKept, FiredKept, Asleep, HourlyKept, ScheduleKept,
     SinceKept

LEMMA JobGoes ==
    ASSUME AthanTypes, NEW j \in Requests, NEW step \in {"idle", "set", "wait", "zone"},
           NEW want \in Places \cup {None}, Athan!Goes(j, step, want)
    PROVE  /\ athanJob' \in [Requests -> AthanJobs]
           /\ athanJob'[j].step = step
           /\ \A i \in Requests : i # j => athanJob'[i] = athanJob[i]
BY DEF AthanTypes, AthanJobs, Athan!Goes

(* A step of a request, or of the hour, that leaves the timers as they are. *)
LEMMA RequestMoves ==
    ASSUME AthanInv,
           UNCHANGED <<now, up, bus, schedule, athanTimers, fired, plays, hushed>>,
           config' \in Places \cup {None}, athanJob' \in [Requests -> AthanJobs],
           up \/ UNCHANGED athanJob,
           Athan!Waiting => Athan!Waiting',
           UNCHANGED hourly \/ (hourly' \in Nat /\ HourlyKept' /\ Athan!Waiting'),
           UNCHANGED <<config, since>> \/ since' = None
    PROVE  AthanInv'
<1>1. AthanTypes' /\ TimersKept' /\ FiredKept' /\ Asleep' /\ HourlyKept'
  BY DEF AthanInv, AthanTypes, TimersKept, FiredKept, Asleep, HourlyKept, Played, Athan!When
<1>2. \A p, k : Over(p, k)' = Over(p, k) /\ (Played(k)' <=> Played(k)) /\ (Timed(k)' <=> Timed(k))
  BY DEF Played, Timed, Over, Athan!When
<1>3. \A p : Todays(p)' = Todays(p) /\ (Remade(p) => Remade(p)')
  BY DEF Todays, Remade, Midnight, Athan!Ahead, Athan!Today
<1>4. ScheduleKept'
  BY <1>2, <1>3 DEF AthanInv, ScheduleKept, Planned
<1>5. SinceKept'
  <2> SUFFICES ASSUME since' # None, UNCHANGED <<config, since>> PROVE SinceKept'
    BY DEF SinceKept
  <2>1. \A p : Midnight(p)' = Midnight(p)
    BY DEF Midnight, Athan!Today
  <2> QED  BY <1>2, <1>3, <2>1 DEF AthanInv, SinceKept, NoneMissed
<1> QED  BY <1>1, <1>4, <1>5 DEF AthanInv

LEMMA RequestSteps ==
    ASSUME AthanInv, NEW j \in Requests,
           \/ \E c \in Places \cup {None} : Athan!Put(j, c)
           \/ Athan!Relay(j) \/ Athan!Quit(j) \/ Athan!Recompute(j) \/ Athan!Resolve(j)
    PROVE  AthanInv'
<1>0. AthanTypes /\ (~up => athanJob[j].step = "idle")
  BY DEF AthanInv, Asleep
<1>1. ASSUME NEW c \in Places \cup {None}, Athan!Put(j, c) PROVE AthanInv'
  <2>1. /\ athanJob' \in [Requests -> AthanJobs]
        /\ \A i \in Requests : i # j => athanJob'[i] = athanJob[i]
    BY <1>0, <1>1, JobGoes DEF Athan!Put
  <2>2. Athan!Waiting => Athan!Waiting'
    BY <1>1, <2>1 DEF Athan!Put, Athan!At, Athan!Waiting
  <2> QED
    BY <1>1, <2>1, <2>2, RequestMoves DEF Athan!Put, Athan!clock, Athan!made, Athan!history
<1>2. ASSUME Athan!Relay(j) \/ Athan!Resolve(j) \/ Athan!Recompute(j) PROVE AthanInv'
  <2>1. /\ athanJob' \in [Requests -> AthanJobs]
        /\ athanJob'[j].step \in {"wait", "zone"}
    BY <1>0, <1>2, JobGoes DEF Athan!Relay, Athan!Resolve, Athan!Recompute, AthanTypes
  <2>2. Athan!Waiting'
    BY <2>1 DEF Athan!Waiting
  <2>3. Athan!Recompute(j) => hourly' \in Nat /\ HourlyKept'
    BY <1>0, NextMinuteOne DEF Athan!Recompute, HourlyKept, AthanTypes
  <2> QED
    BY <1>0, <1>2, <2>1, <2>2, <2>3, RequestMoves DEF Athan!Relay, Athan!Resolve, Athan!Recompute,
       Athan!At, Athan!clock, Athan!made, Athan!history, AthanTypes
<1>3. ASSUME Athan!Quit(j) PROVE AthanInv'
  <2>1. /\ athanJob' \in [Requests -> AthanJobs]
        /\ \A i \in Requests : i # j => athanJob'[i] = athanJob[i]
    BY <1>0, <1>3, JobGoes DEF Athan!Quit, Athan!Ends
  <2>2. Athan!Waiting => Athan!Waiting'
    BY <1>3, <2>1 DEF Athan!Quit, Athan!At, Athan!Waiting
  <2> QED
    BY <1>0, <1>3, <2>1, <2>2, RequestMoves DEF Athan!Quit, Athan!At, Athan!clock, Athan!made,
       Athan!history, AthanTypes
<1> QED  BY <1>1, <1>2, <1>3

(* The link. *)
LEMMA LinkMoves ==
    ASSUME AthanInv, Athan!Connect \/ Athan!Disconnect
    PROVE  AthanInv'
<1>1. /\ UNCHANGED <<now, hourly, config, up, schedule, athanTimers, fired, athanJob, plays, hushed>>
      /\ up
  BY DEF Athan!Connect, Athan!Disconnect, Athan!clock, Athan!made, Athan!history, AthanInv, Asleep,
     AthanTypes
<1>2. since' = None \/ (bus' /\ since' = now /\ schedule = config)
  BY DEF Athan!Connect, Athan!Disconnect
<1>3. AthanTypes'
  <2>1. {up', bus'} \subseteq BOOLEAN
    <3>1. bus' = TRUE \/ bus' = FALSE
      BY DEF Athan!Connect, Athan!Disconnect
    <3> QED  BY <1>1, <3>1 DEF AthanInv, AthanTypes
  <2>2. since' \in {None} \cup (0 .. now')
    BY <1>1, <1>2 DEF AthanInv, AthanTypes
  <2> QED  BY <1>1, <2>1, <2>2 DEF AthanInv, AthanTypes
<1>4. TimersKept' /\ FiredKept' /\ Asleep' /\ HourlyKept'
  BY <1>1 DEF AthanInv, TimersKept, FiredKept, Asleep, HourlyKept, Played, Athan!When
<1>5. \A p, k : Over(p, k)' = Over(p, k) /\ (Played(k)' <=> Played(k)) /\ (Timed(k)' <=> Timed(k))
  BY <1>1 DEF Played, Timed, Over, Athan!When
<1>6. \A p : /\ Todays(p)' = Todays(p) /\ Midnight(p)' = Midnight(p)
             /\ Remade(p)' <=> Remade(p)
  BY <1>1 DEF Todays, Remade, Midnight, Athan!Ahead, Athan!Today, Athan!Waiting
<1>7. ScheduleKept'
  BY <1>1, <1>5, <1>6 DEF AthanInv, ScheduleKept, Planned
<1>8. SinceKept'
  <2> SUFFICES ASSUME since' # None, NEW p \in Places, p = config' PROVE NoneMissed(p)'
    BY <1>1, <1>2 DEF SinceKept
  <2>1. \/ \A k \in Todays(p) : now < Over(p, k) => Played(k) \/ (now <= Over(p, k) /\ Timed(k))
        \/ Remade(p)
    BY <1>1, <1>2, PrayerTimed DEF AthanInv, AthanTypes, ScheduleKept, Planned, Todays
  <2> QED  BY <1>1, <1>2, <1>5, <1>6, <2>1 DEF NoneMissed
<1> QED  BY <1>3, <1>4, <1>7, <1>8 DEF AthanInv

(* The hub stops, or starts. *)
LEMMA AthanStops ==
    ASSUME AthanInv, Athan!Stop
    PROVE  AthanInv'
<1>1. /\ UNCHANGED <<now, hourly, config>> /\ up' = FALSE /\ bus' = FALSE
      /\ schedule' = None /\ athanTimers' = {} /\ fired' = {} /\ hushed' = {} /\ since' = None
      /\ plays' = Athan!Never
      /\ athanJob' = [j \in Requests |-> [step |-> "idle", want |-> None]]
  BY DEF Athan!Stop, Athan!clock
<1>2. AthanTypes'
  <2>1. athanJob' \in [Requests -> AthanJobs] /\ plays' \in [Dates -> Nat]
    BY <1>1 DEF AthanJobs, Dates, Athan!Never
  <2>2. {up', bus'} \subseteq BOOLEAN
    BY <1>1
  <2> QED  BY <1>1, <2>1, <2>2 DEF AthanInv, AthanTypes
<1>3. \A k \in Dates : plays'[k] = 0
  BY <1>1 DEF Athan!Never, Dates
<1>4. \A j \in Requests : athanJob'[j].step = "idle"
  BY <1>1
<1> QED
  BY <1>1, <1>2, <1>3, <1>4 DEF AthanInv, TimersKept, FiredKept, Asleep, HourlyKept, ScheduleKept,
     SinceKept

LEMMA AthanStarts ==
    ASSUME AthanInv, NEW j \in Requests, Athan!Start(j)
    PROVE  AthanInv'
<1>1. /\ UNCHANGED <<now, config, bus, schedule, athanTimers, fired, plays, hushed, since>>
      /\ ~up /\ up' = TRUE /\ hourly' = Athan!NextHour
  BY DEF Athan!Start, Athan!made, Athan!history
<1>2. athanJob' \in [Requests -> AthanJobs]
  BY JobGoes DEF Athan!Start, AthanInv
<1>3. hourly' \in Nat /\ HourlyKept'
  BY <1>1, NextMinuteOne DEF HourlyKept, AthanInv, AthanTypes
<1>4. AthanTypes'
  <2>1. {up', bus'} \subseteq BOOLEAN
    BY <1>1 DEF AthanInv, AthanTypes
  <2> QED  BY <1>1, <1>2, <1>3, <2>1 DEF AthanInv, AthanTypes
<1> QED
  BY <1>1, <1>3, <1>4, AthanAssumption DEF AthanInv, TimersKept, FiredKept, Played, Asleep, ScheduleKept, SinceKept,
     Athan!When

(* Time passes: on the same day nothing of today changes, and after midnight *)
(* the hour's timer is near.                                                 *)
LEMMA TimePasses ==
    ASSUME AthanInv, up, now' \in 0 .. MaxTime, now < now', NEW p \in Places
    PROVE  \/ Todays(p)' = Todays(p) /\ Midnight(p)' = Midnight(p)
           \/ /\ now < Midnight(p)' /\ Midnight(p)' <= now' /\ Midnight(p)' \in Nat
              /\ hourly <= Midnight(p)' + 1
<1>1. now \in 0 .. MaxTime /\ now \in Nat /\ now' \in Nat
  BY AthanAssumption DEF AthanInv, AthanTypes
<1>2. CASE Athan!Today(p)' = Athan!Today(p)
  BY <1>2 DEF Todays, Midnight, Athan!Ahead, Athan!Today
<1>3. CASE Athan!Today(p)' # Athan!Today(p)
  <2>1. /\ Midnight(p)' \in Nat /\ now < Midnight(p)' /\ Midnight(p)' <= now'
        /\ (Midnight(p)' + 1) % Hour = 1
    BY <1>1, <1>3, DayTurns
  <2>2. hourly <= Midnight(p)' + 1
    BY <1>1, <2>1 DEF AthanInv, HourlyKept
  <2> QED  BY <2>1, <2>2
<1> QED  BY <1>2, <1>3

LEMMA TimeStep ==
    ASSUME AthanInv, Athan!Tick \/ Athan!Sleep
    PROVE  AthanInv'
<1>1. /\ UNCHANGED <<hourly, config, up, bus, schedule, athanTimers, fired, athanJob, plays, hushed>>
      /\ now \in Nat /\ now' \in 0 .. MaxTime /\ now < now'
      /\ since' = since \/ since' = None
  BY AthanAssumption DEF Athan!Tick, Athan!Sleep, Athan!made, Athan!history, AthanInv, AthanTypes
<1>2. AthanTypes' /\ TimersKept' /\ FiredKept' /\ Asleep' /\ HourlyKept'
  <2>1. AthanTypes'
    BY <1>1 DEF AthanInv, AthanTypes
  <2> QED
    BY <1>1, <2>1 DEF AthanInv, TimersKept, FiredKept, Asleep, HourlyKept, Played, Athan!When
<1>3. \A k : /\ (Played(k)' <=> Played(k)) /\ (Timed(k)' <=> Timed(k))
             /\ \A p : Over(p, k)' = Over(p, k)
  BY <1>1 DEF Played, Timed, Over, Athan!When
<1>4. Athan!Waiting' <=> Athan!Waiting
  BY <1>1 DEF Athan!Waiting
<1>5. ASSUME NEW p \in Places PROVE \A k \in Todays(p) : Over(p, k) \in Nat
  BY PrayerTimed DEF AthanInv, AthanTypes, Todays
<1>6. ScheduleKept'
  <2> SUFFICES ASSUME up, NEW p \in Places, p = schedule PROVE Planned(p)'
    BY <1>1 DEF ScheduleKept
  <2>1. CASE Todays(p)' = Todays(p) /\ Midnight(p)' = Midnight(p)
    <3>1. \/ \A k \in Todays(p) : now' < Over(p, k) => Played(k) \/ Timed(k)
          \/ Remade(p)
      BY <1>1, <1>5 DEF AthanInv, ScheduleKept, Planned
    <3> QED  BY <1>1, <1>3, <1>4, <2>1, <3>1 DEF Planned, Remade
  <2>2. CASE hourly <= Midnight(p)' + 1
    BY <1>1, <2>2 DEF Planned, Remade
  <2> QED  BY <1>1, <2>1, <2>2, TimePasses
<1>7. SinceKept'
  <2> SUFFICES ASSUME since' # None PROVE SinceKept'
    BY DEF SinceKept
  <2>1. /\ since' = since /\ up /\ bus /\ schedule = config
        /\ Athan!Tick /\ now' = now + 1 /\ ~Athan!Waiting
        /\ hourly \in Nat /\ now + 1 <= hourly
    BY <1>1 DEF Athan!Tick, Athan!Sleep, AthanInv, AthanTypes, SinceKept
  <2> SUFFICES ASSUME NEW p \in Places, p = config PROVE NoneMissed(p)'
    BY <1>1, <2>1 DEF SinceKept
  <2>2. NoneMissed(p)
    BY <2>1 DEF AthanInv, SinceKept
  <2>3. CASE Todays(p)' = Todays(p) /\ Midnight(p)' = Midnight(p)
    <3>1. CASE Remade(p)
      <4>1. Midnight(p) \in Int
        BY DayTyped DEF AthanInv, AthanTypes
      <4> QED  BY <1>1, <2>1, <2>3, <3>1, <4>1 DEF NoneMissed, Remade
    <3>2. ASSUME NEW k \in Todays(p), now <= Over(p, k), Timed(k) PROVE now' <= Over(p, k)
      <4>1. PICK t \in athanTimers : t.key = k
        BY <3>2 DEF Timed
      <4>2. /\ t.at \in Nat /\ t.at <= Over(p, k)
            /\ t.at > now
        BY <1>1, <2>1, <4>1
           DEF AthanInv, AthanTypes, AthanTimers, TimersKept, Over, Athan!Tick, Athan!Due
      <4> QED  BY <1>1, <1>5, <2>1, <4>2
    <3> QED  BY <1>1, <1>3, <2>1, <2>2, <2>3, <3>1, <3>2 DEF NoneMissed
  <2>4. CASE /\ now < Midnight(p)' /\ Midnight(p)' <= now' /\ Midnight(p)' \in Nat
             /\ hourly <= Midnight(p)' + 1
    BY <1>1, <2>1, <2>4 DEF NoneMissed, Remade
  <2> QED  BY <1>1, <2>1, <2>3, <2>4, TimePasses
<1> QED  BY <1>2, <1>6, <1>7 DEF AthanInv

(* What a timer that fires leaves of the other timers, and of its prayer. *)
LEMMA FireLeaves ==
    ASSUME AthanInv, NEW t \in athanTimers, NEW gone \in BOOLEAN, Athan!Fire(t, gone)
    PROVE  /\ AthanTypes' /\ TimersKept' /\ FiredKept'
           /\ \A k \in Dates : Played(k) => Played(k)'
           /\ \A k \in Dates : Timed(k) =>
                Timed(k)' \/ Played(k)' \/ (schedule # None /\ now >= Over(schedule, k)
                                            /\ (bus => now > Over(schedule, k)))
<1> DEFINE kt == t.key
           end == t.due + Grace
<1>1. /\ UNCHANGED <<now, hourly, config, up, bus, schedule, athanJob, since>>
      /\ up /\ t.at <= now
  BY DEF Athan!Fire, Athan!clock, Athan!Due
<1>2. /\ t \in AthanTimers /\ kt \in Dates /\ end \in Nat /\ now \in Nat
      /\ schedule # None /\ end = Over(schedule, kt)
      /\ plays \in [Dates -> Nat] /\ plays[kt] \in Nat
  BY AthanAssumption DEF AthanInv, AthanTypes, AthanTimers, TimersKept, Over
<1>3. AthanTypes
  BY DEF AthanInv
<1> HIDE DEF kt, end
<1>4. CASE /\ kt \in fired \/ ~(now <= end)
           /\ athanTimers' = athanTimers \ {t} /\ UNCHANGED <<fired, plays, hushed>>
  <2>1. AthanTypes' /\ TimersKept' /\ FiredKept'
    BY <1>1, <1>4 DEF AthanInv, AthanTypes, TimersKept, FiredKept, Played, Athan!When
  <2>2. \A k : Played(k)' <=> Played(k)
    BY <1>4 DEF Played
  <2>3. \A k : Timed(k) /\ k # kt => Timed(k)'
    BY <1>4 DEF Timed, kt
  <2>4. Played(kt) \/ now > end
    BY <1>2, <1>4 DEF AthanInv, FiredKept
  <2> QED  BY <1>2, <2>1, <2>2, <2>3, <2>4
<1>5. CASE /\ kt \notin fired /\ athanTimers' = athanTimers \ {t} /\ fired' = fired \cup {kt}
           /\ \/ hushed' = hushed \cup {kt} /\ UNCHANGED plays
              \/ plays' = [plays EXCEPT ![kt] = @ + 1] /\ UNCHANGED hushed
  <2>1. /\ plays' \in [Dates -> Nat] /\ plays'[kt] \in Nat
        /\ \A k \in Dates : k # kt => plays'[k] = plays[k]
        /\ plays'[kt] = plays[kt] \/ plays'[kt] = plays[kt] + 1
    BY <1>2, <1>5
  <2>2. plays[kt] = 0
    BY <1>2, <1>5 DEF AthanInv, FiredKept
  <2>3. Played(kt)' /\ \A k \in Dates : Played(k) => Played(k)'
    BY <1>2, <1>5, <2>1, <2>2 DEF Played
  <2>4. AthanTypes' /\ TimersKept'
    BY <1>1, <1>2, <1>5, <2>1 DEF AthanInv, AthanTypes, TimersKept, Athan!When
  <2>5. FiredKept'
    BY <1>2, <1>5, <2>1, <2>2, <2>3 DEF AthanInv, AthanTypes, FiredKept
  <2>6. \A k : Timed(k) /\ k # kt => Timed(k)'
    BY <1>5 DEF Timed, kt
  <2> QED  BY <1>2, <2>3, <2>4, <2>5, <2>6
<1>6. CASE ~bus /\ Athan!Refused(t) /\ UNCHANGED <<fired, plays, hushed>>
  <2> DEFINE later == [t EXCEPT !.at = now + 1]
  <2>1. later \in AthanTimers /\ later.key = kt /\ later.due = t.due /\ later.at = now + 1
    BY <1>2 DEF AthanTimers, kt
  <2> HIDE DEF later
  <2>2. \/ now + 1 <= end /\ athanTimers' = (athanTimers \ {t}) \cup {later}
        \/ ~(now + 1 <= end) /\ athanTimers' = athanTimers \ {t}
    BY <1>6 DEF Athan!Refused, end, later
  <2>3. FiredKept' /\ \A k : Played(k)' <=> Played(k)
    BY <1>6 DEF AthanInv, FiredKept, Played
  <2>4. AthanTypes'
    BY <1>1, <1>3, <1>6, <2>1, <2>2 DEF AthanTypes
  <2>5. TimersKept'
    BY <1>1, <1>2, <2>1, <2>2 DEF AthanInv, TimersKept, Athan!When, end, kt
  <2>6. \A k : Timed(k) /\ k # kt => Timed(k)'
    BY <2>2 DEF Timed, kt
  <2>7. Timed(kt)' \/ now >= end
    BY <1>2, <2>1, <2>2 DEF Timed
  <2> QED  BY <1>2, <1>6, <2>3, <2>4, <2>5, <2>6, <2>7
<1> QED
  BY <1>4, <1>5, <1>6 DEF Athan!Fire, Athan!InGrace, Athan!Settled, Athan!Refuses, kt, end

LEMMA FireStep ==
    ASSUME AthanInv, NEW t \in athanTimers, NEW gone \in BOOLEAN, Athan!Fire(t, gone)
    PROVE  AthanInv'
<1>1. UNCHANGED <<now, hourly, config, up, bus, schedule, athanJob, since>> /\ up
  BY DEF Athan!Fire, Athan!clock
<1>2. Asleep' /\ HourlyKept'
  BY <1>1 DEF AthanInv, Asleep, HourlyKept
<1>3. \A p : /\ Todays(p)' = Todays(p) /\ Midnight(p)' = Midnight(p)
             /\ Remade(p)' <=> Remade(p)
             /\ \A k : Over(p, k)' = Over(p, k)
  BY <1>1 DEF Todays, Remade, Midnight, Athan!Ahead, Athan!Today, Athan!Waiting, Over, Athan!When
<1>4. ASSUME NEW p \in Places PROVE \A k \in Todays(p) : k \in Dates /\ Over(p, k) \in Nat
  BY PrayerTimed DEF AthanInv, AthanTypes, Todays
<1>5. now \in Nat
  BY AthanAssumption DEF AthanInv, AthanTypes
<1>6. ScheduleKept'
  <2> SUFFICES ASSUME NEW p \in Places, p = schedule PROVE Planned(p)'
    BY <1>1 DEF ScheduleKept
  <2> QED
    BY <1>1, <1>3, <1>4, <1>5, FireLeaves DEF AthanInv, ScheduleKept, Planned
<1>7. SinceKept'
  <2> SUFFICES ASSUME since # None, NEW p \in Places, p = config PROVE NoneMissed(p)'
    BY <1>1 DEF SinceKept, AthanInv
  <2>1. bus /\ schedule = p /\ NoneMissed(p)
    BY DEF AthanInv, SinceKept
  <2> QED
    BY <1>1, <1>3, <1>4, <1>5, <2>1, FireLeaves DEF NoneMissed
<1> QED  BY <1>2, <1>6, <1>7, FireLeaves DEF AthanInv

(* The timers that are armed for a place, after the look at its day. *)
LEMMA ArmedFor ==
    ASSUME AthanInv, NEW p \in Places, Athan!Armed(p), now' = now, schedule' = p,
           plays' = [k \in Dates |-> IF k[1] # Athan!Today(p) THEN 0 ELSE plays[k]],
           hushed' = {k \in hushed : ~(k[1] # Athan!Today(p))}
    PROVE  /\ athanTimers' \subseteq AthanTimers /\ TimersKept' /\ FiredKept'
           /\ fired' \subseteq Dates /\ hushed' \subseteq Dates /\ plays' \in [Dates -> Nat]
           /\ \A k \in Todays(p) : /\ Played(k) => Played(k)'
                                   /\ now <= Over(p, k) => Played(k)' \/ Timed(k)'
<1> DEFINE day == Athan!Today(p)
           still == {k \in fired : k[1] = day}
           keys == {k \in {day} \X Prayers : Athan!Ahead(p, k) /\ now <= Over(p, k)} \ still
<1>1. fired' = still /\ athanTimers' = {[key |-> k, due |-> Athan!When(p, k), at |-> Athan!When(p, k)] : k \in keys}
  BY DEF Athan!Armed, Athan!InGrace, Over
<1>2. day \in 0 .. (MaxTime + Hour) \div Day + 1 /\ Grace \in Nat
  BY DayTyped, AthanAssumption DEF AthanInv, AthanTypes
<1>3. ASSUME NEW k \in keys PROVE k \in Todays(p) /\ k \in Dates /\ Athan!When(p, k) \in Nat
  <2>1. k \in Dates /\ k[1] = day /\ Athan!Ahead(p, k)
    BY <1>2 DEF Dates, Athan!Keys
  <2> QED  BY <2>1, PrayerTimed DEF AthanInv, AthanTypes, Todays
<1>4. \A k \in Dates : k[1] = day => plays'[k] = plays[k]
  OBVIOUS
<1>5. \A k \in Dates : k[1] # day => plays'[k] = 0
  OBVIOUS
<1>6. \A k \in Dates : k[1] = day => (Played(k)' <=> Played(k))
  BY <1>4 DEF Played
<1>7. \A k \in Todays(p) : k \in Dates /\ k[1] = day
  BY DEF Todays
<1>8. ASSUME NEW k \in Todays(p), now <= Over(p, k) PROVE Played(k)' \/ Timed(k)'
  <2>1. k \in {day} \X Prayers /\ Athan!Ahead(p, k)
    BY DEF Todays, Dates, Athan!Keys
  <2>2. k \in still \/ k \in keys
    BY <1>8, <2>1
  <2>3. k \in still => Played(k)'
    BY <1>6, <1>7 DEF AthanInv, FiredKept
  <2>4. k \in keys => Timed(k)'
    <3> DEFINE t == [key |-> k, due |-> Athan!When(p, k), at |-> Athan!When(p, k)]
    <3>1. k \in keys => t \in athanTimers'
      BY <1>1
    <3> QED  BY <3>1, t.key = k DEF Timed
  <2> QED  BY <2>2, <2>3, <2>4
<1>9. /\ fired' \subseteq Dates /\ hushed' \subseteq Dates /\ plays' \in [Dates -> Nat]
  BY <1>1 DEF AthanInv, AthanTypes
<1> HIDE DEF keys, still, day
<1>10. athanTimers' \subseteq AthanTimers /\ TimersKept'
  <2>1. ASSUME NEW t \in athanTimers'
        PROVE  t \in AthanTimers /\ t.due = Athan!When(p, t.key) /\ t.at <= t.due + Grace
    <3>1. PICK k \in keys : t = [key |-> k, due |-> Athan!When(p, k), at |-> Athan!When(p, k)]
      BY <1>1
    <3> QED  BY <1>2, <1>3, <3>1 DEF AthanTimers
  <2> QED  BY <2>1, AthanAssumption DEF TimersKept, Athan!When
<1>11. FiredKept'
  <2>1. ASSUME NEW k \in Dates PROVE plays'[k] <= 1 /\ (plays'[k] = 1 => k \in fired')
    BY <1>1, <1>4, <1>5 DEF AthanInv, FiredKept, still
  <2>2. ASSUME NEW k \in fired' PROVE Played(k)'
    BY <1>1, <1>6 DEF AthanInv, AthanTypes, FiredKept, still
  <2> QED  BY <2>1, <2>2 DEF FiredKept
<1> QED  BY <1>6, <1>7, <1>8, <1>9, <1>10, <1>11

LEMMA ArmStep ==
    ASSUME AthanInv, NEW j \in Requests, Athan!Arm(j)
    PROVE  AthanInv'
<1>0. PICK p \in Places \cup {None} : p = athanJob[j].want
  BY DEF AthanInv, AthanTypes, AthanJobs
<1>1. /\ UNCHANGED <<now, hourly, config, up, bus>> /\ up /\ schedule' = p
      /\ since' = IF ~bus \/ p # config THEN None ELSE IF since = None THEN now ELSE since
  BY <1>0 DEF Athan!Arm, Athan!At, Athan!clock, AthanInv, Asleep
<1>2. athanJob' \in [Requests -> AthanJobs]
  BY JobGoes DEF Athan!Arm, Athan!Ends, AthanInv
<1>3. since' \in {None} \cup (0 .. now')
  BY <1>1, AthanAssumption DEF AthanInv, AthanTypes
<1>4. Asleep' /\ HourlyKept'
  BY <1>1 DEF AthanInv, Asleep, HourlyKept
<1>5. CASE p = None
  <2>1. /\ athanTimers' = {} /\ fired' = fired
        /\ plays' = [k \in Dates |-> plays[k]] /\ hushed' = hushed
    BY <1>0, <1>5 DEF Athan!Arm, Dates
  <2>2. plays' = plays
    BY <2>1 DEF AthanInv, AthanTypes
  <2>3. AthanTypes' /\ TimersKept' /\ FiredKept'
    BY <1>1, <1>2, <1>3, <1>5, <2>1, <2>2 DEF AthanInv, AthanTypes, TimersKept, FiredKept, Played
  <2>4. ScheduleKept' /\ SinceKept'
    BY <1>1, <1>5, AthanAssumption DEF ScheduleKept, SinceKept, AthanInv, AthanTypes
  <2> QED  BY <1>4, <2>3, <2>4 DEF AthanInv
<1>6. CASE p \in Places
  <2>1. /\ Athan!Armed(p)
        /\ plays' = [k \in Dates |-> IF k[1] # Athan!Today(p) THEN 0 ELSE plays[k]]
        /\ hushed' = {k \in hushed : ~(k[1] # Athan!Today(p))}
    BY <1>0, <1>6, AthanAssumption DEF Athan!Arm, Dates
  <2>2. /\ athanTimers' \subseteq AthanTimers /\ TimersKept' /\ FiredKept'
        /\ fired' \subseteq Dates /\ hushed' \subseteq Dates /\ plays' \in [Dates -> Nat]
        /\ \A k \in Todays(p) : /\ Played(k) => Played(k)'
                                /\ now <= Over(p, k) => Played(k)' \/ Timed(k)'
    BY <1>1, <1>6, <2>1, ArmedFor
  <2>3. AthanTypes'
    BY <1>1, <1>2, <1>3, <2>2 DEF AthanInv, AthanTypes
  <2>4. Todays(p)' = Todays(p)
    BY <1>1 DEF Todays, Athan!Ahead, Athan!Today
  <2>5. \A k : Over(p, k)' = Over(p, k)
    BY DEF Over, Athan!When
  <2>6. now \in Nat /\ Midnight(p) \in Int
        /\ \A k \in Todays(p) : Over(p, k) \in Nat /\ Midnight(p) + 1 <= Over(p, k)
    BY <1>6, AthanAssumption, DayTyped, PrayerTimed DEF AthanInv, AthanTypes, Todays
  <2>7. Planned(p)'
    BY <1>1, <2>2, <2>4, <2>5, <2>6 DEF Planned
  <2>8. ScheduleKept'
    BY <1>1, <2>7 DEF ScheduleKept
  <2>9. SinceKept'
    <3> SUFFICES ASSUME since' # None PROVE NoneMissed(p)' /\ bus /\ p = config
      BY <1>1 DEF SinceKept
    <3>1. bus /\ p = config
      BY <1>1
    <3>2. CASE since = None
      <4>1. since' = now
        BY <1>1, <3>1, <3>2
      <4> QED  BY <1>1, <2>2, <2>4, <2>5, <2>6, <4>1 DEF NoneMissed
    <3>3. CASE since # None
      <4>1. since' = since /\ NoneMissed(p)
        BY <1>1, <1>6, <3>1, <3>3 DEF AthanInv, SinceKept
      <4>2. ASSUME NEW k \in Todays(p), since < Over(p, k) PROVE Played(k) \/ now <= Over(p, k)
        BY <2>6, <4>1, <4>2 DEF NoneMissed
      <4> QED  BY <1>1, <2>2, <2>4, <2>5, <4>1, <4>2 DEF NoneMissed
    <3> QED  BY <3>1, <3>2, <3>3
  <2> QED  BY <1>4, <2>2, <2>3, <2>8, <2>9 DEF AthanInv
<1> QED  BY <1>5, <1>6

LEMMA AthanStep == AthanInv /\ (Athan!Next \/ UNCHANGED athanVars) => AthanInv'
<1> SUFFICES ASSUME AthanInv, Athan!Next \/ UNCHANGED athanVars PROVE AthanInv'
  OBVIOUS
<1>1. CASE UNCHANGED athanVars
  <2>1. Athan!Waiting' <=> Athan!Waiting
    BY <1>1 DEF athanVars, Athan!Waiting
  <2> QED  BY <1>1, <2>1, RequestMoves DEF athanVars, AthanInv, AthanTypes
<1>2. CASE Athan!Next
  BY <1>2, TimeStep, LinkMoves, AthanStops, AthanStarts, RequestSteps, ArmStep, FireStep
     DEF Athan!Next
<1> QED  BY <1>1, <1>2

(* What Athan promises. *)
LEMMA AthanSound == AthanInv => Athan!TypeOK /\ Athan!PlayedOnce /\ Athan!Heard
<1> SUFFICES ASSUME AthanInv PROVE Athan!TypeOK /\ Athan!PlayedOnce /\ Athan!Heard
  OBVIOUS
<1>1. Athan!TypeOK
  <2>1. since \in {None} \cup (0 .. MaxTime)
    BY AthanAssumption DEF AthanInv, AthanTypes
  <2> QED  BY <2>1 DEF AthanInv, AthanTypes, AthanTimers, AthanJobs, Dates, Athan!TypeOK
<1>2. Athan!PlayedOnce
  BY DEF AthanInv, FiredKept, Athan!PlayedOnce, Dates
<1>3. Athan!Heard
  <2> SUFFICES ASSUME up, config # None, since # None, NEW k \in Dates,
                      NEW p \in Places, p = config, NEW end, end = Over(p, k),
                      Athan!Ahead(p, k), since < end, now = end + 1, k[1] = Athan!Today(p)
               PROVE  plays[k] > 0 \/ k \in hushed
    BY DEF Athan!Heard, Dates, Over, AthanInv, AthanTypes
  <2>1. k \in Todays(p) /\ NoneMissed(p)
    BY DEF Todays, AthanInv, SinceKept
  <2>2. end \in Nat /\ now \in Nat /\ since \in Nat /\ Midnight(p) \in Int /\ Midnight(p) + 1 <= end
    BY AthanAssumption, PrayerTimed, DayTyped DEF AthanInv, AthanTypes
  <2>3. Played(k)
    BY <2>1, <2>2 DEF NoneMissed
  <2> QED  BY <2>3 DEF Played
<1> QED  BY <1>1, <1>2, <1>3

-----------------------------------------------------------------------------
(* The home's sounds. *)

AudioInv ==
    /\ part = "athan" => AthanInv
    /\ part = "speakers" => SpeakersInv

LEMMA AudioInit == HomeInit => AudioInv
BY AthanInit, SpeakersInit DEF HomeInit, AudioInv

LEMMA AudioStep == ~Hurried /\ AudioInv /\ [HomeNext]_homeVars => AudioInv'
<1> SUFFICES ASSUME ~Hurried, AudioInv, [HomeNext]_homeVars PROVE AudioInv'
  OBVIOUS
<1>1. ASSUME part' = "athan" PROVE AthanInv'
  <2>1. part = "athan" /\ (Athan!Next \/ UNCHANGED athanVars)
    BY <1>1 DEF HomeNext, homeVars
  <2> QED  BY <2>1, AthanStep DEF AudioInv
<1>2. ASSUME part' = "speakers" PROVE SpeakersInv'
  <2>1. part = "speakers" /\ (Speakers!Next \/ UNCHANGED speakerVars)
    BY <1>2 DEF HomeNext, homeVars
  <2> QED  BY <2>1, SpeakersStep DEF AudioInv
<1> QED  BY <1>1, <1>2 DEF AudioInv

(* No prayer is played twice in its day, and none is missed that the hub could *)
(* play within its grace; one client runs, for the broker stored last, and     *)
(* shows the enrolled speakers as they are, when no request hurries.           *)
THEOREM AudioAlwaysKept == ~Hurried => (HomeSpec => []AudioKept)
<1> SUFFICES ASSUME ~Hurried PROVE HomeSpec => []AudioKept
  OBVIOUS
<1>1. AudioInv => AudioKept
  BY AthanSound, SpeakersSound DEF AudioInv, AudioKept
<1>2. AudioInv /\ [HomeNext]_homeVars => AudioInv'
  BY AudioStep
<1> QED  BY <1>1, <1>2, AudioInit, PTL DEF HomeSpec

-----------------------------------------------------------------------------
(* A room under the rules (SmartRoom), whose sensors keep calm. *)

RuleJobs == [rule : SmartRoom!Rules \cup {None},
             step : {"idle", "look", "clear", "comfort", "wait", "fan",
                     "start", "build", "config", "offs", "rules"},
             sense : {"on", "off", "bad"}, temp : {"cold", "mild", "hot", "bad"},
             value : SmartRoom!Values, want : SmartRoom!Values \cup {None}]

PassAt(steps) == ruleJob[Pass].step \in steps
Begun == {"start", "build", "config"}

(* The pass goes by a snapshot of an earlier moment. *)
Holding == PassAt({"offs", "rules"}) \/ ruleJob[Pass].rule = "offs"

(* What a rule in flight, or the pass, may be. *)
Fits(t, w) ==
    /\ w \in RuleJobs
    /\ w.step = "wait" => w.want # None
    /\ t # Pass => /\ w.rule # "offs"
                   /\ w.step \in {"idle", "look", "clear", "comfort", "wait", "fan"}
    /\ t = Pass => /\ w.rule \in {None, "offs"} /\ w.step \notin {"look", "clear"}
                   /\ w.rule = "offs" => w.step = "wait"

RuleTypes ==
    /\ ruleJob \in [SmartRoom!RuleTasks -> RuleJobs]
    /\ \A t \in SmartRoom!RuleTasks : Fits(t, ruleJob[t])
    /\ sense \in {"on", "off", "bad"} /\ temp \in {"cold", "mild", "hot", "bad"}
    /\ value \in SmartRoom!Values /\ choice \in {"in", "out", "back"}
    /\ {grace, boost, stray, boosted, released} \subseteq BOOLEAN
    /\ controller # "on" => ruleJob[Pass] = SmartRoom!Idle

Live == controller = "on" /\ SmartRoom!Smart /\ SmartRoom!Automatic /\ choice = "in" /\ ~applied
Out == SmartRoom!Bad(sense, temp)
LooksFor(rule) == \E s \in Slots : ruleJob[s].step = "look" /\ ruleJob[s].rule = rule
Commanding == \E t \in SmartRoom!RuleTasks : ruleJob[t].step \in {"comfort", "wait", "fan"}

(* The snapshot of a pass is the home's up to the context, and its sensors go on working. *)
SnapshotKept ==
    /\ PassAt({"config"}) => /\ ruleJob[Pass].sense = sense
                             /\ ruleJob[Pass].temp = "bad" <=> temp = "bad"
    /\ Holding => ~Out /\ ruleJob[Pass].sense \in {"on", "off"}
    /\ PassAt({"offs"}) \/ ruleJob[Pass].rule = "offs" => room.kind # "ac"

WatchKept == Live => watched \/ PassAt(Begun)

Known ==
    IF Out THEN occ = "unknown"
    ELSE IF sense = "on" THEN occ = "occupied" ELSE occ = "empty" \/ grace

(* A look on its way that will know the room; a temperature's only if occ is not known. *)
KnownSoon ==
    \/ LooksFor("presence")
    \/ LooksFor("temperature") /\ (Out \/ occ \notin {"occupied", "empty"})
    \/ LooksFor("finish") /\ sense = "off" /\ ~Out

(* A pass that holds another sense than the home's leaves what a later edge found. *)
HeldSense ==
    \/ ruleJob[Pass].sense = sense \/ LooksFor("presence")
    \/ IF ruleJob[Pass].sense = "on" THEN grace ELSE occ = "occupied"

OccKept ==
    Live => PassAt(Begun) \/ (Holding /\ HeldSense) \/ (~Holding /\ (Known \/ KnownSoon))

(* A boost is the hub's own, and a timer, a command or a look on its way will end it. *)
BoostOwn == boosted => ~released /\ room.kind = "ac"
SettledSoon ==
    \/ Commanding \/ LooksFor("presence") \/ LooksFor("settle")
    \/ LooksFor("temperature") /\ occ \notin {"occupied", "empty"}
    \/ PassAt(Begun) \/ (Holding /\ ruleJob[Pass].sense = "on")
BoostKept == Live /\ sense = "on" /\ temp # "bad" /\ boosted => boost \/ stray \/ SettledSoon

RulesInv ==
    /\ RuleTypes /\ SnapshotKept /\ WatchKept /\ OccKept /\ BoostOwn /\ BoostKept

LEMMA RuleJobFits ==
    ASSUME RuleTypes, NEW t \in SmartRoom!RuleTasks
    PROVE  ruleJob[t] \in RuleJobs /\ Fits(t, ruleJob[t])
BY DEF RuleTypes

LEMMA PassIsTask == Pass \in SmartRoom!RuleTasks /\ \A s \in Slots : s \in SmartRoom!RuleTasks /\ s # Pass
BY RulesAssumption DEF SmartRoom!RuleTasks

LEMMA IdleFits ==
    ASSUME NEW t
    PROVE  Fits(t, SmartRoom!Idle) /\ SmartRoom!Idle.step = "idle" /\ SmartRoom!Idle.rule = None
BY RulesAssumption DEF SmartRoom!Idle, Fits, RuleJobs, SmartRoom!Values, SmartRoom!Rules

(* One task moves: the jobs stay typed, and no other look is gone. *)
LEMMA RuleMoves ==
    ASSUME RuleTypes, NEW t \in SmartRoom!RuleTasks, NEW w, Fits(t, w),
           ruleJob' = [ruleJob EXCEPT ![t] = w]
    PROVE  /\ ruleJob' \in [SmartRoom!RuleTasks -> RuleJobs]
           /\ \A u \in SmartRoom!RuleTasks : Fits(u, ruleJob'[u])
           /\ ruleJob'[t] = w
           /\ \A u \in SmartRoom!RuleTasks : u # t => ruleJob'[u] = ruleJob[u]
           /\ t # Pass => ruleJob'[Pass] = ruleJob[Pass]
           /\ \A rule : LooksFor(rule) => LooksFor(rule)'
                                          \/ (ruleJob[t].step = "look" /\ ruleJob[t].rule = rule)
           /\ t # Pass /\ w.step = "look" => LooksFor(w.rule)'
           /\ Commanding => Commanding' \/ ruleJob[t].step \in {"comfort", "wait", "fan"}
           /\ w.step \in {"comfort", "wait", "fan"} => Commanding'
<1>1. /\ ruleJob' \in [SmartRoom!RuleTasks -> RuleJobs]
      /\ ruleJob'[t] = w
      /\ \A u \in SmartRoom!RuleTasks : u # t => ruleJob'[u] = ruleJob[u]
  BY DEF RuleTypes, Fits
<1>2. \A u \in SmartRoom!RuleTasks : Fits(u, ruleJob'[u])
  BY <1>1 DEF RuleTypes
<1>3. t # Pass => ruleJob'[Pass] = ruleJob[Pass] /\ t \in Slots
  BY <1>1, PassIsTask DEF SmartRoom!RuleTasks
<1>4. ASSUME NEW rule, LooksFor(rule)
      PROVE  LooksFor(rule)' \/ (ruleJob[t].step = "look" /\ ruleJob[t].rule = rule)
  BY <1>1, <1>4, PassIsTask DEF LooksFor
<1>5. t # Pass /\ w.step = "look" => LooksFor(w.rule)'
  BY <1>1, <1>3 DEF LooksFor
<1>6. /\ Commanding => Commanding' \/ ruleJob[t].step \in {"comfort", "wait", "fan"}
      /\ w.step \in {"comfort", "wait", "fan"} => Commanding'
  BY <1>1 DEF Commanding
<1> QED  BY <1>1, <1>2, <1>3, <1>4, <1>5, <1>6

(* A rule that starts takes a slot that is free. *)
LEMMA RuleStarts ==
    ASSUME NEW j, j \in [SmartRoom!RuleTasks -> RuleJobs],
           \A u \in SmartRoom!RuleTasks : Fits(u, j[u]),
           NEW rule \in SmartRoom!Rules, rule # "offs",
           \E s \in Slots : j[s] = SmartRoom!Idle,
           ruleJob' = SmartRoom!Started(j, rule)
    PROVE  /\ ruleJob' \in [SmartRoom!RuleTasks -> RuleJobs]
           /\ \A u \in SmartRoom!RuleTasks : Fits(u, ruleJob'[u])
           /\ ruleJob'[Pass] = j[Pass]
           /\ \A u \in SmartRoom!RuleTasks : j[u].step # "idle" => ruleJob'[u] = j[u]
           /\ LooksFor(rule)'
<1>1. PICK s \in Slots : /\ j[s] = SmartRoom!Idle
                         /\ ruleJob' = [j EXCEPT ![s].rule = rule, ![s].step = "look"]
  BY DEF SmartRoom!Started
<1>2. s \in SmartRoom!RuleTasks /\ s # Pass
  BY PassIsTask
<1> DEFINE w == [SmartRoom!Idle EXCEPT !.rule = rule, !.step = "look"]
<1>3. Fits(s, w) /\ w.step = "look" /\ w.rule = rule
  BY <1>2, IdleFits DEF Fits, RuleJobs, SmartRoom!Idle
<1>4. ruleJob' = [j EXCEPT ![s] = w]
  BY <1>1, <1>2
<1> HIDE DEF w
<1>5. /\ ruleJob' \in [SmartRoom!RuleTasks -> RuleJobs] /\ ruleJob'[s] = w
      /\ \A u \in SmartRoom!RuleTasks : u # s => ruleJob'[u] = j[u]
  BY <1>2, <1>3, <1>4 DEF Fits
<1>6. j[s].step = "idle"
  BY <1>1, IdleFits
<1> QED  BY <1>2, <1>3, <1>5, <1>6, PassIsTask DEF LooksFor

LEMMA RulesInit == SmartRoom!Init => RulesInv
<1> SUFFICES ASSUME SmartRoom!Init PROVE RulesInv
  OBVIOUS
<1>1. /\ ruleJob = [t \in SmartRoom!RuleTasks |-> SmartRoom!Idle] /\ controller = "off"
      /\ sense = "off" /\ temp = "mild" /\ value = "off" /\ choice = "in"
      /\ grace = FALSE /\ boost = FALSE /\ stray = FALSE /\ boosted = FALSE /\ released = FALSE
  BY DEF SmartRoom!Init
<1>2. \A t \in SmartRoom!RuleTasks : ruleJob[t] = SmartRoom!Idle /\ Fits(t, ruleJob[t])
  BY <1>1, IdleFits
<1>3. RuleTypes
  BY <1>1, <1>2, PassIsTask DEF RuleTypes, Fits, SmartRoom!Values
<1>4. SnapshotKept
  BY <1>2, IdleFits, PassIsTask, RulesAssumption DEF SnapshotKept, PassAt, Holding
<1> QED  BY <1>1, <1>3, <1>4 DEF RulesInv, WatchKept, OccKept, Live, BoostOwn, BoostKept

-----------------------------------------------------------------------------
(* The rules' steps. *)

LEMMA WantsTyped ==
    \A v, t : /\ SmartRoom!Static(v, t) \in SmartRoom!Values \cup {None}
              /\ SmartRoom!Comfort(v, t) \in SmartRoom!Values \cup {None}
              /\ SmartRoom!Posture(v) \in SmartRoom!Values \cup {None}
BY DEF SmartRoom!Static, SmartRoom!Comfort, SmartRoom!Posture, SmartRoom!Values

LEMMA EndedFits ==
    ASSUME RuleTypes, NEW t \in SmartRoom!RuleTasks, NEW want,
           SnapshotKept, NEW w, w = SmartRoom!Ended(t, want)
    PROVE  /\ Fits(t, w) /\ w.rule = None
           /\ w.step = "fan" <=> room.kind = "ac" /\ want = "high"
           /\ ruleJob[t].rule = "offs" => w.step = "rules" /\ w.sense = ruleJob[t].sense
           /\ ruleJob[t].rule # "offs" => w.step \in {"idle", "fan"}
<1>1. Fits(t, ruleJob[t]) /\ ruleJob[t] \in RuleJobs
  BY RuleJobFits
<1>2. ruleJob[t].rule = "offs" => t = Pass /\ room.kind # "ac"
  BY <1>1, PassIsTask DEF Fits, SnapshotKept
<1>3. w \in RuleJobs /\ w.rule = None
  BY <1>1, IdleFits DEF SmartRoom!Ended, SmartRoom!Idle, RuleJobs, Fits
<1>4. /\ w.step = "fan" <=> room.kind = "ac" /\ want = "high"
      /\ ruleJob[t].rule = "offs" => w.step = "rules" /\ w.sense = ruleJob[t].sense
      /\ ruleJob[t].rule # "offs" => w.step \in {"idle", "fan"}
  BY <1>2 DEF SmartRoom!Ended, SmartRoom!Idle
<1>5. Fits(t, w)
  BY <1>2, <1>3, <1>4, RulesAssumption DEF Fits
<1> QED  BY <1>3, <1>4, <1>5

(* A command ends its task, or waits for the device; a boost is commanded unless released. *)
LEMMA CommandMoves ==
    ASSUME RuleTypes, SnapshotKept, NEW t \in SmartRoom!RuleTasks, ruleJob[t].rule # "offs",
           NEW want \in SmartRoom!Values \cup {None}, NEW honor \in BOOLEAN,
           SmartRoom!Command(t, want, honor)
    PROVE  \E w : /\ Fits(t, w) /\ ruleJob' = [ruleJob EXCEPT ![t] = w]
                  /\ w.rule # "offs" /\ w.step \in {"idle", "fan", "wait"}
                  /\ want # None /\ level # None /\ ~(honor /\ released) => w.step = "wait"
<1>1. Fits(t, ruleJob[t]) /\ ruleJob[t] \in RuleJobs /\ ruleJob \in [SmartRoom!RuleTasks -> RuleJobs]
  BY RuleJobFits DEF RuleTypes
<1>2. CASE want = None \/ (honor /\ released)
  BY <1>2, EndedFits, RulesAssumption DEF SmartRoom!Command
<1>3. CASE ~(want = None \/ (honor /\ released)) /\ level = None
  BY <1>3, EndedFits, RulesAssumption DEF SmartRoom!Command
<1>4. CASE ~(want = None \/ (honor /\ released)) /\ level # None
  <2> DEFINE w == [ruleJob[t] EXCEPT !.step = "wait", !.want = want, !.temp = "mild", !.value = "off"]
  <2>1. ruleJob' = [ruleJob EXCEPT ![t] = w]
    BY <1>1, <1>4 DEF SmartRoom!Command
  <2>2. Fits(t, w) /\ w.step = "wait" /\ w.rule # "offs"
    BY <1>1, <1>4 DEF Fits, RuleJobs, SmartRoom!Values
  <2> HIDE DEF w
  <2> QED  BY <1>4, <2>1, <2>2
<1> QED  BY <1>2, <1>3, <1>4

(* What stands of the invariant, when a task other than an early pass moves. *)
PassGoesOn ==
    \/ ruleJob'[Pass] = ruleJob[Pass]
    \/ /\ ruleJob[Pass].step \in {"comfort", "wait", "fan"} /\ ruleJob'[Pass].rule # "offs"
       /\ IF ruleJob[Pass].rule = "offs"
          THEN ruleJob'[Pass].step = "rules" /\ ruleJob'[Pass].sense = ruleJob[Pass].sense
          ELSE ruleJob'[Pass].step \in {"idle", "comfort", "wait", "fan"}
    \/ /\ ruleJob[Pass].step = "offs" /\ ruleJob'[Pass].sense = ruleJob[Pass].sense
       /\ ruleJob'[Pass].step = "rules" \/ ruleJob'[Pass].rule = "offs"

(* A room, its level, choice and sensors stay as they are. *)
SettingStays ==
    /\ UNCHANGED <<room, level, choice, applied, watched, controller, sense, temp>>
    /\ value' \in SmartRoom!Values
    /\ {grace', boost', stray', boosted', released'} \subseteq BOOLEAN

RestStays ==
    /\ RuleTypes' /\ SnapshotKept' /\ WatchKept'
    /\ (Live' <=> Live) /\ (Out' <=> Out) /\ (sense' = sense) /\ (temp' = temp)
    /\ (Holding' <=> Holding) /\ (PassAt(Begun)' <=> PassAt(Begun))
    /\ Holding => ruleJob'[Pass].sense = ruleJob[Pass].sense

JobsStay == /\ ruleJob' \in [SmartRoom!RuleTasks -> RuleJobs]
         /\ \A u \in SmartRoom!RuleTasks : Fits(u, ruleJob'[u])

LEMMA ContextStays ==
    ASSUME RulesInv, JobsStay, PassGoesOn, SettingStays
    PROVE  RestStays
<1> USE DEF SettingStays
<1>1. /\ Fits(Pass, ruleJob[Pass]) /\ Fits(Pass, ruleJob'[Pass])
      /\ controller # "on" => ruleJob[Pass].step = "idle"
  BY PassIsTask, IdleFits DEF RulesInv, RuleTypes, JobsStay
<1>2. RuleTypes'
  BY <1>1 DEF RulesInv, RuleTypes, JobsStay, PassGoesOn
<1>3. /\ (Holding' <=> Holding) /\ (PassAt(Begun)' <=> PassAt(Begun))
      /\ Holding => ruleJob'[Pass].sense = ruleJob[Pass].sense
      /\ PassAt({"config"})' => ruleJob'[Pass] = ruleJob[Pass]
      /\ PassAt({"offs"})' \/ ruleJob'[Pass].rule = "offs" => PassAt({"offs"}) \/ ruleJob[Pass].rule = "offs"
  BY <1>1 DEF PassGoesOn, Holding, PassAt, Begun, Fits
<1>4. Out' <=> Out
  BY DEF Out, SmartRoom!Bad
<1>5. Live' <=> Live
  BY DEF Live, SmartRoom!Smart, SmartRoom!Automatic
<1>6. SnapshotKept'
  BY <1>3, <1>4 DEF RulesInv, SnapshotKept, PassAt
<1>7. WatchKept'
  BY <1>3, <1>5 DEF RulesInv, WatchKept
<1> QED  BY <1>2, <1>3, <1>4, <1>5, <1>6, <1>7 DEF RestStays

(* The looks stay, where no task that looks moves. *)
LEMMA LooksStay ==
    ASSUME RuleTypes, \A u \in SmartRoom!RuleTasks : ruleJob[u].step = "look" => ruleJob'[u] = ruleJob[u]
    PROVE  \A rule : LooksFor(rule) => LooksFor(rule)'
BY PassIsTask DEF LooksFor

(* One task moves, a rule's or a pass that goes on. *)
OneMoves(t, w) ==
    /\ t \in SmartRoom!RuleTasks /\ Fits(t, w) /\ ruleJob' = [ruleJob EXCEPT ![t] = w]
    /\ t = Pass => \/ /\ ruleJob[t].step \in {"comfort", "wait", "fan"} /\ w.rule # "offs"
                      /\ IF ruleJob[t].rule = "offs" THEN w.step = "rules" /\ w.sense = ruleJob[t].sense
                         ELSE w.step \in {"idle", "comfort", "wait", "fan"}
                   \/ /\ ruleJob[t].step = "offs" /\ w.sense = ruleJob[t].sense
                      /\ w.step = "rules" \/ w.rule = "offs"

LEMMA OneTaskMoves ==
    ASSUME RulesInv, NEW t, NEW w, OneMoves(t, w), SettingStays
    PROVE  /\ RestStays
           /\ \A rule : LooksFor(rule) => LooksFor(rule)'
                                          \/ (ruleJob[t].step = "look" /\ ruleJob[t].rule = rule)
           /\ t # Pass /\ w.step = "look" => LooksFor(w.rule)'
           /\ Commanding => Commanding' \/ ruleJob[t].step \in {"comfort", "wait", "fan"}
           /\ w.step \in {"comfort", "wait", "fan"} => Commanding'
<1> USE DEF OneMoves
<1>1. RuleTypes
  BY DEF RulesInv
<1>2. /\ JobsStay /\ ruleJob'[t] = w /\ (t # Pass => ruleJob'[Pass] = ruleJob[Pass])
      /\ \A rule : LooksFor(rule) => LooksFor(rule)'
                                     \/ (ruleJob[t].step = "look" /\ ruleJob[t].rule = rule)
      /\ t # Pass /\ w.step = "look" => LooksFor(w.rule)'
      /\ Commanding => Commanding' \/ ruleJob[t].step \in {"comfort", "wait", "fan"}
      /\ w.step \in {"comfort", "wait", "fan"} => Commanding'
  BY <1>1, RuleMoves DEF JobsStay
<1>3. PassGoesOn
  BY <1>2 DEF PassGoesOn
<1> QED  BY <1>2, <1>3, ContextStays

(* Of a step that leaves what is known, or the boost, alone. *)
LEMMA OccStays ==
    ASSUME RulesInv, RestStays, UNCHANGED <<occ, grace>>,
           Live => \A rule \in {"presence", "temperature", "finish"} : LooksFor(rule) => LooksFor(rule)'
    PROVE  OccKept'
BY DEF RulesInv, RestStays, OccKept, Known, KnownSoon, HeldSense

LEMMA BoostStays ==
    ASSUME RulesInv, RestStays, UNCHANGED <<occ, boost, stray>>, boosted' => boosted,
           Live => \A rule \in {"presence", "temperature", "settle"} : LooksFor(rule) => LooksFor(rule)',
           Live /\ Commanding => Commanding'
    PROVE  BoostKept'
BY DEF RulesInv, RestStays, BoostKept, SettledSoon

(* A look at a home that is not the level's, or at a room that is left out. *)
LEMMA LooksEnd ==
    ASSUME RulesInv, NEW t \in SmartRoom!RuleTasks,
           SmartRoom!LookNot(t) \/ SmartRoom!LookExcluded(t) \/ SmartRoom!LookBad(t)
    PROVE  RulesInv'
<1>1. ruleJob' = [ruleJob EXCEPT ![t] = SmartRoom!Idle] /\ ruleJob[t].step = "look"
  BY DEF SmartRoom!LookNot, SmartRoom!LookExcluded, SmartRoom!LookBad, SmartRoom!Looks, SmartRoom!Done,
     SmartRoom!At
<1>2. t # Pass
  BY <1>1, RuleJobFits DEF RulesInv, Fits
<1>3. /\ UNCHANGED <<room, level, released, choice, applied, watched, controller, sense, temp, value,
                     boosted, stray>>
      /\ {grace', boost'} \subseteq BOOLEAN
  BY DEF SmartRoom!LookNot, SmartRoom!LookExcluded, SmartRoom!LookBad, SmartRoom!stored,
     SmartRoom!context, SmartRoom!world, SmartRoom!device, SmartRoom!timers, RulesInv, RuleTypes
<1>4. SettingStays
  BY <1>3 DEF SettingStays, RulesInv, RuleTypes
<1>5. /\ RestStays
      /\ \A rule : LooksFor(rule) => LooksFor(rule)' \/ ruleJob[t].rule = rule
      /\ Commanding => Commanding'
  BY <1>1, <1>2, <1>4, OneTaskMoves, IdleFits DEF OneMoves
<1>6. BoostOwn'
  BY <1>3 DEF RulesInv, BoostOwn
<1>7. CASE SmartRoom!LookNot(t)
  <2>1. UNCHANGED <<occ, grace, boost>>
    BY <1>7 DEF SmartRoom!LookNot, SmartRoom!stored, SmartRoom!timers
  <2>2. Live => ruleJob[t].rule \notin {"presence", "temperature", "finish", "settle"}
    BY <1>7 DEF SmartRoom!LookNot, SmartRoom!Needs, Live, SmartRoom!Smart
  <2>3. OccKept'
    BY <1>5, <2>1, <2>2, OccStays
  <2>4. BoostKept'
    BY <1>3, <1>5, <2>1, <2>2, BoostStays
  <2> QED  BY <1>5, <1>6, <2>3, <2>4 DEF RulesInv, RestStays
<1>8. CASE SmartRoom!LookExcluded(t)
  <2>1. ~Live
    BY <1>8 DEF SmartRoom!LookExcluded, SmartRoom!Excluded, Live
  <2> QED  BY <1>5, <1>6, <2>1 DEF RulesInv, OccKept, BoostKept, RestStays
<1>9. CASE SmartRoom!LookBad(t)
  <2>1. Out /\ ~Holding
    BY <1>9 DEF SmartRoom!LookBad, Out, RulesInv, SnapshotKept
  <2>2. Live => occ' = "unknown" \/ (occ' = occ /\ ruleJob[t].rule \in {"finish", "settle"})
    BY <1>9 DEF SmartRoom!LookBad, Live
  <2>3. OccKept'
    BY <1>5, <2>1, <2>2 DEF RulesInv, OccKept, Known, KnownSoon, RestStays
  <2>4. BoostKept'
    BY <1>3, <1>5, <2>1 DEF BoostKept, Out, SmartRoom!Bad, RestStays
  <2> QED  BY <1>5, <1>6, <2>3, <2>4 DEF RulesInv, RestStays
<1> QED  BY <1>7, <1>8, <1>9

(* A room that is welcomed or left, by what its look found or by a pass's snapshot. *)
LEMMA FollowFits ==
    ASSUME NEW v \in SmartRoom!Values, NEW x \in {"cold", "mild", "hot", "bad"},
           NEW t \in SmartRoom!RuleTasks, NEW w,
           w = [SmartRoom!Idle EXCEPT !.step = "comfort", !.value = v, !.temp = x]
    PROVE  Fits(t, w) /\ w.step = "comfort" /\ w.rule = None
BY RulesAssumption DEF Fits, RuleJobs, SmartRoom!Idle, SmartRoom!Values, SmartRoom!Rules

(* A rule that looked at a room it follows; what is left of its own look is nothing. *)
LEMMA LookFollows ==
    ASSUME RulesInv, NEW t \in SmartRoom!RuleTasks,
           SmartRoom!Looks(t, SmartRoom!Rules \ {"sunChange"}), ~Out,
           SmartRoom!Follow(t, sense, value, temp), SmartRoom!Smart,
           UNCHANGED <<room, level, released, choice, applied, watched, controller, sense, temp, value,
                       boosted, boost, stray>>
    PROVE  RulesInv'
<1>1. t # Pass /\ ruleJob[t].step = "look"
  BY RuleJobFits DEF RulesInv, Fits, SmartRoom!Looks, SmartRoom!At
<1>2. sense \in {"on", "off"}
  BY DEF Out, SmartRoom!Bad, RulesInv, RuleTypes
<1>3. SettingStays
  BY DEF SettingStays, RulesInv, RuleTypes, SmartRoom!Follow
<1>4. BoostOwn'
  BY DEF RulesInv, BoostOwn
<1>5. CASE sense = "on"
  <2> DEFINE w == [SmartRoom!Idle EXCEPT !.step = "comfort", !.value = value, !.temp = temp]
  <2>1. /\ ruleJob' = [ruleJob EXCEPT ![t] = w] /\ grace' = FALSE /\ occ' = "occupied"
    BY <1>1, <1>5 DEF SmartRoom!Follow, SmartRoom!SetOcc
  <2>2. Fits(t, w) /\ w.step = "comfort"
    BY FollowFits DEF RulesInv, RuleTypes
  <2> HIDE DEF w
  <2>3. RestStays /\ Commanding'
    BY <1>1, <1>3, <2>1, <2>2, OneTaskMoves DEF OneMoves
  <2>4. OccKept'
    BY <1>2, <1>5, <2>1, <2>3 DEF OccKept, RestStays, Known, HeldSense, RulesInv, SnapshotKept
  <2>5. BoostKept'
    BY <2>3 DEF BoostKept, SettledSoon
  <2> QED  BY <1>4, <2>3, <2>4, <2>5 DEF RulesInv, RestStays
<1>6. CASE sense = "off"
  <2>1. ruleJob' = [ruleJob EXCEPT ![t] = SmartRoom!Idle] /\ grace' = TRUE /\ occ' = occ
    BY <1>6 DEF SmartRoom!Follow, SmartRoom!Done
  <2>2. RestStays
    BY <1>1, <1>3, <2>1, IdleFits, OneTaskMoves DEF OneMoves
  <2>3. OccKept'
    BY <1>2, <1>6, <2>1, <2>2 DEF OccKept, RestStays, Known, HeldSense, RulesInv, SnapshotKept
  <2>4. BoostKept'
    BY <1>6, <2>2 DEF BoostKept, RestStays
  <2> QED  BY <1>4, <2>2, <2>3, <2>4 DEF RulesInv, RestStays
<1> QED  BY <1>2, <1>5, <1>6

(* A look that ends with nothing, or with a command. *)
LEMMA LookCommands ==
    ASSUME RulesInv, NEW t \in SmartRoom!RuleTasks, ruleJob[t].step = "look",
           NEW want \in SmartRoom!Values \cup {None}, SmartRoom!Command(t, want, TRUE),
           UNCHANGED <<room, level, released, occ, choice, applied, watched, controller, sense, temp,
                       value, boosted, grace, boost, stray>>
    PROVE  /\ RestStays /\ BoostOwn'
           /\ \A rule : LooksFor(rule) => LooksFor(rule)' \/ ruleJob[t].rule = rule
           /\ Commanding => Commanding'
           /\ want # None /\ level # None /\ ~released => Commanding'
<1>1. t # Pass /\ ruleJob[t].rule # "offs"
  BY RuleJobFits DEF RulesInv, Fits
<1>2. PICK w : /\ Fits(t, w) /\ ruleJob' = [ruleJob EXCEPT ![t] = w]
               /\ w.rule # "offs" /\ w.step \in {"idle", "fan", "wait"}
               /\ want # None /\ level # None /\ ~(TRUE /\ released) => w.step = "wait"
  BY <1>1, CommandMoves DEF RulesInv
<1>3. SettingStays
  BY DEF SettingStays, RulesInv, RuleTypes
<1>4. OneMoves(t, w)
  BY <1>1, <1>2 DEF OneMoves
<1>5. BoostOwn'
  BY DEF RulesInv, BoostOwn
<1> QED  BY <1>2, <1>3, <1>4, <1>5, OneTaskMoves

LEMMA LooksAtEdges ==
    ASSUME RulesInv, NEW t \in SmartRoom!RuleTasks,
           SmartRoom!LookPresence(t) \/ SmartRoom!LookTemperature(t)
    PROVE  RulesInv'
<1>1. /\ SmartRoom!Looks(t, {"presence", "temperature"}) /\ ~Out
      /\ UNCHANGED <<room, level, released, choice, applied, watched, controller, sense, temp, value,
                     boosted, stray>>
  BY DEF SmartRoom!LookPresence, SmartRoom!LookTemperature, SmartRoom!Acts, SmartRoom!Looks, Out,
     SmartRoom!context, SmartRoom!world
<1>2. t # Pass /\ ruleJob[t].step = "look" /\ ruleJob[t].rule \in {"presence", "temperature"}
  BY <1>1, RuleJobFits DEF RulesInv, Fits, SmartRoom!Looks, SmartRoom!At
<1>3. SmartRoom!Looks(t, SmartRoom!Rules \ {"sunChange"})
  BY <1>1 DEF SmartRoom!Looks, SmartRoom!Rules
<1>4. BoostOwn'
  BY <1>1 DEF RulesInv, BoostOwn
<1>5. CASE SmartRoom!LookPresence(t)
  <2>1. ruleJob[t].rule = "presence" /\ SmartRoom!Smart /\ boost' = boost
    BY <1>5 DEF SmartRoom!LookPresence, SmartRoom!Acts, SmartRoom!Looks, SmartRoom!Needs,
       SmartRoom!Smart
  <2>2. CASE SmartRoom!Automatic
    BY <1>1, <1>3, <1>5, <2>1, <2>2, LookFollows DEF SmartRoom!LookPresence
  <2>3. CASE ~SmartRoom!Automatic
    <3>1. ruleJob' = [ruleJob EXCEPT ![t] = SmartRoom!Idle] /\ UNCHANGED <<grace, occ>>
      BY <1>5, <2>3 DEF SmartRoom!LookPresence, SmartRoom!Done
    <3>2. SettingStays
      BY <1>1, <2>1, <3>1 DEF SettingStays, RulesInv, RuleTypes
    <3>3. RestStays
      BY <1>2, <3>1, <3>2, IdleFits, OneTaskMoves DEF OneMoves
    <3> QED  BY <1>4, <2>3, <3>3 DEF RulesInv, RestStays, OccKept, BoostKept, Live
  <2> QED  BY <2>2, <2>3
<1>6. CASE SmartRoom!LookTemperature(t)
  <2>1. ruleJob[t].rule = "temperature" /\ SmartRoom!Smart
    BY <1>6 DEF SmartRoom!LookTemperature, SmartRoom!Acts, SmartRoom!Looks
  <2>2. CASE SmartRoom!Automatic /\ occ \notin {"occupied", "empty"}
    BY <1>1, <1>3, <1>6, <2>1, <2>2, LookFollows DEF SmartRoom!LookTemperature
  <2>3. CASE ~(SmartRoom!Automatic /\ occ \notin {"occupied", "empty"})
    <3>1. Live => occ \in {"occupied", "empty"}
      BY <2>3 DEF Live
    <3>2. UNCHANGED <<occ, grace>>
      BY <1>6, <2>3 DEF SmartRoom!LookTemperature
    <3>3. CASE boost /\ temp # "hot"
      <4> DEFINE w == [ruleJob[t] EXCEPT !.rule = "settle"]
      <4>1. boost' = FALSE /\ ruleJob' = [ruleJob EXCEPT ![t] = w]
        BY <1>6, <2>3, <3>3 DEF SmartRoom!LookTemperature
      <4>2. Fits(t, w) /\ w.step = "look" /\ w.rule = "settle"
        BY <1>2, RuleJobFits DEF RulesInv, Fits, RuleJobs, SmartRoom!Rules
      <4> HIDE DEF w
      <4>3. SettingStays
        BY <1>1, <3>2, <4>1 DEF SettingStays, RulesInv, RuleTypes
      <4>4. /\ RestStays /\ LooksFor("settle")'
            /\ \A rule : LooksFor(rule) => LooksFor(rule)' \/ rule = "temperature"
        BY <1>2, <2>1, <4>1, <4>2, <4>3, OneTaskMoves DEF OneMoves
      <4>5. OccKept'
        BY <1>1, <3>1, <3>2, <4>4 DEF RulesInv, RestStays, OccKept, Known, KnownSoon, HeldSense
      <4>6. BoostKept'
        BY <4>4 DEF BoostKept, SettledSoon
      <4> QED  BY <1>4, <4>4, <4>5, <4>6 DEF RulesInv, RestStays
    <3>4. CASE ~(boost /\ temp # "hot")
      <4>1. ruleJob' = [ruleJob EXCEPT ![t] = SmartRoom!Idle] /\ boost' = boost
        BY <1>6, <2>3, <3>4 DEF SmartRoom!LookTemperature, SmartRoom!Done
      <4>2. SettingStays
        BY <1>1, <3>2, <4>1 DEF SettingStays, RulesInv, RuleTypes
      <4>3. /\ RestStays /\ (Commanding => Commanding')
            /\ \A rule : LooksFor(rule) => LooksFor(rule)' \/ rule = "temperature"
        BY <1>2, <2>1, <4>1, <4>2, IdleFits, OneTaskMoves DEF OneMoves
      <4>4. OccKept'
        BY <1>1, <3>1, <3>2, <4>3 DEF RulesInv, RestStays, OccKept, Known, KnownSoon, HeldSense
      <4>5. BoostKept'
        BY <1>1, <3>1, <3>2, <4>1, <4>3 DEF RulesInv, RestStays, BoostKept, SettledSoon
      <4> QED  BY <1>4, <4>3, <4>4, <4>5 DEF RulesInv, RestStays
    <3> QED  BY <3>3, <3>4
  <2> QED  BY <2>2, <2>3
<1> QED  BY <1>5, <1>6

LEMMA LooksCommand ==
    ASSUME RulesInv, NEW t \in SmartRoom!RuleTasks,
           \/ SmartRoom!LookTemperatureMedium(t) \/ SmartRoom!LookSettle(t) \/ SmartRoom!LookSun(t)
    PROVE  RulesInv'
<1>1. /\ UNCHANGED <<room, level, released, occ, choice, applied, watched, controller, sense, temp,
                     value, boosted, grace, boost, stray>>
      /\ ruleJob[t].step = "look"
  BY DEF SmartRoom!LookTemperatureMedium, SmartRoom!LookSettle, SmartRoom!LookSun, SmartRoom!Acts,
     SmartRoom!Looks, SmartRoom!At, SmartRoom!stored, SmartRoom!context, SmartRoom!world,
     SmartRoom!timers
<1>2. CASE SmartRoom!LookTemperatureMedium(t)
  <2> DEFINE want == IF room.kind = "ac" /\ SmartRoom!On(value) /\ temp = "cold" THEN "off" ELSE None
  <2>1. SmartRoom!Command(t, want, TRUE) /\ want \in SmartRoom!Values \cup {None} /\ level = "medium"
    BY <1>2 DEF SmartRoom!LookTemperatureMedium, SmartRoom!Values
  <2>2. RestStays /\ BoostOwn'
    BY <1>1, <2>1, LookCommands
  <2> QED  BY <2>1, <2>2 DEF RulesInv, RestStays, OccKept, BoostKept, Live, SmartRoom!Smart
<1>3. CASE SmartRoom!LookSettle(t)
  <2> DEFINE want == IF sense = "on" THEN "low" ELSE None
  <2>1. /\ SmartRoom!Command(t, want, TRUE) /\ want \in SmartRoom!Values \cup {None}
        /\ ruleJob[t].rule = "settle" /\ level = "smart"
    BY <1>3 DEF SmartRoom!LookSettle, SmartRoom!Values, SmartRoom!Acts, SmartRoom!Looks,
       SmartRoom!Needs
  <2>2. /\ RestStays /\ BoostOwn' /\ (Commanding => Commanding')
        /\ \A rule : LooksFor(rule) => LooksFor(rule)' \/ rule = "settle"
        /\ want # None /\ level # None /\ ~released => Commanding'
    BY <1>1, <2>1, LookCommands
  <2>3. OccKept'
    BY <1>1, <2>2, OccStays
  <2>4. sense = "on" /\ boosted => Commanding'
    BY <2>1, <2>2, RulesAssumption DEF RulesInv, BoostOwn
  <2>5. BoostKept'
    BY <1>1, <2>4, <2>2 DEF BoostKept, SettledSoon, RestStays
  <2> QED  BY <2>2, <2>3, <2>5 DEF RulesInv, RestStays
<1>4. CASE SmartRoom!LookSun(t)
  <2>1. /\ ruleJob[t].rule \in {"sunChange", "heatWindow"}
        /\ \E want \in SmartRoom!Values \cup {None} : SmartRoom!Command(t, want, TRUE)
    BY <1>4, WantsTyped DEF SmartRoom!LookSun, SmartRoom!Values, SmartRoom!Acts, SmartRoom!Looks
  <2>2. /\ RestStays /\ BoostOwn' /\ (Commanding => Commanding')
        /\ \A rule : LooksFor(rule) => LooksFor(rule)' \/ rule \in {"sunChange", "heatWindow"}
    BY <1>1, <2>1, LookCommands
  <2>3. OccKept'
    BY <1>1, <2>2, OccStays
  <2>4. BoostKept'
    BY <1>1, <2>2, BoostStays
  <2> QED  BY <2>2, <2>3, <2>4 DEF RulesInv, RestStays
<1> QED  BY <1>2, <1>3, <1>4

LEMMA EmptyLooks ==
    ASSUME RulesInv, NEW t \in SmartRoom!RuleTasks, SmartRoom!LookEmpty(t)
    PROVE  RulesInv'
<1>1. /\ ruleJob[t].step = "look" /\ ruleJob[t].rule = "finish" /\ level = "smart" /\ ~Out
      /\ UNCHANGED <<room, level, released, choice, applied, watched, controller, sense, temp, value,
                     boosted, grace, stray>>
  BY DEF SmartRoom!LookEmpty, SmartRoom!Acts, SmartRoom!Looks, SmartRoom!At, SmartRoom!Needs, Out,
     SmartRoom!context, SmartRoom!world
<1>2. t # Pass
  BY <1>1, RuleJobFits DEF RulesInv, Fits
<1>3. BoostOwn'
  BY <1>1 DEF RulesInv, BoostOwn
<1>4. CASE SmartRoom!Automatic /\ sense = "off"
  <2> DEFINE w == [SmartRoom!Idle EXCEPT !.step = "clear", !.value = value]
  <2>1. boost' = FALSE /\ occ' = "empty" /\ ruleJob' = [ruleJob EXCEPT ![t] = w]
    BY <1>1, <1>4 DEF SmartRoom!LookEmpty, SmartRoom!SetOcc, SmartRoom!Smart
  <2>2. Fits(t, w)
    BY <1>2, IdleFits DEF SmartRoom!Idle, Fits, RuleJobs, RulesInv, RuleTypes
  <2> HIDE DEF w
  <2>3. SettingStays
    BY <1>1, <2>1 DEF SettingStays, RulesInv, RuleTypes
  <2>4. RestStays /\ \A rule : LooksFor(rule) => LooksFor(rule)' \/ rule = "finish"
    BY <1>1, <1>2, <2>1, <2>2, <2>3, OneTaskMoves DEF OneMoves
  <2>5. OccKept'
    BY <1>1, <1>4, <2>1, <2>4 DEF OccKept, RestStays, Known, HeldSense, RulesInv, SnapshotKept
  <2>6. BoostKept'
    BY <1>4, <2>4 DEF BoostKept, RestStays
  <2> QED  BY <1>3, <2>4, <2>5, <2>6 DEF RulesInv, RestStays
<1>5. CASE ~(SmartRoom!Automatic /\ sense = "off")
  <2>1. UNCHANGED <<occ, boost>> /\ ruleJob' = [ruleJob EXCEPT ![t] = SmartRoom!Idle]
    BY <1>5 DEF SmartRoom!LookEmpty, SmartRoom!Done
  <2>2. SettingStays
    BY <1>1, <2>1 DEF SettingStays, RulesInv, RuleTypes
  <2>3. /\ RestStays /\ (Commanding => Commanding')
        /\ \A rule : LooksFor(rule) => LooksFor(rule)' \/ rule = "finish"
    BY <1>1, <1>2, <2>1, <2>2, IdleFits, OneTaskMoves DEF OneMoves
  <2>4. Live => sense # "off"
    BY <1>5 DEF Live
  <2>5. OccKept'
    BY <1>1, <2>1, <2>3, <2>4 DEF OccKept, RestStays, Known, KnownSoon, HeldSense, RulesInv
  <2>6. BoostKept'
    BY <1>1, <2>1, <2>3, BoostStays
  <2> QED  BY <1>3, <2>3, <2>5, <2>6 DEF RulesInv, RestStays
<1> QED  BY <1>4, <1>5

LEMMA ReleaseMarks ==
    ASSUME RulesInv, NEW t \in SmartRoom!RuleTasks, SmartRoom!Mark(t)
    PROVE  RulesInv'
<1>1. /\ ruleJob[t].step = "look" /\ ruleJob[t].rule = "release"
      /\ ruleJob' = [ruleJob EXCEPT ![t] = SmartRoom!Idle]
      /\ UNCHANGED <<room, level, occ, choice, applied, watched, controller, sense, temp, value,
                     grace, stray>>
  BY DEF SmartRoom!Mark, SmartRoom!At, SmartRoom!Done, SmartRoom!context, SmartRoom!world
<1>2. /\ released' = (released \/ level # None) /\ boosted' = (boosted /\ ~released')
      /\ {released', boost', boosted'} \subseteq BOOLEAN
  BY DEF SmartRoom!Mark, RulesInv, RuleTypes
<1>3. t # Pass
  BY <1>1, RuleJobFits DEF RulesInv, Fits
<1>4. SettingStays
  BY <1>1, <1>2 DEF SettingStays, RulesInv, RuleTypes
<1>5. RestStays /\ \A rule : LooksFor(rule) => LooksFor(rule)' \/ rule = "release"
  BY <1>1, <1>3, <1>4, IdleFits, OneTaskMoves DEF OneMoves
<1>6. OccKept'
  BY <1>1, <1>5, OccStays
<1>7. Live' => ~boosted'
  BY <1>1, <1>2, RulesAssumption DEF Live, SmartRoom!Smart
<1>8. BoostOwn'
  BY <1>1, <1>2 DEF RulesInv, BoostOwn
<1> QED  BY <1>5, <1>6, <1>7, <1>8 DEF RulesInv, RestStays, BoostKept

LEMMA RoomClears ==
    ASSUME RulesInv, NEW t \in SmartRoom!RuleTasks, SmartRoom!Clear(t)
    PROVE  RulesInv'
<1>1. /\ ruleJob[t].step = "clear" /\ released' = (released /\ ~SmartRoom!Smart)
      /\ SmartRoom!Command(t, SmartRoom!Posture(ruleJob[t].value), FALSE)
      /\ UNCHANGED <<room, level, occ, choice, applied, watched, controller, sense, temp, value,
                     boosted, grace, boost, stray>>
  BY DEF SmartRoom!Clear, SmartRoom!At, SmartRoom!context, SmartRoom!world, SmartRoom!timers
<1>2. t # Pass /\ ruleJob[t].rule # "offs"
  BY <1>1, RuleJobFits DEF RulesInv, Fits
<1>3. PICK w : Fits(t, w) /\ ruleJob' = [ruleJob EXCEPT ![t] = w]
  BY <1>1, <1>2, WantsTyped, CommandMoves DEF RulesInv
<1>4. released' \in BOOLEAN /\ (released' => released)
  BY <1>1 DEF RulesInv, RuleTypes
<1>5. SettingStays
  BY <1>1, <1>4 DEF SettingStays, RulesInv, RuleTypes
<1>6. /\ RestStays /\ (Commanding => Commanding')
      /\ \A rule : LooksFor(rule) => LooksFor(rule)'
  BY <1>1, <1>2, <1>3, <1>5, OneTaskMoves DEF OneMoves
<1>7. OccKept'
  BY <1>1, <1>6, OccStays
<1>8. BoostKept'
  BY <1>1, <1>6, BoostStays
<1>9. BoostOwn'
  BY <1>1, <1>4 DEF RulesInv, BoostOwn
<1> QED  BY <1>6, <1>7, <1>8, <1>9 DEF RulesInv, RestStays

LEMMA RoomWelcomes ==
    ASSUME RulesInv, NEW t \in SmartRoom!RuleTasks, SmartRoom!Welcome(t)
    PROVE  RulesInv'
<1> DEFINE want == SmartRoom!Comfort(ruleJob[t].value, ruleJob[t].temp)
<1>1. /\ ruleJob[t].step = "comfort" /\ boost' = (boost /\ room.kind # "ac")
      /\ SmartRoom!Command(t, want, TRUE)
      /\ UNCHANGED <<room, level, released, occ, choice, applied, watched, controller, sense, temp,
                     value, boosted, grace, stray>>
  BY DEF SmartRoom!Welcome, SmartRoom!At, SmartRoom!stored, SmartRoom!context, SmartRoom!world
<1>2. ruleJob[t].rule # "offs"
  BY <1>1, RuleJobFits DEF RulesInv, Fits
<1>3. PICK w : /\ Fits(t, w) /\ ruleJob' = [ruleJob EXCEPT ![t] = w]
               /\ w.rule # "offs" /\ w.step \in {"idle", "fan", "wait"}
               /\ want # None /\ level # None /\ ~(TRUE /\ released) => w.step = "wait"
  BY <1>1, <1>2, WantsTyped, CommandMoves DEF RulesInv
<1>4. SettingStays
  BY <1>1 DEF SettingStays, RulesInv, RuleTypes
<1>5. OneMoves(t, w)
  BY <1>1, <1>2, <1>3 DEF OneMoves
<1>6. RestStays /\ \A rule : LooksFor(rule) => LooksFor(rule)'
  BY <1>1, <1>4, <1>5, OneTaskMoves
<1>7. OccKept'
  BY <1>1, <1>6, OccStays
<1>8. Live /\ boosted => Commanding'
  <2>1. boosted => want # None /\ ~released
    BY RulesAssumption DEF RulesInv, BoostOwn, SmartRoom!Comfort
  <2>2. Live => level # None
    BY RulesAssumption DEF Live, SmartRoom!Smart
  <2> QED  BY <1>3, <1>4, <1>5, <2>1, <2>2, OneTaskMoves
<1>9. BoostKept' /\ BoostOwn'
  BY <1>1, <1>6, <1>8 DEF RulesInv, BoostOwn, BoostKept, SettledSoon, RestStays
<1> QED  BY <1>6, <1>7, <1>9 DEF RulesInv, RestStays

(* A command that reached its device, or did not: a boost is told its fan next. *)
LEMMA CommandObeyed ==
    ASSUME RulesInv, NEW t \in SmartRoom!RuleTasks, SmartRoom!Obey(t)
    PROVE  RulesInv'
<1> DEFINE w == SmartRoom!Ended(t, ruleJob[t].want)
           next == [ruleJob EXCEPT ![t] = w]
<1>1. /\ ruleJob[t].step = "wait"
      /\ value' = SmartRoom!Effect(t)
      /\ UNCHANGED <<room, level, released, occ, choice, applied, watched, controller, sense, temp,
                     grace, boost, stray>>
      /\ boosted' \in BOOLEAN
      /\ boosted' => /\ ~released /\ room.kind = "ac" /\ SmartRoom!Effect(t) = "high"
      /\ \/ ruleJob' = next
         \/ (\E s \in Slots : ruleJob[s] = SmartRoom!Idle) /\ ruleJob' = SmartRoom!Started(next, "release")
  BY DEF SmartRoom!Obey, SmartRoom!At, SmartRoom!stored, SmartRoom!context, SmartRoom!world,
     SmartRoom!timers, SmartRoom!Free
<1>2. ruleJob \in [SmartRoom!RuleTasks -> RuleJobs] /\ Fits(t, ruleJob[t]) /\ ruleJob[t].want \in SmartRoom!Values
  BY <1>1, RuleJobFits DEF RulesInv, RuleTypes, Fits, RuleJobs
<1>3. /\ Fits(t, w) /\ w.rule = None
      /\ w.step = "fan" <=> room.kind = "ac" /\ ruleJob[t].want = "high"
      /\ ruleJob[t].rule = "offs" => w.step = "rules" /\ w.sense = ruleJob[t].sense
      /\ ruleJob[t].rule # "offs" => w.step \in {"idle", "fan"}
  BY EndedFits DEF RulesInv
<1>4. value' \in SmartRoom!Values
  BY <1>1, <1>2 DEF SmartRoom!Effect, RulesInv, RuleTypes
<1>5. SettingStays
  BY <1>1, <1>4 DEF SettingStays, RulesInv, RuleTypes
<1> HIDE DEF w
<1>6. /\ next \in [SmartRoom!RuleTasks -> RuleJobs] /\ next[t] = w
      /\ \A u \in SmartRoom!RuleTasks : Fits(u, next[u]) /\ (u # t => next[u] = ruleJob[u])
  BY <1>2, <1>3 DEF Fits, RulesInv, RuleTypes
<1>7. /\ JobsStay
      /\ \A u \in SmartRoom!RuleTasks : next[u].step # "idle" => ruleJob'[u] = next[u]
      /\ ruleJob'[Pass] = next[Pass]
  <2>1. CASE ruleJob' = next
    BY <1>6, <2>1 DEF JobsStay
  <2>2. CASE (\E s \in Slots : ruleJob[s] = SmartRoom!Idle)
             /\ ruleJob' = SmartRoom!Started(next, "release")
    <3>1. PICK s \in Slots : ruleJob[s] = SmartRoom!Idle
      BY <2>2
    <3>2. next[s] = SmartRoom!Idle
      BY <1>1, <1>6, <3>1, PassIsTask, IdleFits
    <3> HIDE DEF next
    <3> QED  BY <1>6, <2>2, <3>2, RuleStarts DEF JobsStay, SmartRoom!Rules
  <2> QED  BY <1>1, <2>1, <2>2
<1>8. \A u \in SmartRoom!RuleTasks : ruleJob[u].step = "look" => ruleJob'[u] = ruleJob[u]
  BY <1>1, <1>6, <1>7
<1>9. PassGoesOn
  BY <1>1, <1>3, <1>6, <1>7, PassIsTask, RulesAssumption DEF PassGoesOn
<1>10. RestStays /\ \A rule : LooksFor(rule) => LooksFor(rule)'
  BY <1>5, <1>7, <1>8, <1>9, ContextStays, LooksStay DEF RulesInv
<1>11. OccKept'
  BY <1>1, <1>10, OccStays
<1>12. boosted' => ruleJob[t].want = "high"
  BY <1>1 DEF SmartRoom!Effect, SmartRoom!On
<1>13. boosted' => Commanding'
  BY <1>1, <1>3, <1>6, <1>7, <1>12 DEF Commanding
<1>14. BoostKept' /\ BoostOwn'
  BY <1>1, <1>13 DEF BoostKept, SettledSoon, BoostOwn
<1> QED  BY <1>10, <1>11, <1>14 DEF RulesInv, RestStays

LEMMA CommandFails ==
    ASSUME RulesInv, NEW t \in SmartRoom!RuleTasks, SmartRoom!Fails(t)
    PROVE  RulesInv'
<1> DEFINE w == SmartRoom!Ended(t, ruleJob[t].want)
<1>1. /\ ruleJob[t].step = "wait" /\ boosted' = FALSE
      /\ ruleJob' = [ruleJob EXCEPT ![t] = w]
      /\ UNCHANGED <<room, level, released, occ, choice, applied, watched, controller, sense, temp,
                     value, grace, boost, stray>>
  BY DEF SmartRoom!Fails, SmartRoom!At, SmartRoom!stored, SmartRoom!context, SmartRoom!world,
     SmartRoom!timers
<1>2. /\ Fits(t, w) /\ w.rule = None
      /\ ruleJob[t].rule = "offs" => w.step = "rules" /\ w.sense = ruleJob[t].sense
      /\ ruleJob[t].rule # "offs" => w.step \in {"idle", "fan"}
  BY EndedFits DEF RulesInv
<1> HIDE DEF w
<1>3. OneMoves(t, w) /\ SettingStays
  BY <1>1, <1>2, RulesAssumption DEF OneMoves, SettingStays, RulesInv, RuleTypes
<1>4. RestStays /\ \A rule : LooksFor(rule) => LooksFor(rule)'
  BY <1>1, <1>3, OneTaskMoves
<1>5. OccKept'
  BY <1>1, <1>4, OccStays
<1> QED  BY <1>1, <1>4, <1>5 DEF RulesInv, RestStays, BoostKept, BoostOwn

LEMMA FanTold ==
    ASSUME RulesInv, NEW t \in SmartRoom!RuleTasks, SmartRoom!Fan(t)
    PROVE  RulesInv'
<1>1. /\ ruleJob[t].step = "fan" /\ boost' = TRUE /\ stray' = (stray \/ boost)
      /\ ruleJob' = [ruleJob EXCEPT ![t] = SmartRoom!Idle]
      /\ UNCHANGED <<room, level, released, occ, choice, applied, watched, controller, sense, temp,
                     value, boosted, grace>>
  BY DEF SmartRoom!Fan, SmartRoom!At, SmartRoom!Done, SmartRoom!stored, SmartRoom!context,
     SmartRoom!world, SmartRoom!device
<1>2. ruleJob[t].rule # "offs"
  BY <1>1, RuleJobFits DEF RulesInv, Fits
<1>3. stray' \in BOOLEAN
  BY <1>1 DEF RulesInv, RuleTypes
<1>4. OneMoves(t, SmartRoom!Idle) /\ SettingStays
  BY <1>1, <1>2, <1>3, IdleFits, RulesAssumption DEF OneMoves, SettingStays, RulesInv, RuleTypes
<1>5. RestStays /\ \A rule : LooksFor(rule) => LooksFor(rule)'
  BY <1>1, <1>4, OneTaskMoves
<1>6. OccKept'
  BY <1>1, <1>5, OccStays
<1> QED  BY <1>1, <1>5, <1>6 DEF RulesInv, RestStays, BoostKept, BoostOwn

-----------------------------------------------------------------------------
(* The pass. *)

(* The pass moves: the rules stay, and so do their looks and commands. *)
LEMMA PassMoves ==
    ASSUME RulesInv, NEW w, Fits(Pass, w), ruleJob' = [ruleJob EXCEPT ![Pass] = w]
    PROVE  /\ JobsStay /\ ruleJob'[Pass] = w
           /\ \A rule : LooksFor(rule) => LooksFor(rule)'
           /\ Commanding => Commanding' \/ ruleJob[Pass].step \in {"comfort", "wait", "fan"}
           /\ w.step \in {"comfort", "wait", "fan"} => Commanding'
<1>1. RuleTypes /\ Pass \in SmartRoom!RuleTasks /\ ruleJob[Pass].step # "look"
  BY PassIsTask, RuleJobFits DEF RulesInv, Fits
<1> QED  BY <1>1, RuleMoves DEF JobsStay

(* A pass that is at its first steps answers for all that is to be known. *)
LEMMA PassBegins ==
    ASSUME RuleTypes', PassAt(Begun)', BoostOwn',
           PassAt({"config"})' => /\ ruleJob'[Pass].sense = sense'
                                  /\ (ruleJob'[Pass].temp = "bad") <=> (temp' = "bad")
    PROVE  RulesInv'
<1>1. ~Holding' /\ ~PassAt({"offs"})' /\ ruleJob'[Pass].rule # "offs"
  BY PassIsTask DEF RuleTypes, Fits, Holding, PassAt, Begun
<1> QED  BY <1>1 DEF RulesInv, SnapshotKept, WatchKept, OccKept, BoostKept, SettledSoon

(* A level that is not applied any more, or does not concern the room. *)
LEMMA RoomRests ==
    ASSUME RuleTypes', SnapshotKept', ~Live', BoostOwn'
    PROVE  RulesInv'
BY DEF RulesInv, WatchKept, OccKept, BoostKept

LEMMA PassPrepares ==
    ASSUME RulesInv, SmartRoom!PassStarts \/ SmartRoom!Build
    PROVE  RulesInv'
<1>1. Fits(Pass, ruleJob[Pass]) /\ RuleTypes
  BY PassIsTask DEF RulesInv, RuleTypes
<1>2. BoostOwn'
  BY DEF RulesInv, BoostOwn, SmartRoom!PassStarts, SmartRoom!Build, SmartRoom!stored,
     SmartRoom!world, SmartRoom!device
<1>3. CASE SmartRoom!PassStarts
  <2> DEFINE w == [ruleJob[Pass] EXCEPT !.step = "build"]
  <2>1. ruleJob[Pass].step = "start" /\ ruleJob' = [ruleJob EXCEPT ![Pass] = w]
    BY <1>3 DEF SmartRoom!PassStarts, SmartRoom!At
  <2>2. Fits(Pass, w) /\ w.step = "build"
    BY <1>1, <2>1, RulesAssumption DEF Fits, RuleJobs
  <2> HIDE DEF w
  <2>3. JobsStay /\ ruleJob'[Pass] = w
    BY <2>1, <2>2, PassMoves
  <2>4. RuleTypes'
    BY <1>1, <1>3, <2>1, <2>3, IdleFits DEF RuleTypes, JobsStay, SmartRoom!PassStarts, SmartRoom!stored,
       SmartRoom!context, SmartRoom!world, SmartRoom!device
  <2> QED  BY <1>2, <2>2, <2>3, <2>4, PassBegins DEF PassAt, Begun
<1>4. CASE SmartRoom!Build
  <2> DEFINE w == [ruleJob[Pass] EXCEPT !.step = "config", !.sense = sense, !.temp = temp,
                                       !.value = value]
  <2>1. ruleJob[Pass].step = "build" /\ ruleJob' = [ruleJob EXCEPT ![Pass] = w]
    BY <1>4 DEF SmartRoom!Build, SmartRoom!At
  <2>2. Fits(Pass, w) /\ w.step = "config" /\ w.sense = sense /\ w.temp = temp
    BY <1>1, <2>1, RulesAssumption DEF Fits, RuleJobs, RuleTypes
  <2> HIDE DEF w
  <2>3. JobsStay /\ ruleJob'[Pass] = w
    BY <2>1, <2>2, PassMoves
  <2>4. UNCHANGED <<sense, temp, value, choice, grace, boost, stray, boosted, released, controller>>
    BY <1>4 DEF SmartRoom!Build, SmartRoom!stored, SmartRoom!context, SmartRoom!world,
       SmartRoom!device, SmartRoom!timers
  <2>5. RuleTypes'
    BY <1>1, <2>1, <2>3, <2>4, IdleFits DEF RuleTypes, JobsStay
  <2> QED  BY <1>2, <2>2, <2>3, <2>4, <2>5, PassBegins DEF PassAt, Begun
<1> QED  BY <1>3, <1>4

LEMMA PassConfigures ==
    ASSUME RulesInv, SmartRoom!Configure
    PROVE  RulesInv'
<1> DEFINE w == IF Out \/ SmartRoom!Excluded THEN SmartRoom!Idle
                ELSE [ruleJob[Pass] EXCEPT !.step = IF SmartRoom!Common THEN "offs" ELSE "rules"]
<1>1. /\ Fits(Pass, ruleJob[Pass]) /\ RuleTypes /\ ruleJob[Pass].step = "config"
      /\ ruleJob[Pass].rule # "offs" /\ controller = "on"
  BY PassIsTask, IdleFits DEF RulesInv, RuleTypes, SmartRoom!Configure, SmartRoom!At, Fits
<1>2. /\ ruleJob[Pass].sense = sense
      /\ SmartRoom!Bad(ruleJob[Pass].sense, ruleJob[Pass].temp) <=> Out
  BY <1>1 DEF RulesInv, SnapshotKept, PassAt, Out, SmartRoom!Bad
<1>3. /\ applied' = SmartRoom!Excluded /\ watched' = ~SmartRoom!Excluded
      /\ choice' \in {"in", "out", "back"} /\ (choice' = "in" => ~SmartRoom!Excluded)
      /\ UNCHANGED <<room, level, released, controller, sense, temp, value, boosted, grace, boost, stray>>
      /\ occ' = IF Out /\ SmartRoom!Smart /\ SmartRoom!Automatic /\ ~SmartRoom!Excluded
                THEN "unknown" ELSE occ
  BY <1>1, <1>2 DEF SmartRoom!Configure, SmartRoom!Excluded, RuleTypes, SmartRoom!world, SmartRoom!timers
<1>4. ruleJob' = [ruleJob EXCEPT ![Pass] = w]
  BY <1>2 DEF SmartRoom!Configure, SmartRoom!Done
<1>5. Fits(Pass, w) /\ w.rule # "offs"
  BY <1>1, IdleFits, RulesAssumption DEF Fits, RuleJobs
<1>6. w.step \in {"offs", "rules"} <=> ~(Out \/ SmartRoom!Excluded)
  BY IdleFits, <1>1 DEF Fits, RuleJobs
<1>7. /\ w.step \in {"idle", "offs", "rules"} /\ (w.step = "offs" => room.kind # "ac")
      /\ w.step # "idle" => w.sense = sense
  BY <1>1, <1>2, IdleFits DEF SmartRoom!Common, Fits, RuleJobs
<1> HIDE DEF w
<1>8. JobsStay /\ ruleJob'[Pass] = w
  BY <1>4, <1>5, PassMoves
<1>9. RuleTypes'
  BY <1>1, <1>3, <1>8, IdleFits DEF RuleTypes, JobsStay
<1>10. (Holding' <=> ~(Out \/ SmartRoom!Excluded)) /\ ~PassAt({"config"})' /\ (Out' <=> Out)
  BY <1>3, <1>5, <1>6, <1>7, <1>8 DEF Holding, PassAt, Out, SmartRoom!Bad
<1>11. SnapshotKept'
  BY <1>3, <1>5, <1>7, <1>8, <1>9, <1>10 DEF SnapshotKept, PassAt, Holding, Out, SmartRoom!Bad, RuleTypes
<1>12. Live' => ~SmartRoom!Excluded /\ SmartRoom!Smart /\ SmartRoom!Automatic
  BY <1>3 DEF Live, SmartRoom!Smart, SmartRoom!Automatic
<1>13. WatchKept'
  BY <1>3, <1>12 DEF WatchKept
<1>14. Holding' => ruleJob'[Pass].sense = sense'
  BY <1>3, <1>6, <1>7, <1>8, <1>10 DEF Fits
<1>15. OccKept'
  BY <1>3, <1>10, <1>12, <1>14 DEF OccKept, Known, HeldSense
<1>16. BoostKept'
  BY <1>3, <1>10, <1>12, <1>14, <1>9 DEF BoostKept, SettledSoon, Out, SmartRoom!Bad, RuleTypes
<1>17. BoostOwn'
  BY <1>3 DEF RulesInv, BoostOwn
<1> QED  BY <1>9, <1>11, <1>13, <1>15, <1>16, <1>17 DEF RulesInv

LEMMA PassSwitchesOff ==
    ASSUME RulesInv, SmartRoom!ApplyOffs
    PROVE  RulesInv'
<1> DEFINE want == SmartRoom!Static(ruleJob[Pass].value, ruleJob[Pass].temp)
           w == IF want # None /\ ~released
                THEN [ruleJob[Pass] EXCEPT !.rule = "offs", !.step = "wait", !.want = want, !.value = "off"]
                ELSE [ruleJob[Pass] EXCEPT !.step = "rules"]
<1>1. Fits(Pass, ruleJob[Pass]) /\ RuleTypes /\ ruleJob[Pass].step = "offs"
  BY PassIsTask DEF RulesInv, RuleTypes, SmartRoom!ApplyOffs, SmartRoom!At
<1>2. /\ ruleJob' = [ruleJob EXCEPT ![Pass] = w]
      /\ UNCHANGED <<room, level, released, occ, choice, applied, watched, controller, sense, temp,
                     value, boosted, grace, boost, stray>>
  BY DEF SmartRoom!ApplyOffs, SmartRoom!stored, SmartRoom!context, SmartRoom!world, SmartRoom!timers
<1>3. /\ Fits(Pass, w) /\ w.sense = ruleJob[Pass].sense
      /\ w.step = "rules" \/ w.rule = "offs"
  BY <1>1, WantsTyped, RulesAssumption DEF Fits, RuleJobs, SmartRoom!Rules, SmartRoom!Values
<1> HIDE DEF w
<1>4. OneMoves(Pass, w) /\ SettingStays
  BY <1>1, <1>2, <1>3, PassIsTask DEF OneMoves, SettingStays, RuleTypes
<1>5. RestStays /\ (Commanding => Commanding') /\ \A rule : LooksFor(rule) => LooksFor(rule)'
  BY <1>1, <1>2, <1>4, OneTaskMoves
<1>6. OccKept' /\ BoostKept'
  BY <1>2, <1>5, OccStays, BoostStays
<1>7. BoostOwn'
  BY <1>2 DEF RulesInv, BoostOwn
<1> QED  BY <1>5, <1>6, <1>7 DEF RulesInv, RestStays

(* A pass that holds "on" welcomes the room, and what an edge found since stands. *)
LEMMA PassFollows ==
    ASSUME RulesInv, SmartRoom!ApplySmart
    PROVE  RulesInv'
<1> DEFINE s == ruleJob[Pass].sense
           w == IF s = "on"
                THEN [SmartRoom!Idle EXCEPT !.step = "comfort", !.value = ruleJob[Pass].value,
                                            !.temp = ruleJob[Pass].temp]
                ELSE SmartRoom!Idle
<1>1. /\ Fits(Pass, ruleJob[Pass]) /\ RuleTypes /\ ruleJob[Pass].step = "rules"
      /\ controller = "on"
  BY PassIsTask, IdleFits DEF RulesInv, RuleTypes, SmartRoom!ApplySmart, SmartRoom!At
<1>2. Holding /\ ~Out /\ s \in {"on", "off"} /\ sense \in {"on", "off"}
  BY <1>1 DEF RulesInv, SnapshotKept, Holding, PassAt, Out, SmartRoom!Bad, RuleTypes
<1>3. /\ ruleJob' = [ruleJob EXCEPT ![Pass] = w]
      /\ UNCHANGED <<room, level, released, choice, applied, watched, controller, sense, temp, value,
                     boosted, boost, stray>>
      /\ IF s = "on" THEN grace' = grace /\ occ' = "occupied" ELSE grace' = TRUE /\ occ' = occ
  BY <1>1 DEF SmartRoom!ApplySmart, SmartRoom!Follow, SmartRoom!SetOcc, SmartRoom!Done,
     SmartRoom!context, SmartRoom!world, SmartRoom!device, RuleTypes
<1>4. /\ Fits(Pass, w) /\ w.rule = None /\ w.step \in {"idle", "comfort"}
      /\ s = "on" => w.step = "comfort"
  <2>1. CASE s = "on"
    <3>1. /\ ruleJob[Pass].value \in SmartRoom!Values
          /\ ruleJob[Pass].temp \in {"cold", "mild", "hot", "bad"}
      BY <1>1 DEF Fits, RuleJobs
    <3> QED  BY <2>1, <3>1, PassIsTask, FollowFits
  <2>2. CASE s # "on"
    BY <2>2, IdleFits
  <2> QED  BY <2>1, <2>2
<1> HIDE DEF w
<1>5. /\ JobsStay /\ ruleJob'[Pass] = w /\ (s = "on" => Commanding') /\ (Commanding => Commanding')
      /\ \A rule : LooksFor(rule) => LooksFor(rule)'
  BY <1>1, <1>3, <1>4, PassMoves
<1>6. ~Holding' /\ ~PassAt(Begun)' /\ ~PassAt({"config"})' /\ ~PassAt({"offs"})'
  BY <1>4, <1>5, RulesAssumption DEF Holding, PassAt, Begun
<1>7. RuleTypes'
  BY <1>1, <1>3, <1>5 DEF RuleTypes, JobsStay
<1>8. SnapshotKept' /\ (Out' <=> Out) /\ (Live' <=> Live)
  BY <1>3, <1>4, <1>5, <1>6, RulesAssumption
  DEF SnapshotKept, Out, SmartRoom!Bad, Live, SmartRoom!Smart, SmartRoom!Automatic
<1>9. WatchKept'
  BY <1>1, <1>3, <1>8 DEF RulesInv, WatchKept, PassAt, Begun
<1>10. ~PassAt(Begun)
  BY <1>1 DEF PassAt, Begun
<1>11. OccKept'
  <2> SUFFICES ASSUME Live, ~LooksFor("presence") PROVE Known'
    BY <1>5, <1>6, <1>8 DEF OccKept, KnownSoon
  <2>1. s = sense \/ IF s = "on" THEN grace ELSE occ = "occupied"
    BY <1>2, <1>10 DEF RulesInv, OccKept, HeldSense
  <2> QED  BY <1>2, <1>3, <1>8, <2>1 DEF Known
<1>12. BoostKept'
  BY <1>2, <1>3, <1>5, <1>8, <1>10 DEF RulesInv, BoostKept, SettledSoon
<1>13. BoostOwn'
  BY <1>3 DEF RulesInv, BoostOwn
<1> QED  BY <1>7, <1>8, <1>9, <1>11, <1>12, <1>13 DEF RulesInv

LEMMA PassLeavesAlone ==
    ASSUME RulesInv, SmartRoom!ApplyStatic
    PROVE  RulesInv'
<1> DEFINE want == IF SmartRoom!Common THEN None
                   ELSE SmartRoom!Static(ruleJob[Pass].value, ruleJob[Pass].temp)
<1>1. /\ Fits(Pass, ruleJob[Pass]) /\ RuleTypes /\ ruleJob[Pass].step = "rules"
      /\ ruleJob[Pass].rule # "offs" /\ controller = "on" /\ ~Live
  BY PassIsTask, IdleFits DEF RulesInv, RuleTypes, SmartRoom!ApplyStatic, SmartRoom!At, Fits, Live
<1>2. /\ SmartRoom!Command(Pass, want, TRUE) /\ want \in SmartRoom!Values \cup {None}
      /\ UNCHANGED <<room, level, released, occ, choice, applied, watched, controller, sense, temp,
                     value, boosted, grace, boost, stray>>
  BY WantsTyped DEF SmartRoom!ApplyStatic, SmartRoom!stored, SmartRoom!context, SmartRoom!world,
     SmartRoom!timers
<1>3. PICK w : /\ Fits(Pass, w) /\ ruleJob' = [ruleJob EXCEPT ![Pass] = w]
               /\ w.rule # "offs" /\ w.step \in {"idle", "fan", "wait"}
  BY <1>1, <1>2, PassIsTask, CommandMoves DEF RulesInv
<1>4. JobsStay /\ ruleJob'[Pass] = w
  BY <1>3, PassMoves
<1>5. RuleTypes'
  BY <1>1, <1>2, <1>4 DEF RuleTypes, JobsStay
<1>6. SnapshotKept'
  BY <1>3, <1>4 DEF SnapshotKept, PassAt, Holding
<1>7. ~Live' /\ BoostOwn'
  BY <1>1, <1>2 DEF Live, SmartRoom!Smart, SmartRoom!Automatic, RulesInv, BoostOwn
<1> QED  BY <1>5, <1>6, <1>7, RoomRests

-----------------------------------------------------------------------------
(* The controller. *)

LEMMA LevelApplies ==
    ASSUME RulesInv, (\E l \in Levels : SmartRoom!Activate(l)) \/ SmartRoom!Reapply
    PROVE  RulesInv'
<1> DEFINE w == [SmartRoom!Idle EXCEPT !.step = "start"]
<1>1. RuleTypes /\ ruleJob[Pass] = SmartRoom!Idle
  BY DEF RulesInv, RuleTypes, SmartRoom!Activate, SmartRoom!Reapply
<1>2. ruleJob' = [ruleJob EXCEPT ![Pass] = w]
  BY <1>1, PassIsTask DEF SmartRoom!Activate, SmartRoom!Reapply, RuleTypes
<1>3. Fits(Pass, w) /\ w.step = "start"
  BY IdleFits DEF Fits, RuleJobs, SmartRoom!Idle
<1> HIDE DEF w
<1>4. JobsStay /\ ruleJob'[Pass] = w
  BY <1>2, <1>3, PassMoves
<1>5. /\ UNCHANGED <<room, choice, sense, temp, value, boosted, grace, boost, stray>>
      /\ released' = FALSE /\ controller' = "on"
  BY DEF SmartRoom!Activate, SmartRoom!Reapply, SmartRoom!world, SmartRoom!device, SmartRoom!timers,
     SmartRoom!context
<1>6. RuleTypes'
  BY <1>1, <1>4, <1>5 DEF RuleTypes, JobsStay
<1>7. BoostOwn' /\ PassAt(Begun)' /\ ~PassAt({"config"})'
  BY <1>3, <1>4, <1>5 DEF RulesInv, BoostOwn, PassAt, Begun
<1> QED  BY <1>6, <1>7, PassBegins

(* A deactivate cancels the pass; the engine and the adapter follow. *)
LEMMA LevelStops ==
    ASSUME RulesInv, SmartRoom!Deactivate \/ SmartRoom!EngineOff \/ SmartRoom!ModeStopped
    PROVE  RulesInv'
<1>1. RuleTypes /\ SnapshotKept
  BY DEF RulesInv
<1>2. /\ UNCHANGED <<room, choice, sense, temp, value, boosted, stray>>
      /\ controller' # "on" /\ (released' = released \/ released' = FALSE)
      /\ (grace' = grace \/ grace' = FALSE) /\ (boost' = boost \/ boost' = FALSE)
      /\ ruleJob' = [ruleJob EXCEPT ![Pass] = SmartRoom!Idle] \/ (ruleJob' = ruleJob /\ controller # "on")
  BY DEF SmartRoom!Deactivate, SmartRoom!EngineOff, SmartRoom!ModeStopped, SmartRoom!Done,
     SmartRoom!stored, SmartRoom!world, SmartRoom!device, SmartRoom!timers
<1>3. /\ JobsStay /\ ruleJob'[Pass] = SmartRoom!Idle
  BY <1>1, <1>2, PassMoves, IdleFits DEF RuleTypes, JobsStay
<1>4. RuleTypes'
  BY <1>1, <1>2, <1>3 DEF RuleTypes, JobsStay
<1>5. SnapshotKept'
  BY <1>3, IdleFits, RulesAssumption DEF SnapshotKept, PassAt, Holding
<1>6. ~Live' /\ BoostOwn'
  BY <1>2 DEF Live, RulesInv, BoostOwn
<1> QED  BY <1>4, <1>5, <1>6, RoomRests

(* What a hub that starts again has in flight. *)
LEMMA HubStartsAgain ==
    ASSUME RulesInv, SmartRoom!Restart
    PROVE  RulesInv'
<1> DEFINE w == [SmartRoom!Idle EXCEPT !.step = "start"]
<1>1. RuleTypes
  BY DEF RulesInv
<1>2. /\ UNCHANGED <<room, level, released, choice, sense, temp, value, boosted>>
      /\ grace' = FALSE /\ boost' = FALSE /\ stray' = FALSE
      /\ controller' = IF level = None THEN "off" ELSE "on"
      /\ ruleJob' = [t \in SmartRoom!RuleTasks |-> IF t = Pass /\ level # None THEN w ELSE SmartRoom!Idle]
  BY DEF SmartRoom!Restart, SmartRoom!stored, SmartRoom!world
<1>3. Fits(Pass, w) /\ w.step = "start" /\ w.rule = None
  BY IdleFits DEF Fits, RuleJobs, SmartRoom!Idle
<1> HIDE DEF w
<1>4. /\ JobsStay
      /\ ruleJob'[Pass] = IF level # None THEN w ELSE SmartRoom!Idle
  BY <1>2, <1>3, IdleFits, PassIsTask DEF JobsStay, Fits
<1>5. RuleTypes'
  BY <1>1, <1>2, <1>4 DEF RuleTypes, JobsStay
<1>6. BoostOwn'
  BY <1>2 DEF RulesInv, BoostOwn
<1>7. CASE level # None
  BY <1>3, <1>4, <1>5, <1>6, <1>7, PassBegins DEF PassAt, Begun
<1>8. CASE level = None
  <2>1. SnapshotKept'
    BY <1>4, <1>8, IdleFits, RulesAssumption DEF SnapshotKept, PassAt, Holding
  <2>2. ~Live'
    BY <1>2, <1>8 DEF Live
  <2> QED  BY <1>5, <1>6, <2>1, <2>2, RoomRests
<1> QED  BY <1>7, <1>8

LEMMA RoomExcluded ==
    ASSUME RulesInv, SmartRoom!Exclude
    PROVE  RulesInv'
<1>1. /\ UNCHANGED <<room, level, released, occ, controller, sense, temp, value, boosted, grace, boost,
                     stray, ruleJob>>
      /\ choice' \in {"back", "out"}
  BY DEF SmartRoom!Exclude, SmartRoom!Excluded, SmartRoom!context, SmartRoom!world, SmartRoom!device,
     SmartRoom!timers
<1>2. RuleTypes' /\ SnapshotKept' /\ ~Live' /\ BoostOwn'
  BY <1>1 DEF RulesInv, RuleTypes, SnapshotKept, PassAt, Holding, Out, SmartRoom!Bad, Live, BoostOwn
<1> QED  BY <1>2, RoomRests

-----------------------------------------------------------------------------
(* The room. *)

(* What is heard starts a rule; the other tasks stay as they are. *)
LEMMA RuleHeard ==
    ASSUME RulesInv, NEW rule \in SmartRoom!Rules, rule # "offs", SmartRoom!Free # {},
           ruleJob' = SmartRoom!Started(ruleJob, rule)
    PROVE  /\ JobsStay /\ ruleJob'[Pass] = ruleJob[Pass] /\ LooksFor(rule)'
           /\ \A r : LooksFor(r) => LooksFor(r)'
           /\ Commanding => Commanding'
<1>1. RuleTypes /\ ruleJob \in [SmartRoom!RuleTasks -> RuleJobs]
  BY DEF RulesInv, RuleTypes
<1>2. \E s \in Slots : ruleJob[s] = SmartRoom!Idle
  BY DEF SmartRoom!Free
<1>3. /\ JobsStay /\ ruleJob'[Pass] = ruleJob[Pass] /\ LooksFor(rule)'
      /\ \A u \in SmartRoom!RuleTasks : ruleJob[u].step # "idle" => ruleJob'[u] = ruleJob[u]
  BY <1>1, <1>2, RuleStarts DEF RuleTypes, JobsStay
<1>4. \A r : LooksFor(r) => LooksFor(r)'
  BY <1>1, <1>3, LooksStay
<1>5. Commanding => Commanding'
  BY <1>3 DEF Commanding
<1> QED  BY <1>3, <1>4, <1>5

LEMMA NothingHeard ==
    ASSUME RulesInv, UNCHANGED ruleJob
    PROVE  /\ JobsStay /\ ruleJob'[Pass] = ruleJob[Pass]
           /\ \A r : LooksFor(r) => LooksFor(r)'
           /\ Commanding => Commanding'
BY DEF RulesInv, RuleTypes, JobsStay, LooksFor, Commanding

(* An edge: a room that is watched has its rule on the way. *)
EdgeHeard(rule) ==
    /\ JobsStay /\ ruleJob'[Pass] = ruleJob[Pass]
    /\ \A r : LooksFor(r) => LooksFor(r)'
    /\ Commanding => Commanding'
    /\ Live => LooksFor(rule)' \/ PassAt(Begun)

LEMMA EdgesHeard ==
    ASSUME RulesInv, NEW rule \in SmartRoom!Rules, rule # "offs", SmartRoom!Hear(rule)
    PROVE  EdgeHeard(rule)
<1>1. CASE watched
  BY <1>1, RuleHeard DEF EdgeHeard, SmartRoom!Hear
<1>2. CASE ~watched
  BY <1>2, NothingHeard DEF EdgeHeard, SmartRoom!Hear, RulesInv, WatchKept
<1> QED  BY <1>1, <1>2

LEMMA PassSteady ==
    ASSUME RulesInv, Calm, NEW old, NEW new, SmartRoom!Steady(old, new)
    PROVE  /\ old = "bad" => \A r : ~LooksFor(r)
           /\ ~PassAt({"config"})
           /\ PassAt(Begun) \/ Holding => "bad" \notin {old, new}
<1>1. old = "bad" => \A s \in Slots : ruleJob[s].step # "look"
  BY DEF SmartRoom!Steady, SmartRoom!Looking, SmartRoom!At
<1>2. PassAt(Begun) \/ Holding \/ PassAt({"config"}) => ruleJob[Pass] # SmartRoom!Idle
  BY IdleFits, RulesAssumption DEF PassAt, Begun, Holding
<1> QED  BY <1>1, <1>2 DEF SmartRoom!Steady, SmartRoom!At, PassAt, LooksFor

LEMMA SomebodyComes ==
    ASSUME RulesInv, Calm, SmartRoom!PresenceChanges
    PROVE  RulesInv'
<1>1. /\ UNCHANGED <<room, level, released, occ, choice, applied, watched, controller, temp, value,
                     boosted, grace, boost, stray>>
      /\ sense' \in {"on", "off", "bad"} /\ SmartRoom!Steady(sense, sense')
  BY DEF SmartRoom!PresenceChanges, SmartRoom!stored, SmartRoom!context, SmartRoom!device,
     SmartRoom!timers
<1>2. EdgeHeard("presence")
  BY EdgesHeard DEF SmartRoom!PresenceChanges, SmartRoom!Rules
<1>3. RuleTypes'
  BY <1>1, <1>2 DEF RulesInv, RuleTypes, EdgeHeard, JobsStay
<1>4. /\ (Holding' <=> Holding) /\ (PassAt(Begun)' <=> PassAt(Begun)) /\ (Live' <=> Live)
      /\ ~PassAt({"config"})' /\ (PassAt({"offs"})' <=> PassAt({"offs"}))
  BY <1>1, <1>2, PassSteady
  DEF EdgeHeard, PassAt, Holding, Live, SmartRoom!Smart, SmartRoom!Automatic
<1>5. Holding => ~Out'
  BY <1>1, PassSteady DEF Out, SmartRoom!Bad, RulesInv, SnapshotKept
<1>6. SnapshotKept'
  BY <1>1, <1>2, <1>4, <1>5 DEF RulesInv, SnapshotKept, EdgeHeard
<1>7. WatchKept' /\ BoostOwn'
  BY <1>1, <1>4 DEF RulesInv, WatchKept, BoostOwn
<1>8. Live' => LooksFor("presence")' \/ PassAt(Begun)'
  BY <1>2, <1>4 DEF EdgeHeard
<1>9. OccKept' /\ BoostKept'
  BY <1>8 DEF OccKept, KnownSoon, HeldSense, BoostKept, SettledSoon
<1> QED  BY <1>3, <1>6, <1>7, <1>9 DEF RulesInv

LEMMA WarmthChanges ==
    ASSUME RulesInv, Calm, SmartRoom!TemperatureChanges
    PROVE  RulesInv'
<1>1. /\ UNCHANGED <<room, level, released, occ, choice, applied, watched, controller, sense, value,
                     boosted, grace, boost, stray>>
      /\ temp' \in {"cold", "mild", "hot", "bad"} /\ SmartRoom!Steady(temp, temp')
  BY DEF SmartRoom!TemperatureChanges, SmartRoom!stored, SmartRoom!context, SmartRoom!device,
     SmartRoom!timers
<1>2. EdgeHeard("temperature")
  BY EdgesHeard DEF SmartRoom!TemperatureChanges, SmartRoom!Rules
<1>3. RuleTypes'
  BY <1>1, <1>2 DEF RulesInv, RuleTypes, EdgeHeard, JobsStay
<1>4. /\ (Holding' <=> Holding) /\ (PassAt(Begun)' <=> PassAt(Begun)) /\ (Live' <=> Live)
      /\ ~PassAt({"config"})' /\ (PassAt({"offs"})' <=> PassAt({"offs"}))
      /\ ruleJob'[Pass] = ruleJob[Pass] /\ \A r : LooksFor(r) => LooksFor(r)'
  BY <1>1, <1>2, PassSteady
  DEF EdgeHeard, PassAt, Holding, Live, SmartRoom!Smart, SmartRoom!Automatic
<1>5. Holding => ~Out'
  BY <1>1, PassSteady DEF Out, SmartRoom!Bad, RulesInv, SnapshotKept
<1>6. SnapshotKept'
  BY <1>1, <1>2, <1>4, <1>5 DEF RulesInv, SnapshotKept, EdgeHeard
<1>7. WatchKept' /\ BoostOwn'
  BY <1>1, <1>4 DEF RulesInv, WatchKept, BoostOwn
<1>8. Live' => LooksFor("temperature")' \/ PassAt(Begun)'
  BY <1>2, <1>4 DEF EdgeHeard
  (* A sensor that recovers finds no rule on its way: the room was known. *)
<1>9. temp = "bad" => \A r : ~LooksFor(r)
  BY <1>1, PassSteady
<1>10. temp = "bad" => ~PassAt(Begun) /\ ~Holding
  BY <1>1, PassSteady
<1>11. Live /\ temp = "bad" => occ = "unknown"
  BY <1>9, <1>10 DEF RulesInv, OccKept, Known, KnownSoon, Out, SmartRoom!Bad
<1>12. temp # "bad" => (Out' <=> Out) \/ Out'
  BY <1>1 DEF Out, SmartRoom!Bad
<1>13. OccKept'
  <2> SUFFICES ASSUME Live', ~PassAt(Begun)'
               PROVE  (Holding' /\ HeldSense') \/ (~Holding' /\ (Known' \/ KnownSoon'))
    BY DEF OccKept
  <2>1. CASE Holding
    BY <1>1, <1>4, <2>1 DEF RulesInv, OccKept, HeldSense
  <2>2. CASE ~Holding /\ (Out' \/ temp = "bad")
    BY <1>1, <1>4, <1>8, <1>11, <2>2 DEF KnownSoon
  <2>3. CASE ~Holding /\ ~Out' /\ temp # "bad"
    BY <1>1, <1>4, <1>12, <2>3 DEF RulesInv, OccKept, Known, KnownSoon
  <2> QED  BY <2>1, <2>2, <2>3
<1>14. BoostKept'
  <2> SUFFICES ASSUME Live', sense = "on", boosted, ~PassAt(Begun)'
               PROVE  (boost \/ stray \/ SettledSoon)'
    BY <1>1 DEF BoostKept, SettledSoon
  <2>1. CASE temp = "bad"
    BY <1>1, <1>4, <1>8, <1>11, <2>1 DEF SettledSoon
  <2>2. CASE temp # "bad"
    <3>1. Commanding => Commanding'
      BY <1>2 DEF EdgeHeard
    <3> QED  BY <1>1, <1>4, <2>2, <3>1 DEF RulesInv, BoostKept, SettledSoon
  <2> QED  BY <2>1, <2>2
<1> QED  BY <1>3, <1>6, <1>7, <1>13, <1>14 DEF RulesInv

(* What is neither an edge nor the end of a timer changes nothing of what is known. *)
LEMMA OthersMove ==
    ASSUME RulesInv, SmartRoom!SunMoves \/ SmartRoom!PersonSets \/ SmartRoom!EchoEnds
    PROVE  RulesInv'
<1>1. /\ UNCHANGED <<room, level, released, occ, choice, applied, watched, controller, sense, temp,
                     grace, boost, stray>>
      /\ boosted' = boosted \/ boosted' = FALSE
  BY DEF SmartRoom!SunMoves, SmartRoom!PersonSets, SmartRoom!EchoEnds, SmartRoom!stored,
     SmartRoom!context, SmartRoom!device, SmartRoom!timers, SmartRoom!world
<1>2. value' \in SmartRoom!Values
  BY DEF SmartRoom!SunMoves, SmartRoom!PersonSets, SmartRoom!EchoEnds, SmartRoom!Settings,
     SmartRoom!Values, SmartRoom!device, RulesInv, RuleTypes
<1>3. /\ JobsStay /\ ruleJob'[Pass] = ruleJob[Pass]
      /\ \A r : LooksFor(r) => LooksFor(r)'
      /\ Commanding => Commanding'
  <2>1. \/ UNCHANGED ruleJob
        \/ /\ SmartRoom!Free # {}
           /\ \E rule \in {"sunChange", "heatWindow", "release"} :
                ruleJob' = SmartRoom!Started(ruleJob, rule)
    BY DEF SmartRoom!SunMoves, SmartRoom!PersonSets, SmartRoom!EchoEnds
  <2>2. {"sunChange", "heatWindow", "release"} \subseteq SmartRoom!Rules \ {"offs"}
    BY DEF SmartRoom!Rules
  <2> QED  BY <2>1, <2>2, RuleHeard, NothingHeard
<1>4. SettingStays
  BY <1>1, <1>2 DEF SettingStays, RulesInv, RuleTypes
<1>5. RestStays
  BY <1>3, <1>4, ContextStays DEF PassGoesOn
<1>6. OccKept' /\ BoostKept'
  BY <1>1, <1>3, <1>5, OccStays, BoostStays
<1>7. BoostOwn'
  BY <1>1 DEF RulesInv, BoostOwn
<1> QED  BY <1>5, <1>6, <1>7 DEF RulesInv, RestStays

(* The grace ends with a look at the room, and a boost with one that settles it. *)
LEMMA TimersEnd ==
    ASSUME RulesInv, Calm, SmartRoom!GraceEnds \/ SmartRoom!BoostEnds
    PROVE  RulesInv'
<1>1. /\ UNCHANGED <<room, level, released, occ, choice, applied, watched, controller, sense, temp,
                     value, boosted>>
      /\ SmartRoom!Free # {}
      /\ {grace', boost', stray'} \subseteq BOOLEAN
  BY DEF SmartRoom!GraceEnds, SmartRoom!BoostEnds, SmartRoom!stored, SmartRoom!context,
     SmartRoom!device, SmartRoom!world, RulesInv, RuleTypes
<1>2. SettingStays /\ BoostOwn'
  BY <1>1 DEF SettingStays, RulesInv, RuleTypes, BoostOwn
<1>3. CASE SmartRoom!GraceEnds
  <2>1. /\ ruleJob' = SmartRoom!Started(ruleJob, "finish") /\ ruleJob[Pass] = SmartRoom!Idle
        /\ UNCHANGED <<boost, stray>>
    BY <1>3 DEF SmartRoom!GraceEnds
  <2>2. /\ JobsStay /\ ruleJob'[Pass] = ruleJob[Pass] /\ LooksFor("finish")'
        /\ \A r : LooksFor(r) => LooksFor(r)'
        /\ Commanding => Commanding'
    BY <1>1, <2>1, RuleHeard DEF SmartRoom!Rules
  <2>3. RestStays
    BY <1>2, <2>2, ContextStays DEF PassGoesOn
  <2>4. ~Holding /\ ~PassAt(Begun)
    BY <2>1, IdleFits, RulesAssumption DEF Holding, PassAt, Begun
  <2>5. sense \in {"on", "off", "bad"}
    BY DEF RulesInv, RuleTypes
  <2>6. OccKept'
    BY <1>1, <2>2, <2>3, <2>4, <2>5
    DEF RulesInv, RestStays, OccKept, Known, KnownSoon, Out, SmartRoom!Bad
  <2>7. BoostKept'
    BY <1>1, <2>1, <2>2, <2>3, BoostStays
  <2> QED  BY <1>2, <2>3, <2>6, <2>7 DEF RulesInv, RestStays
<1>4. CASE SmartRoom!BoostEnds
  <2>1. ruleJob' = SmartRoom!Started(ruleJob, "settle") /\ grace' = grace
    BY <1>4 DEF SmartRoom!BoostEnds
  <2>2. /\ JobsStay /\ ruleJob'[Pass] = ruleJob[Pass] /\ LooksFor("settle")'
        /\ \A r : LooksFor(r) => LooksFor(r)'
    BY <1>1, <2>1, RuleHeard DEF SmartRoom!Rules
  <2>3. RestStays
    BY <1>2, <2>2, ContextStays DEF PassGoesOn
  <2>4. OccKept'
    BY <1>1, <2>1, <2>2, <2>3, OccStays
  <2>5. BoostKept'
    BY <2>2 DEF BoostKept, SettledSoon
  <2> QED  BY <1>2, <2>3, <2>4, <2>5 DEF RulesInv, RestStays
<1> QED  BY <1>3, <1>4

LEMMA RoomStays ==
    ASSUME RulesInv, UNCHANGED roomVars
    PROVE  RulesInv'
BY DEF roomVars, RulesInv, RuleTypes, Fits, SnapshotKept, PassAt, Holding, Out, SmartRoom!Bad, WatchKept,
   Live, SmartRoom!Smart, SmartRoom!Automatic, OccKept, Known, KnownSoon, HeldSense, LooksFor,
   BoostOwn, BoostKept, SettledSoon, Commanding

LEMMA RulesStep ==
    ASSUME RulesInv, Calm, SmartRoom!Next
    PROVE  RulesInv'
<1>1. ASSUME NEW t \in SmartRoom!RuleTasks,
             \/ SmartRoom!LookNot(t) \/ SmartRoom!LookExcluded(t) \/ SmartRoom!LookBad(t)
             \/ SmartRoom!LookPresence(t) \/ SmartRoom!LookTemperature(t)
             \/ SmartRoom!LookTemperatureMedium(t) \/ SmartRoom!LookSettle(t)
             \/ SmartRoom!LookEmpty(t) \/ SmartRoom!LookSun(t)
      PROVE  RulesInv'
  BY <1>1, LooksEnd, LooksAtEdges, LooksCommand, EmptyLooks
<1>2. ASSUME NEW t \in SmartRoom!RuleTasks,
             \/ SmartRoom!Mark(t) \/ SmartRoom!Clear(t) \/ SmartRoom!Welcome(t)
             \/ SmartRoom!Obey(t) \/ SmartRoom!Fails(t) \/ SmartRoom!Fan(t)
      PROVE  RulesInv'
  BY <1>2, ReleaseMarks, RoomClears, RoomWelcomes, CommandObeyed, CommandFails, FanTold
<1>3. CASE \/ SmartRoom!PassStarts \/ SmartRoom!Build \/ SmartRoom!Configure
           \/ SmartRoom!ApplyOffs \/ SmartRoom!ApplySmart \/ SmartRoom!ApplyStatic
  BY <1>3, PassPrepares, PassConfigures, PassSwitchesOff, PassFollows, PassLeavesAlone
<1>4. CASE \/ \E l \in Levels : SmartRoom!Activate(l)
           \/ SmartRoom!Reapply \/ SmartRoom!Deactivate \/ SmartRoom!EngineOff
           \/ SmartRoom!ModeStopped \/ SmartRoom!Restart \/ SmartRoom!Exclude
  BY <1>4, LevelApplies, LevelStops, HubStartsAgain, RoomExcluded
<1>5. CASE \/ SmartRoom!PresenceChanges \/ SmartRoom!TemperatureChanges \/ SmartRoom!SunMoves
           \/ SmartRoom!PersonSets \/ SmartRoom!EchoEnds \/ SmartRoom!GraceEnds
           \/ SmartRoom!BoostEnds
  BY <1>5, SomebodyComes, WarmthChanges, OthersMove, TimersEnd
<1> QED  BY <1>1, <1>2, <1>3, <1>4, <1>5 DEF SmartRoom!Next

(* A room at rest has no rule on its way: what is known is what is. *)
LEMMA RulesSound ==
    ASSUME RulesInv
    PROVE  SmartRoom!OccupancyFollows /\ SmartRoom!BoostTracked
<1>1. SUFFICES ASSUME SmartRoom!AtRest
               PROVE  SmartRoom!OccupancyFollows /\ SmartRoom!BoostTracked
  BY DEF SmartRoom!OccupancyFollows, SmartRoom!BoostTracked
<1>2. Live /\ \A t \in SmartRoom!RuleTasks : ruleJob[t] = SmartRoom!Idle
  BY <1>1 DEF SmartRoom!AtRest, SmartRoom!Busy, Live
<1>3. /\ ~PassAt(Begun) /\ ~Holding /\ ~Commanding /\ \A r : ~LooksFor(r)
  BY <1>2, IdleFits, PassIsTask, RulesAssumption DEF PassAt, Begun, Holding, Commanding, LooksFor
<1>4. Known
  BY <1>2, <1>3 DEF RulesInv, OccKept, KnownSoon
<1>5. sense = "on" /\ temp # "bad" /\ boosted => boost \/ stray
  BY <1>2, <1>3 DEF RulesInv, BoostKept, SettledSoon
<1> QED  BY <1>4, <1>5 DEF SmartRoom!OccupancyFollows, SmartRoom!BoostTracked, Known, Out

RulesHold == part = "rules" => RulesInv

LEMMA RulesStart == HomeInit => RulesHold
BY RulesInit DEF HomeInit, RulesHold

LEMMA RulesGoOn == Calm => (RulesHold /\ [HomeNext]_homeVars => RulesHold')
<1> SUFFICES ASSUME Calm, RulesHold, [HomeNext]_homeVars, part' = "rules" PROVE RulesInv'
  BY DEF RulesHold
<1>1. part = "rules" /\ RulesInv
  BY DEF RulesHold, HomeNext, homeVars
<1>2. CASE HomeNext
  BY <1>1, <1>2, RulesStep DEF HomeNext
<1>3. CASE UNCHANGED homeVars
  BY <1>1, <1>3, RoomStays DEF homeVars
<1> QED  BY <1>2, <1>3

(* However edges, timers, people, passes and restarts overlap, a Smart room that *)
(* comes to rest is known for what it is.                                        *)
THEOREM OccupancyAlwaysFollows == Calm => (HomeSpec => []OccupancyFollows)
<1> SUFFICES ASSUME Calm PROVE HomeSpec => []OccupancyFollows
  OBVIOUS
<1>1. RulesHold => OccupancyFollows
  BY RulesSound DEF RulesHold, OccupancyFollows
<1>2. RulesHold /\ [HomeNext]_homeVars => RulesHold'
  BY RulesGoOn
<1> QED  BY <1>1, <1>2, RulesStart, PTL DEF HomeSpec

(* No AC the hub boosted in an occupied room is left without a timer that will   *)
(* settle it, unless a person took it or its last command failed.                *)
THEOREM BoostAlwaysTracked == Calm => (HomeSpec => []BoostTracked)
<1> SUFFICES ASSUME Calm PROVE HomeSpec => []BoostTracked
  OBVIOUS
<1>1. RulesHold => BoostTracked
  BY RulesSound DEF RulesHold, BoostTracked
<1>2. RulesHold /\ [HomeNext]_homeVars => RulesHold'
  BY RulesGoOn
<1> QED  BY <1>1, <1>2, RulesStart, PTL DEF HomeSpec
=============================================================================
