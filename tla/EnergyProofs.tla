---------------------------- MODULE EnergyProofs ----------------------------
(***************************************************************************)
(* Proofs about Energy: types, the line for the lock, and what a deactivate *)
(* does to the requests before it.                                         *)
(*                                                                         *)
(* Most steps move one request on, at the head of the line, or let it      *)
(* leave; what a step does to the line is proved once per form of step     *)
(* (Forms), and what it does to the home once per action.                  *)
(***************************************************************************)
EXTENDS Energy, TLAPS

(* The forms of a step, as the line sees it. *)
Stays(t) ==
    /\ Holds(t)
    /\ \E job \in Jobs :
         /\ task' = [task EXCEPT ![t] = job]
         /\ job.op = task[t].op /\ job.cur = task[t].cur
         /\ job.at \notin AfterLock \cup {"wait"}
    /\ UNCHANGED <<queue, wantOff>>

Leaves(t) ==
    /\ Holds(t)
    /\ Leave(t)
    /\ UNCHANGED wantOff

HandsOver(t) ==
    /\ Holds(t) /\ task[t].op = "reset"
    /\ task' = [task EXCEPT ![t] = [task[t] EXCEPT !.at = "check", !.entity = None]]
    /\ queue' = Tail(queue)
    /\ UNCHANGED wantOff

Finishes(t) ==
    /\ task[t].at \in AfterLock
    /\ \/ task' = [task EXCEPT ![t] = Idle]
       \/ task' = [task EXCEPT ![t] = [task[t] EXCEPT !.at = "wipe", !.entity = None]]
    /\ UNCHANGED <<queue, wantOff>>

Asks(t, op) ==
    /\ task[t] = Idle
    /\ queue' = Append(queue, t)
    /\ task' = [task EXCEPT ![t] = Asked(op)]
    /\ wantOff' = (wantOff /\ op # "activate")

Supersedes(t, op) ==
    /\ task[t] = Idle
    /\ queue' = Append(queue, t)
    /\ task' = [u \in Tasks |-> IF u = t THEN Asked(op) ELSE Outdated(task[u])]
    /\ wantOff' = (wantOff \/ op # "stop")

Newer == {"deactivate", "reset", "stop"}

Requests(t, op) ==
    /\ up = "up"
    /\ \/ Asks(t, op) /\ op \notin Newer
       \/ Supersedes(t, op) /\ op \in Newer

-----------------------------------------------------------------------------
(* What the line is made of. *)

LEMMA TailFacts ==
    ASSUME NEW q \in Seq(Tasks), q # <<>>
    PROVE  /\ Tail(q) \in Seq(Tasks)
           /\ Len(q) \in Nat /\ Len(q) >= 1 /\ Len(Tail(q)) = Len(q) - 1
           /\ Head(q) = q[1] /\ q[1] \in Tasks
           /\ \A i \in 1..Len(Tail(q)) : i + 1 \in 1..Len(q) /\ Tail(q)[i] = q[i + 1]
OBVIOUS

LEMMA AppendFacts ==
    ASSUME NEW q \in Seq(Tasks), NEW t \in Tasks
    PROVE  /\ Append(q, t) \in Seq(Tasks)
           /\ Append(q, t) # <<>>
           /\ Len(q) \in Nat /\ Len(Append(q, t)) = Len(q) + 1
           /\ \A i \in 1..Len(q) : i \in 1..Len(Append(q, t)) /\ Append(q, t)[i] = q[i]
           /\ Append(q, t)[Len(q) + 1] = t
           /\ q # <<>> => Head(Append(q, t)) = Head(q)
           /\ q = <<>> => Head(Append(q, t)) = t
OBVIOUS

LEMMA IdleTyped ==
    /\ Idle \in Jobs
    /\ Idle.op = "idle" /\ Idle.at = "done" /\ ~Idle.cur
BY DEF Idle, Jobs, Ops, Transitions, Places

LEMMA AskedTyped ==
    ASSUME NEW op \in Ops
    PROVE  /\ Asked(op) \in Jobs
           /\ Asked(op).op = op /\ Asked(op).at = "wait" /\ Asked(op).cur
BY DEF Asked, Idle, Jobs, Ops, Transitions, Places

LEMMA OutdatedTyped ==
    ASSUME NEW job \in Jobs
    PROVE  /\ Outdated(job) \in Jobs
           /\ Outdated(job).op = job.op /\ ~Outdated(job).cur
           /\ Outdated(job).at = IF job.at \in {"devices", "sent"} THEN "done" ELSE job.at
           /\ Outdated(job).mind = job.mind /\ Outdated(job).entity = job.entity
           /\ Outdated(job).todo = job.todo
BY DEF Outdated, Jobs, Places

LEMMA SentTyped ==
    ASSUME NEW job \in Jobs, NEW place \in Places
    PROVE  /\ [job EXCEPT !.at = place, !.entity = None] \in Jobs
           /\ [job EXCEPT !.at = place, !.entity = None].at = place
           /\ [job EXCEPT !.at = place, !.entity = None].op = job.op
           /\ [job EXCEPT !.at = place, !.entity = None].cur = job.cur
           /\ [job EXCEPT !.at = place, !.entity = None].mind = job.mind
           /\ [job EXCEPT !.at = place, !.entity = None].todo = job.todo
BY DEF Jobs, Places

-----------------------------------------------------------------------------
(* What a request in flight does to the line. *)

LEMMA StayForm ==
    ASSUME TypeOK, NEW t \in Tasks, Holds(t), NEW job \in Jobs,
           Goes(t, job), job.op = task[t].op, job.cur = task[t].cur,
           job.at \notin AfterLock \cup {"wait"}, UNCHANGED <<queue, wantOff>>
    PROVE  Stays(t)
BY DEF Stays, Goes

(* A request that only goes to another place. *)
LEMMA ToForm ==
    ASSUME TypeOK, NEW t \in Tasks, Holds(t), NEW place \in Places,
           To(t, place), place \notin AfterLock \cup {"wait"},
           UNCHANGED <<queue, wantOff>>
    PROVE  Stays(t)
<1>1. task[t] \in Jobs
  BY DEF TypeOK
<1> DEFINE job == [task[t] EXCEPT !.at = place, !.entity = None]
<1>2. job \in Jobs /\ job.at = place /\ job.op = task[t].op /\ job.cur = task[t].cur
  BY <1>1, SentTyped
<1>3. Goes(t, job)
  BY DEF To
<1> QED  BY <1>2, <1>3, StayForm

LEMMA ProceedForms ==
    ASSUME TypeOK, Shape, NEW t \in Tasks, Proceed(t) \/ Answer(t)
    PROVE  Stays(t) \/ Leaves(t) \/ HandsOver(t) \/ Finishes(t)
<1>0. task[t] \in Jobs
  BY DEF TypeOK
<1>1. CASE Enter(t)
  <2>1. To(t, "commit") \/ To(t, "read") \/ To(t, "restore")
    BY <1>1 DEF Enter
  <2> QED  BY <1>1, <2>1, ToForm DEF Enter, At, Quietly, Places, AfterLock
<1>2. CASE TurnedAway(t)
  BY <1>2 DEF TurnedAway, Leaves, At, Quietly
<1>3. CASE StopEnds(t)
  BY <1>3 DEF StopEnds, Leaves, At
<1>4. CASE RecordOn(t)
  <2>1. CASE Leave(t)
    BY <1>4, <2>1 DEF RecordOn, Leaves, At
  <2>2. CASE To(t, "read") /\ UNCHANGED queue
    BY <1>4, <2>2, ToForm DEF RecordOn, At, Places, AfterLock
  <2> QED  BY <1>4, <2>1, <2>2 DEF RecordOn
<1>5. CASE RecordOff(t)
  BY <1>5, ToForm DEF RecordOff, At, Places, AfterLock
<1>6. CASE ReadRemembered(t)
  <2> DEFINE job == [task[t] EXCEPT !.at = "pass", !.mind = owed, !.todo = on \ owed]
  <2>1. job \in Jobs /\ job.at = "pass" /\ job.op = task[t].op /\ job.cur = task[t].cur
    BY <1>0 DEF Jobs, Places, TypeOK
  <2> QED  BY <1>6, <2>1, StayForm DEF ReadRemembered, At, Quietly, AfterLock
<1>7. CASE \E a \in Automations : Consider(t, a)
  <2> PICK a \in Automations : Consider(t, a)
    BY <1>7
  <2> DEFINE past == [task[t] EXCEPT !.todo = @ \ {a}]
  <2> DEFINE off == [task[t] EXCEPT !.todo = @ \ {a}, !.at = "off", !.entity = a]
  <2>1. task[t].at = "pass" /\ Holds(t)
    BY DEF Consider, At
  <2>2. past \in Jobs /\ past.at = "pass" /\ past.op = task[t].op /\ past.cur = task[t].cur
    BY <1>0, <2>1 DEF Jobs, Places
  <2>3. off \in Jobs /\ off.at = "off" /\ off.op = task[t].op /\ off.cur = task[t].cur
    BY <1>0 DEF Jobs, Places
  <2>4. Leave(t) \/ (Goes(t, past) /\ UNCHANGED queue) \/ (Goes(t, off) /\ UNCHANGED queue)
    BY DEF Consider
  <2>5. UNCHANGED wantOff
    BY DEF Consider, Quietly
  <2> HIDE DEF past, off
  <2> QED  BY <2>1, <2>2, <2>3, <2>4, <2>5, StayForm DEF Leaves, AfterLock
<1>8. CASE TurnOff(t)
  <2> DEFINE job == [task[t] EXCEPT !.at = "save", !.mind = @ \cup {task[t].entity}]
  <2>1. task[t].entity \in Automations
    BY <1>8 DEF TurnOff, At, Shape
  <2>2. job \in Jobs /\ job.at = "save" /\ job.op = task[t].op /\ job.cur = task[t].cur
    BY <1>0, <2>1 DEF Jobs, Places
  <2> QED  BY <1>8, <2>2, StayForm DEF TurnOff, At, AfterLock
<1>9. CASE TurnOffFails(t)
  BY <1>9, ToForm DEF TurnOffFails, At, Quietly, Places, AfterLock
<1>10. CASE Remember(t)
  BY <1>10, ToForm DEF Remember, At, Places, AfterLock
<1>11. CASE PassEnds(t)
  <2> DEFINE job == [task[t] EXCEPT !.at = "devices", !.todo = Devices]
  <2>1. job \in Jobs /\ job.at = "devices" /\ job.op = task[t].op /\ job.cur = task[t].cur
    BY <1>0 DEF Jobs, Places
  <2> QED  BY <1>11, <2>1, StayForm DEF PassEnds, At, Quietly, Leaves, AfterLock
<1>12. CASE \E d \in Devices : Command(t, d)
  <2> PICK d \in Devices : Command(t, d)
    BY <1>12
  <2> DEFINE job == [task[t] EXCEPT !.at = "sent", !.entity = d, !.todo = @ \ {d}]
  <2>1. job \in Jobs /\ job.at = "sent" /\ job.op = task[t].op /\ job.cur = task[t].cur
    BY <1>0 DEF Jobs, Places
  <2> QED  BY <2>1, StayForm DEF Command, At, Quietly, AfterLock
<1>13. CASE DevicesEnd(t)
  BY <1>13 DEF DevicesEnd, Leaves, At, Quietly
<1>14. CASE ReadOwed(t)
  <2> DEFINE job == [task[t] EXCEPT !.at = "back", !.mind = owed, !.todo = owed]
  <2>1. job \in Jobs /\ job.at = "back" /\ job.op = task[t].op /\ job.cur = task[t].cur
    BY <1>0 DEF Jobs, Places, TypeOK
  <2> QED  BY <1>14, <2>1, StayForm DEF ReadOwed, At, Quietly, AfterLock
<1>15. CASE \E a \in Automations : TurnOn(t, a)
  <2> PICK a \in Automations : TurnOn(t, a)
    BY <1>15
  <2> DEFINE job == [task[t] EXCEPT !.at = "keep", !.mind = @ \ {a}, !.todo = @ \ {a}]
  <2>1. job \in Jobs /\ job.at = "keep" /\ job.op = task[t].op /\ job.cur = task[t].cur
    BY <1>0 DEF Jobs, Places
  <2> QED  BY <2>1, StayForm DEF TurnOn, At, AfterLock
<1>16. CASE \E a \in Automations : TurnOnFails(t, a)
  <2> PICK a \in Automations : TurnOnFails(t, a)
    BY <1>16
  <2> DEFINE job == [task[t] EXCEPT !.todo = @ \ {a}]
  <2>1. task[t].at = "back" /\ Holds(t)
    BY DEF TurnOnFails, At
  <2>2. job \in Jobs /\ job.at = "back" /\ job.op = task[t].op /\ job.cur = task[t].cur
    BY <1>0, <2>1 DEF Jobs, Places
  <2> QED  BY <2>1, <2>2, StayForm DEF TurnOnFails, AfterLock
<1>17. CASE SaveOwed(t)
  BY <1>17, ToForm DEF SaveOwed, At, Places, AfterLock
<1>18. CASE RestoreEnds(t)
  BY <1>18 DEF RestoreEnds, HandsOver, Leaves, To, Goes, At, Quietly
<1>19. CASE ResetChecks(t)
  BY <1>19 DEF ResetChecks, Finishes, To, Goes, Quietly, AfterLock
<1>20. CASE ResetWipe(t)
  BY <1>20 DEF ResetWipe, Finishes, Goes, AfterLock
<1>21. CASE Answer(t)
  BY <1>21, ToForm DEF Answer, At, Quietly, Places, AfterLock
<1> QED  BY <1>1, <1>2, <1>3, <1>4, <1>5, <1>6, <1>7, <1>8, <1>9, <1>10, <1>11,
            <1>12, <1>13, <1>14, <1>15, <1>16, <1>17, <1>18, <1>19, <1>20, <1>21
         DEF Proceed

(* The whole of Next, by what it does to the line. *)
LineStep(t) == Stays(t) \/ Leaves(t) \/ HandsOver(t) \/ Finishes(t)

LEMMA NextForms ==
    ASSUME TypeOK, Shape, [Next]_vars
    PROVE  \/ \E t \in Tasks : LineStep(t)
           \/ \E t \in Tasks : \E op \in Ops \ {"idle"} : Requests(t, op)
           \/ \E t \in Tasks : Start(t)
           \/ Crash
           \/ UNCHANGED <<queue, task, wantOff>>
<1>1. CASE \E t \in Tasks : Request(t)
  <2> PICK t \in Tasks : Request(t)
    BY <1>1
  <2>1. ASSUME NEW op \in {"activate", "reapply"}, Ask(t, op)
        PROVE  op \in Ops \ {"idle"} /\ Requests(t, op)
    BY <2>1 DEF Ask, Free, Goes, Asks, Requests, Ops, Transitions, Newer
  <2>2. ASSUME NEW op \in {"deactivate", "reset", "stop"}, Supersede(t, op)
        PROVE  op \in Ops \ {"idle"} /\ Requests(t, op)
    BY <2>2 DEF Supersede, Free, Supersedes, Requests, Ops, Transitions, Newer
  <2>3. \E op \in Ops \ {"idle"} : Requests(t, op)
    BY <2>1, <2>2, Zenon DEF Request
  <2> QED  BY <2>3
<1>2. CASE \E t \in Tasks : Proceed(t) \/ Answer(t)
  BY <1>2, ProceedForms DEF LineStep
<1>3. CASE \E a \in Automations : PersonSwitches(a) \/ SetWorks(a)
  BY <1>3 DEF PersonSwitches, SetWorks
<1>4. CASE UNCHANGED vars
  BY <1>4 DEF vars
<1> QED  BY <1>1, <1>2, <1>3, <1>4 DEF Next

LineTypes ==
    /\ queue \in Seq(Tasks) /\ task \in [Tasks -> Jobs]
    /\ \A t \in Tasks :
         task[t].at \notin {"wait", "done", "check", "wipe"} => Holds(t)
    /\ wantOff \in BOOLEAN

LEMMA LineTyped ==
    ASSUME TypeOK, Shape, [Next]_vars
    PROVE  LineTypes'
<1> USE DEF TypeOK, LineTypes
<1>1. ASSUME NEW t \in Tasks, Stays(t)
      PROVE  LineTypes'
  BY <1>1 DEF Stays, Holds
<1>2. ASSUME NEW t \in Tasks, Leaves(t) \/ HandsOver(t)
      PROVE  LineTypes'
  <2>1. queue # <<>> /\ Head(queue) = t /\ queue' = Tail(queue)
    BY <1>2 DEF Leaves, HandsOver, Holds, Leave
  <2>2. queue' \in Seq(Tasks)
    BY <2>1, TailFacts
  <2> DEFINE checks == [task[t] EXCEPT !.at = "check", !.entity = None]
  <2>3. checks \in Jobs /\ checks.at = "check"
    BY SentTyped DEF Places
  <2>4. task' = [task EXCEPT ![t] = Idle] \/ task' = [task EXCEPT ![t] = checks]
    BY <1>2 DEF Leaves, HandsOver, Leave, Goes
  <2> HIDE DEF checks
  <2>5. \E job \in Jobs : task' = [task EXCEPT ![t] = job] /\ job.at \in {"done", "check"}
    BY <2>3, <2>4, IdleTyped
  <2>6. \A u \in Tasks : task'[u].at \in {"wait", "done", "check", "wipe"}
    BY <2>1, <2>5 DEF Holds
  <2> QED  BY <1>2, <2>2, <2>5, <2>6 DEF Leaves, HandsOver
<1>3. ASSUME NEW t \in Tasks, Finishes(t)
      PROVE  LineTypes'
  <2> DEFINE wipes == [task[t] EXCEPT !.at = "wipe", !.entity = None]
  <2>1. wipes \in Jobs /\ wipes.at = "wipe"
    BY SentTyped DEF Places
  <2>2. task' = [task EXCEPT ![t] = Idle] \/ task' = [task EXCEPT ![t] = wipes]
    BY <1>3 DEF Finishes
  <2> HIDE DEF wipes
  <2>3. PICK job \in Jobs : task' = [task EXCEPT ![t] = job] /\ job.at \in {"done", "wipe"}
    BY <2>1, <2>2, IdleTyped
  <2> QED  BY <1>3, <2>3 DEF Finishes, Holds
<1>4. ASSUME NEW t \in Tasks, NEW op \in Ops, Asks(t, op) \/ Supersedes(t, op)
      PROVE  LineTypes'
  <2>1. queue' = Append(queue, t)
    BY <1>4 DEF Asks, Supersedes
  <2>2. task' \in [Tasks -> Jobs]
    BY <1>4, AskedTyped, OutdatedTyped DEF Asks, Supersedes
  <2>3. ASSUME NEW u \in Tasks
        PROVE  \/ task'[u].at \in {"wait", "done"}
               \/ task'[u].at = task[u].at
    BY <1>4, AskedTyped, OutdatedTyped DEF Asks, Supersedes
  <2>4. \A u \in Tasks : task'[u].at \notin {"wait", "done", "check", "wipe"} =>
                  queue' # <<>> /\ Head(queue') = u
    BY <2>1, <2>3, AppendFacts DEF Holds
  <2>5. wantOff' \in BOOLEAN
    BY <1>4 DEF Asks, Supersedes
  <2> QED  BY <2>1, <2>2, <2>4, <2>5, AppendFacts DEF Holds
<1>5. ASSUME NEW t \in Tasks, Start(t)
      PROVE  LineTypes'
  BY <1>5, IdleTyped, AskedTyped DEF Start, Ops, Transitions
<1>6. CASE Crash
  BY <1>6, IdleTyped DEF Crash
<1>7. CASE UNCHANGED <<queue, task, wantOff>>
  BY <1>7 DEF Holds
<1> HIDE DEF TypeOK, LineTypes
<1> QED  BY <1>1, <1>2, <1>3, <1>4, <1>5, <1>6, <1>7, NextForms DEF LineStep, Requests

-----------------------------------------------------------------------------
(* Types *)

HomeTypes ==
    /\ up \in {"up", "stopping", "down"}
    /\ active \in BOOLEAN /\ saved \in BOOLEAN
    /\ on \subseteq Automations /\ works \subseteq Automations
    /\ owed \subseteq Automations
    /\ hubOff \subseteq Automations /\ failed \subseteq Automations
    /\ lost \subseteq Automations

LEMMA ProceedHomeTyped ==
    ASSUME TypeOK, Shape, NEW t \in Tasks, Proceed(t)
    PROVE  HomeTypes'
<1>0. task[t] \in Jobs /\ HomeTypes
  BY DEF TypeOK, HomeTypes
<1>1. task[t].mind \subseteq Automations
  BY <1>0 DEF Jobs
<1>2. CASE Quietly
  BY <1>0, <1>2 DEF Quietly, HomeTypes
<1>3. CASE StopEnds(t)
  BY <1>0, <1>3 DEF StopEnds, HomeTypes
<1>4. CASE RecordOn(t)
  BY <1>0, <1>4 DEF RecordOn, level, HomeTypes
<1>5. CASE RecordOff(t)
  BY <1>0, <1>5 DEF RecordOff, HomeTypes
<1>6. CASE TurnOff(t)
  BY <1>0, <1>6 DEF TurnOff, HomeTypes
<1>7. CASE Remember(t)
  BY <1>0, <1>1, <1>7 DEF Remember, HomeTypes
<1>8. CASE \E a \in Automations : TurnOn(t, a)
  BY <1>0, <1>8 DEF TurnOn, HomeTypes
<1>9. CASE \E a \in Automations : TurnOnFails(t, a)
  BY <1>0, <1>9 DEF TurnOnFails, HomeTypes
<1>10. CASE SaveOwed(t)
  BY <1>0, <1>1, <1>10 DEF SaveOwed, HomeTypes
<1>11. CASE ResetWipe(t)
  BY <1>0, <1>11 DEF ResetWipe, HomeTypes
<1> QED  BY <1>2, <1>3, <1>4, <1>5, <1>6, <1>7, <1>8, <1>9, <1>10, <1>11
         DEF Proceed, Enter, TurnedAway, ReadRemembered, Consider, TurnOffFails,
             PassEnds, Command, DevicesEnd, ReadOwed, RestoreEnds, ResetChecks

LEMMA HomeTyped ==
    ASSUME TypeOK, Shape, [Next]_vars
    PROVE  HomeTypes'
<1>0. HomeTypes
  BY DEF TypeOK, HomeTypes
<1>1. ASSUME NEW t \in Tasks, NEW op \in {"activate", "reapply"}, Ask(t, op)
      PROVE  HomeTypes'
  BY <1>0, <1>1 DEF Ask, HomeTypes
<1>2. ASSUME NEW t \in Tasks, NEW op \in Newer, Supersede(t, op)
      PROVE  HomeTypes'
  BY <1>0, <1>2 DEF Supersede, HomeTypes
<1>3. ASSUME NEW t \in Tasks, Answer(t)
      PROVE  HomeTypes'
  BY <1>0, <1>3 DEF Answer, Quietly, HomeTypes
<1>4. ASSUME NEW t \in Tasks, Start(t)
      PROVE  HomeTypes'
  BY <1>0, <1>4 DEF Start, HomeTypes
<1>5. ASSUME NEW a \in Automations, PersonSwitches(a) \/ SetWorks(a)
      PROVE  HomeTypes'
  BY <1>0, <1>5 DEF PersonSwitches, SetWorks, HomeTypes
<1>6. CASE Crash
  BY <1>0, <1>6 DEF Crash, HomeTypes
<1>7. CASE UNCHANGED vars
  BY <1>0, <1>7 DEF vars, HomeTypes
<1> QED  BY <1>1, <1>2, <1>3, <1>4, <1>5, <1>6, <1>7, ProceedHomeTyped
         DEF Next, Request, Newer

LEMMA TypesKept ==
    ASSUME TypeOK, Shape, [Next]_vars
    PROVE  TypeOK'
BY LineTyped, HomeTyped DEF TypeOK, LineTypes, HomeTypes

-----------------------------------------------------------------------------
(* Which requests can be where *)

ShapeOf(job) ==
    /\ job.op = "idle" => job = Idle
    /\ job.at \in InPass => job.op \in Transitions
    /\ job.at \in {"devices", "sent"} => job.cur
    /\ job.at = "commit" => job.op \in {"activate", "reapply"} \cup Offs
    /\ job.at \in InRestore => job.op \in {"resume"} \cup Offs
    /\ job.at \in AfterLock => job.op = "reset"
    /\ job.at = "done" => job.op \in Transitions \cup {"idle"}
    /\ job.at \in {"off", "save"} => job.entity \in Automations
    /\ job.at \in {"pass", "off", "save"} => job.todo \subseteq Automations

LEMMA ShapeSplit == Shape <=> \A t \in Tasks : ShapeOf(task[t])
BY DEF Shape, ShapeOf

LEMMA ShapeIdle == ShapeOf(Idle)
BY DEF ShapeOf, Idle, InPass, InRestore, AfterLock

LEMMA ShapeAsked == ASSUME NEW op \in Ops \ {"idle"} PROVE ShapeOf(Asked(op))
BY DEF ShapeOf, Asked, Idle, InPass, InRestore, AfterLock

LEMMA ShapeOutdated ==
    ASSUME NEW job \in Jobs, ShapeOf(job)
    PROVE  ShapeOf(Outdated(job))
<1>1. CASE job.op = "idle"
  <2>1. Outdated(Idle) = Idle
    <3>1. Outdated(Idle) = [Idle EXCEPT !.cur = FALSE, !.at = "done"]
      BY DEF Outdated, Idle
    <3> QED  BY <3>1 DEF Idle
  <2> QED  BY <1>1, <2>1 DEF ShapeOf
<1>2. CASE job.op # "idle"
  BY <1>2, OutdatedTyped DEF ShapeOf, InPass, InRestore, AfterLock
<1> QED  BY <1>1, <1>2

(* A request that moves takes its shape along. *)
LEMMA ShapeGoes ==
    ASSUME TypeOK, Shape, NEW t \in Tasks, NEW job, ShapeOf(job), Goes(t, job)
    PROVE  Shape'
BY DEF TypeOK, Shape, ShapeOf, Goes

LEMMA ShapeTo ==
    ASSUME TypeOK, Shape, NEW t \in Tasks, NEW place \in Places, To(t, place),
           task[t].op # "idle",
           place \in InPass => task[t].op \in Transitions,
           place \in {"read", "pass", "commit", "restore", "back", "devices", "check", "wipe"},
           place = "pass" => task[t].todo \subseteq Automations,
           place = "devices" => task[t].cur,
           place = "commit" => task[t].op \in {"activate", "reapply"} \cup Offs,
           place \in InRestore => task[t].op \in {"resume"} \cup Offs,
           place \in AfterLock => task[t].op = "reset"
    PROVE  Shape'
<1> DEFINE job == [task[t] EXCEPT !.at = place, !.entity = None]
<1>1. task[t] \in Jobs
  BY DEF TypeOK
<1>2. ShapeOf(job)
  BY <1>1 DEF ShapeOf, Jobs, InPass, InRestore, AfterLock
<1> QED  BY <1>2, ShapeGoes DEF To

LEMMA ProceedShape ==
    ASSUME TypeOK, Shape, NEW t \in Tasks, Proceed(t) \/ Answer(t)
    PROVE  Shape'
<1>0. task[t] \in Jobs /\ ShapeOf(task[t])
  BY ShapeSplit DEF TypeOK
<1> USE DEF At, Places, InPass, InRestore, AfterLock, Offs
<1>1. CASE Leave(t)
  BY <1>1, ShapeIdle, ShapeGoes DEF Leave
<1>2. CASE Enter(t)
  <2>1. task[t].op # "idle"
    BY <1>0, <1>2 DEF Enter, ShapeOf, Idle
  <2>2. CASE task[t].op # "resume"
    BY <1>0, <1>2, <2>1, <2>2, ShapeTo DEF Enter, Jobs, Ops, Transitions
  <2>3. CASE task[t].op = "resume" /\ active
    BY <1>2, <2>1, <2>3, ShapeTo DEF Enter, Transitions
  <2>4. CASE task[t].op = "resume" /\ ~active
    BY <1>2, <2>1, <2>4, ShapeTo DEF Enter, Transitions
  <2> QED  BY <2>2, <2>3, <2>4 DEF TypeOK
<1>3. CASE RecordOn(t) /\ To(t, "read")
  BY <1>3, ShapeTo DEF RecordOn, Transitions
<1>4. CASE RecordOff(t)
  BY <1>4, ShapeTo DEF RecordOff
<1>5. CASE ReadRemembered(t)
  <2> DEFINE job == [task[t] EXCEPT !.at = "pass", !.mind = owed, !.todo = on \ owed]
  <2>1. ShapeOf(job)
    BY <1>0, <1>5 DEF ReadRemembered, ShapeOf, Jobs, TypeOK, Idle
  <2> QED  BY <1>5, <2>1, ShapeGoes DEF ReadRemembered
<1>6. CASE \E a \in Automations : Consider(t, a) /\ ~Leave(t)
  <2> PICK a \in Automations : Consider(t, a) /\ ~Leave(t)
    BY <1>6
  <2> DEFINE past == [task[t] EXCEPT !.todo = @ \ {a}]
  <2> DEFINE off == [task[t] EXCEPT !.todo = @ \ {a}, !.at = "off", !.entity = a]
  <2>1. ShapeOf(past)
    BY <1>0 DEF Consider, ShapeOf, Jobs, Idle
  <2>2. ShapeOf(off)
    BY <1>0 DEF Consider, ShapeOf, Jobs, Idle
  <2>3. Goes(t, past) \/ Goes(t, off)
    BY DEF Consider
  <2> HIDE DEF past, off
  <2> QED  BY <2>1, <2>2, <2>3, ShapeGoes
<1>7. CASE TurnOff(t)
  <2> DEFINE job == [task[t] EXCEPT !.at = "save", !.mind = @ \cup {task[t].entity}]
  <2>1. ShapeOf(job)
    BY <1>0, <1>7 DEF TurnOff, ShapeOf, Jobs, Idle
  <2> QED  BY <1>7, <2>1, ShapeGoes DEF TurnOff
<1>8. CASE TurnOffFails(t) \/ Remember(t)
  BY <1>0, <1>8, ShapeTo DEF TurnOffFails, Remember, ShapeOf, Transitions
<1>9. CASE PassEnds(t) /\ ~Leave(t)
  <2> DEFINE job == [task[t] EXCEPT !.at = "devices", !.todo = Devices]
  <2>1. ShapeOf(job)
    BY <1>0, <1>9 DEF PassEnds, ShapeOf, Jobs, Idle
  <2> QED  BY <1>9, <2>1, ShapeGoes DEF PassEnds
<1>10. CASE \E d \in Devices : Command(t, d)
  <2> PICK d \in Devices : Command(t, d)
    BY <1>10
  <2> DEFINE job == [task[t] EXCEPT !.at = "sent", !.entity = d, !.todo = @ \ {d}]
  <2>1. ShapeOf(job)
    BY <1>0 DEF Command, ShapeOf, Jobs, Idle
  <2> QED  BY <2>1, ShapeGoes DEF Command
<1>11. CASE Answer(t)
  BY <1>0, <1>11, ShapeTo DEF Answer, ShapeOf, Transitions
<1>12. CASE ReadOwed(t)
  <2> DEFINE job == [task[t] EXCEPT !.at = "back", !.mind = owed, !.todo = owed]
  <2>1. ShapeOf(job)
    BY <1>0, <1>12 DEF ReadOwed, ShapeOf, Jobs, Idle
  <2> QED  BY <1>12, <2>1, ShapeGoes DEF ReadOwed
<1>13. CASE \E a \in Automations : TurnOn(t, a)
  <2> PICK a \in Automations : TurnOn(t, a)
    BY <1>13
  <2> DEFINE job == [task[t] EXCEPT !.at = "keep", !.mind = @ \ {a}, !.todo = @ \ {a}]
  <2>1. ShapeOf(job)
    BY <1>0 DEF TurnOn, ShapeOf, Jobs, Idle
  <2> QED  BY <2>1, ShapeGoes DEF TurnOn
<1>14. CASE \E a \in Automations : TurnOnFails(t, a)
  <2> PICK a \in Automations : TurnOnFails(t, a)
    BY <1>14
  <2> DEFINE job == [task[t] EXCEPT !.todo = @ \ {a}]
  <2>1. ShapeOf(job)
    BY <1>0 DEF TurnOnFails, ShapeOf, Jobs, Idle
  <2> QED  BY <2>1, ShapeGoes DEF TurnOnFails
<1>15. CASE SaveOwed(t)
  BY <1>0, <1>15, ShapeTo DEF SaveOwed, ShapeOf
<1>16. CASE RestoreEnds(t) /\ ~Leave(t)
  BY <1>16, ShapeTo DEF RestoreEnds
<1>17. CASE ResetChecks(t)
  <2>1. CASE To(t, "wipe")
    BY <1>0, <1>17, <2>1, ShapeTo DEF ResetChecks, ShapeOf
  <2>2. CASE Goes(t, Idle)
    BY <2>2, ShapeIdle, ShapeGoes
  <2> QED  BY <1>17, <2>1, <2>2 DEF ResetChecks
<1>18. CASE ResetWipe(t)
  BY <1>18, ShapeIdle, ShapeGoes DEF ResetWipe
<1> QED  BY <1>1, <1>2, <1>3, <1>4, <1>5, <1>6, <1>7, <1>8, <1>9, <1>10, <1>11,
            <1>12, <1>13, <1>14, <1>15, <1>16, <1>17, <1>18
         DEF Proceed, TurnedAway, StopEnds, RecordOn, PassEnds, DevicesEnd, RestoreEnds

LEMMA ShapeKept ==
    ASSUME TypeOK, Shape, [Next]_vars
    PROVE  Shape'
<1>0. task \in [Tasks -> Jobs] /\ \A t \in Tasks : ShapeOf(task[t])
  BY ShapeSplit DEF TypeOK
<1>1. ASSUME NEW t \in Tasks, NEW op \in {"activate", "reapply"}, Ask(t, op)
      PROVE  Shape'
  BY <1>1, ShapeAsked, ShapeGoes DEF Ask, Ops, Transitions
<1>2. ASSUME NEW t \in Tasks, NEW op \in Newer, Supersede(t, op)
      PROVE  Shape'
  <2>1. op \in Ops \ {"idle"}
    BY DEF Newer, Ops, Transitions
  <2>2. \A u \in Tasks : ShapeOf(IF u = t THEN Asked(op) ELSE Outdated(task[u]))
    BY <1>0, <2>1, ShapeAsked, ShapeOutdated
  <2>3. \A u \in Tasks : ShapeOf(task'[u])
    BY <1>2, <2>2 DEF Supersede
  <2> QED  BY <2>3 DEF Shape, ShapeOf
<1>3. ASSUME NEW t \in Tasks, Start(t)
      PROVE  Shape'
  <2>1. \A u \in Tasks : ShapeOf(task'[u])
    BY <1>3, ShapeAsked, ShapeIdle DEF Start, Ops, Transitions
  <2> QED  BY <2>1 DEF Shape, ShapeOf
<1>4. CASE Crash
  <2>1. \A u \in Tasks : ShapeOf(task'[u])
    BY <1>4, ShapeIdle DEF Crash
  <2> QED  BY <2>1 DEF Shape, ShapeOf
<1>5. CASE UNCHANGED task
  BY <1>5 DEF Shape
<1> QED  BY <1>1, <1>2, <1>3, <1>4, <1>5, ProceedShape
         DEF Next, Request, Newer, PersonSwitches, SetWorks, vars

-----------------------------------------------------------------------------
(* The line *)

InLine == Line /\ Ahead /\ AskedOff

LEMMA HeadFirst ==
    ASSUME TypeOK, NEW t \in Tasks, Holds(t)
    PROVE  queue # <<>> /\ 1 \in 1..Len(queue) /\ queue[1] = t
BY TailFacts DEF TypeOK, Holds

LEMMA InLineStays ==
    ASSUME TypeOK, InLine, NEW t \in Tasks, Stays(t)
    PROVE  InLine'
<1>1. queue' = queue /\ wantOff' = wantOff /\ 1 \in 1..Len(queue) /\ queue[1] = t
  BY HeadFirst DEF Stays
<1>2. \A i \in 1..Len(queue) : queue[i] \in Tasks
  BY DEF TypeOK
<1>3. \A u \in Tasks : task'[u].op = task[u].op /\ task'[u].cur = task[u].cur
  BY DEF Stays, TypeOK
<1>4. task'[t].at \notin AfterLock /\ \A u \in Tasks \ {t} : task'[u].at = task[u].at
  BY DEF Stays, TypeOK
<1>5. Line'
  BY <1>1, <1>2, <1>3, <1>4 DEF InLine, Line
<1>6. Ahead' /\ AskedOff'
  BY <1>1, <1>2, <1>3 DEF InLine, Ahead, AskedOff
<1> QED  BY <1>5, <1>6 DEF InLine

(* The holder goes, and everyone moves up. *)
LEMMA MovesUp ==
    ASSUME TypeOK, Line, NEW t \in Tasks, Holds(t), queue' = Tail(queue),
           NEW job, task' = [task EXCEPT ![t] = job]
    PROVE  /\ queue # <<>> /\ queue[1] = t /\ Len(queue) \in Nat
           /\ Len(queue') = Len(queue) - 1
           /\ \A i \in 1..Len(queue') :
                /\ i + 1 \in 1..Len(queue) /\ queue'[i] = queue[i + 1]
                /\ queue'[i] \in Tasks \ {t} /\ task'[queue'[i]] = task[queue[i + 1]]
<1>1. queue # <<>> /\ queue[1] = t /\ 1 \in 1..Len(queue)
  BY HeadFirst
<1>2. /\ Len(queue) \in Nat /\ Len(queue') = Len(queue) - 1
      /\ \A i \in 1..Len(queue') : i + 1 \in 1..Len(queue) /\ queue'[i] = queue[i + 1]
  BY <1>1, TailFacts DEF TypeOK
<1>3. ASSUME NEW i \in 1..Len(queue')
      PROVE  queue'[i] \in Tasks \ {t} /\ task'[queue'[i]] = task[queue[i + 1]]
  <2>1. i + 1 \in 1..Len(queue) /\ i + 1 # 1 /\ queue'[i] = queue[i + 1]
    BY <1>2
  <2>2. queue[i + 1] \in Tasks /\ queue[i + 1] # t
    BY <1>1, <2>1 DEF Line, TypeOK
  <2> QED  BY <2>1, <2>2 DEF TypeOK
<1> QED  BY <1>1, <1>2, <1>3

LEMMA InLineLeaves ==
    ASSUME TypeOK, InLine, NEW t \in Tasks, Holds(t), queue' = Tail(queue),
           NEW job, task' = [task EXCEPT ![t] = job],
           job.op = "idle" \/ job.at \in AfterLock, wantOff' = wantOff
    PROVE  InLine'
<1>1. /\ queue # <<>> /\ queue[1] = t /\ Len(queue) \in Nat
      /\ Len(queue') = Len(queue) - 1
      /\ \A i \in 1..Len(queue') :
           /\ i + 1 \in 1..Len(queue) /\ queue'[i] = queue[i + 1]
           /\ queue'[i] \in Tasks \ {t} /\ task'[queue'[i]] = task[queue[i + 1]]
  BY MovesUp DEF InLine
<1>2. ASSUME NEW j \in 1..Len(queue), j # 1
      PROVE  j - 1 \in 1..Len(queue') /\ queue'[j - 1] = queue[j]
  <2>1. j - 1 \in 1..Len(queue') /\ (j - 1) + 1 = j
    BY <1>1, <1>2
  <2> QED  BY <1>1, <2>1
<1>3. Line'
  <2>1. \A i, j \in 1..Len(queue') : queue'[i] = queue'[j] => i = j
    BY <1>1 DEF InLine, Line
  <2>2. \A i \in 1..Len(queue') :
          task'[queue'[i]].op # "idle" /\ task'[queue'[i]].at \notin AfterLock
    BY <1>1 DEF InLine, Line
  <2>3. ASSUME NEW u \in Tasks, task'[u].op # "idle" /\ task'[u].at \notin AfterLock
        PROVE  \E i \in 1..Len(queue') : queue'[i] = u
    <3>1. u # t /\ task'[u] = task[u]
      BY <2>3 DEF TypeOK
    <3>2. PICK j \in 1..Len(queue) : queue[j] = u
      BY <2>3, <3>1 DEF InLine, Line
    <3>3. j # 1
      BY <1>1, <3>1, <3>2
    <3> QED  BY <1>2, <3>2, <3>3
  <2> QED  BY <2>1, <2>2, <2>3 DEF Line
<1>4. Ahead'
  BY <1>1 DEF InLine, Ahead
<1>5. AskedOff'
  <2>1. ASSUME wantOff, NEW i \in 1..Len(queue'), task'[queue'[i]].op = "activate"
        PROVE  \E j \in 1..Len(queue') : i < j /\ task'[queue'[j]].op \in Offs
    <3>1. i + 1 \in 1..Len(queue) /\ task[queue[i + 1]].op = "activate"
      BY <1>1, <2>1
    <3>2. PICK j \in 1..Len(queue) : i + 1 < j /\ task[queue[j]].op \in Offs
      BY <2>1, <3>1 DEF InLine, AskedOff
    <3>3. j - 1 \in 1..Len(queue') /\ i < j - 1 /\ (j - 1) + 1 = j
      BY <1>1, <3>2
    <3>4. task'[queue'[j - 1]] = task[queue[j]]
      BY <1>1, <3>3
    <3> QED  BY <3>2, <3>3, <3>4
  <2> QED  BY <2>1 DEF AskedOff
<1> QED  BY <1>3, <1>4, <1>5 DEF InLine

LEMMA InLineFinishes ==
    ASSUME TypeOK, Shape, InLine, NEW t \in Tasks, Finishes(t)
    PROVE  InLine'
<1>1. \A i \in 1..Len(queue) : queue[i] \in Tasks \ {t}
  BY DEF InLine, Line, Finishes, TypeOK
<1>2. queue' = queue /\ wantOff' = wantOff /\ \A u \in Tasks \ {t} : task'[u] = task[u]
  BY DEF Finishes, TypeOK
<1>3. task'[t].op = "idle" \/ task'[t].at \in AfterLock
  <2> DEFINE wipes == [task[t] EXCEPT !.at = "wipe", !.entity = None]
  <2>1. wipes.at \in AfterLock
    BY SentTyped DEF TypeOK, Places, AfterLock
  <2>2. task'[t] = Idle \/ task'[t] = wipes
    BY DEF Finishes, TypeOK
  <2> QED  BY <2>1, <2>2, IdleTyped
<1>4. Line'
  BY <1>1, <1>2, <1>3 DEF InLine, Line
<1>5. Ahead' /\ AskedOff'
  BY <1>1, <1>2 DEF InLine, Ahead, AskedOff
<1> QED  BY <1>4, <1>5 DEF InLine

(* A request joins the end of the line. *)
LEMMA InLineJoins ==
    ASSUME TypeOK, Shape, InLine, NEW t \in Tasks, NEW op \in Ops \ {"idle"},
           Requests(t, op)
    PROVE  InLine'
<1> DEFINE n == Len(queue) + 1
<1>1. /\ Len(queue) \in Nat /\ Len(queue') = n
      /\ \A i \in 1..Len(queue) : i \in 1..Len(queue') /\ queue'[i] = queue[i]
      /\ queue'[n] = t /\ task[t] = Idle
  BY AppendFacts DEF Requests, Asks, Supersedes, TypeOK
<1>2. \A i \in 1..Len(queue) : queue[i] \in Tasks \ {t}
  BY <1>1, IdleTyped DEF InLine, Line, TypeOK
<1>3. task'[t].op = op /\ task'[t].cur /\ task'[t].at = "wait"
  BY AskedTyped DEF Requests, Asks, Supersedes, TypeOK
<1>4. ASSUME NEW u \in Tasks \ {t}
      PROVE  /\ task'[u].op = task[u].op
             /\ task'[u].at \in AfterLock <=> task[u].at \in AfterLock
             /\ task'[u].cur => task[u].cur /\ op \notin Newer
  BY OutdatedTyped DEF Requests, Asks, Supersedes, TypeOK, AfterLock
<1>5. Line'
  <2>1. \A i \in 1..Len(queue') : i \in 1..Len(queue) \/ i = n
    BY <1>1
  <2>2. \A i, j \in 1..Len(queue') : queue'[i] = queue'[j] => i = j
    BY <1>1, <1>2, <2>1 DEF InLine, Line
  <2>3. \A i \in 1..Len(queue') :
          task'[queue'[i]].op # "idle" /\ task'[queue'[i]].at \notin AfterLock
    BY <1>1, <1>2, <1>3, <1>4, <2>1 DEF InLine, Line, AfterLock
  <2>4. n \in 1..Len(queue')
    BY <1>1
  <2>5. ASSUME NEW u \in Tasks, task'[u].op # "idle" /\ task'[u].at \notin AfterLock
        PROVE  \E i \in 1..Len(queue') : queue'[i] = u
    BY <1>1, <1>4, <2>4, <2>5 DEF InLine, Line
  <2> QED  BY <2>2, <2>3, <2>5 DEF Line
<1>6. Ahead'
  <2>1. ASSUME NEW i \in 1..Len(queue'), NEW j \in 1..Len(queue'), i < j,
               task'[queue'[j]].op \in Offs \cup {"stop"}
        PROVE  ~task'[queue'[i]].cur
    <3>1. i \in 1..Len(queue) /\ (j \in 1..Len(queue) \/ j = n)
      BY <1>1, <2>1
    <3>2. CASE j = n
      BY <1>1, <1>2, <1>3, <1>4, <2>1, <3>1, <3>2 DEF Offs, Newer
    <3>3. CASE j \in 1..Len(queue)
      BY <1>1, <1>2, <1>4, <2>1, <3>1, <3>3 DEF InLine, Ahead
    <3> QED  BY <3>1, <3>2, <3>3
  <2> QED  BY <2>1 DEF Ahead
<1>7. AskedOff'
  <2>1. ASSUME wantOff', NEW i \in 1..Len(queue'), task'[queue'[i]].op = "activate"
        PROVE  \E j \in 1..Len(queue') : i < j /\ task'[queue'[j]].op \in Offs
    <3>1. op # "activate" /\ (wantOff \/ op \in Offs)
      BY <2>1 DEF Requests, Asks, Supersedes, Newer, Offs
    <3>2. i \in 1..Len(queue)
      BY <1>1, <1>3, <2>1, <3>1
    <3>3. CASE op \in Offs
      <4>1. n \in 1..Len(queue') /\ i < n
        BY <1>1, <3>2
      <4> QED  BY <1>1, <1>3, <3>3, <4>1
    <3>4. CASE wantOff
      <4>1. task[queue[i]].op = "activate"
        BY <1>1, <1>2, <1>4, <2>1, <3>2
      <4>2. PICK j \in 1..Len(queue) : i < j /\ task[queue[j]].op \in Offs
        BY <3>2, <3>4, <4>1 DEF InLine, AskedOff
      <4> QED  BY <1>1, <1>2, <1>4, <4>2
    <3> QED  BY <3>1, <3>3, <3>4
  <2> QED  BY <2>1 DEF AskedOff
<1> QED  BY <1>5, <1>6, <1>7 DEF InLine

LEMMA InLineKept ==
    ASSUME TypeOK, Shape, InLine, [Next]_vars
    PROVE  InLine'
<1>1. ASSUME NEW t \in Tasks, Leaves(t)
      PROVE  InLine'
  BY <1>1, IdleTyped, InLineLeaves DEF Leaves, Leave, Goes
<1>2. ASSUME NEW t \in Tasks, HandsOver(t)
      PROVE  InLine'
  <2> DEFINE job == [task[t] EXCEPT !.at = "check", !.entity = None]
  <2>1. job.at \in AfterLock
    BY SentTyped DEF TypeOK, Places, AfterLock
  <2>2. task' = [task EXCEPT ![t] = job]
    BY <1>2 DEF HandsOver
  <2> HIDE DEF job
  <2> QED  BY <1>2, <2>1, <2>2, InLineLeaves DEF HandsOver
<1>3. ASSUME NEW t \in Tasks, Start(t)
      PROVE  InLine'
  <2>1. /\ queue' = <<t>> /\ Len(queue') = 1 /\ queue'[1] = t
        /\ task'[t].op = "resume" /\ task'[t].at \notin AfterLock
        /\ \A u \in Tasks \ {t} : task'[u].op = "idle"
    BY <1>3, IdleTyped, AskedTyped DEF Start, AfterLock, Ops, Transitions
  <2>2. Line'
    BY <2>1 DEF Line
  <2>3. Ahead' /\ AskedOff'
    BY <2>1 DEF Ahead, AskedOff
  <2> QED  BY <2>2, <2>3 DEF InLine
<1>4. CASE Crash
  <2>1. queue' = <<>> /\ Len(queue') = 0 /\ \A u \in Tasks : task'[u].op = "idle"
    BY <1>4, IdleTyped DEF Crash
  <2> QED  BY <2>1 DEF InLine, Line, Ahead, AskedOff
<1>5. CASE UNCHANGED <<queue, task, wantOff>>
  BY <1>5 DEF InLine, Line, Ahead, AskedOff
<1> QED  BY <1>1, <1>2, <1>3, <1>4, <1>5, NextForms, InLineStays, InLineFinishes,
            InLineJoins DEF LineStep

-----------------------------------------------------------------------------
(* Where the home and the level stand *)

(* Only an ended stop moves the process, and nobody asks for a deactivate.  *)
LEMMA ProceedUp ==
    ASSUME NEW t \in Tasks, Proceed(t) \/ Answer(t)
    PROVE  (up' = up \/ StopEnds(t)) /\ wantOff' = wantOff
BY DEF Proceed, Answer, Quietly, Enter, TurnedAway, StopEnds, RecordOn, RecordOff,
       ReadRemembered, Consider, TurnOff, TurnOffFails, Remember, PassEnds, Command,
       DevicesEnd, ReadOwed, TurnOn, TurnOnFails, SaveOwed, RestoreEnds,
       ResetChecks, ResetWipe

LEMMA StopLastKept ==
    ASSUME TypeOK, Shape, InLine, StopLast, [Next]_vars
    PROVE  StopLast'
<1>1. ASSUME NEW t \in Tasks, Proceed(t) \/ Answer(t)
      PROVE  StopLast'
  <2>1. CASE StopEnds(t)
    <3>1. Holds(t) /\ task[t].op = "stop" /\ queue' = Tail(queue)
      BY <2>1 DEF StopEnds, At, Leave
    <3>2. queue # <<>> /\ 1 \in 1..Len(queue) /\ queue[1] = t
      BY <3>1, HeadFirst
    <3>3. Len(queue) = 1
      BY <3>1, <3>2 DEF StopLast
    <3>4. Len(queue') = 0
      BY <3>1, <3>2, <3>3, TailFacts DEF TypeOK
    <3> QED  BY <3>4 DEF StopLast
  <2>2. CASE up' = up
    <3>1. CASE Stays(t)
      <4>1. \A u \in Tasks : task'[u].op = task[u].op
        BY <3>1 DEF Stays, TypeOK
      <4> QED  BY <2>2, <3>1, <4>1 DEF StopLast, Stays, TypeOK
    <3>2. CASE Leaves(t) \/ HandsOver(t)
      <4>1. Holds(t) /\ queue' = Tail(queue) /\ \E job : task' = [task EXCEPT ![t] = job]
        BY <3>2 DEF Leaves, Leave, Goes, HandsOver
      <4>2. /\ Len(queue) \in Nat /\ Len(queue') = Len(queue) - 1
            /\ \A i \in 1..Len(queue') :
                 i + 1 \in 1..Len(queue) /\ task'[queue'[i]] = task[queue[i + 1]]
        BY <4>1, MovesUp DEF InLine
      <4> QED  BY <2>2, <4>2 DEF StopLast
    <3>3. CASE Finishes(t)
      <4>1. \A i \in 1..Len(queue) : queue[i] \in Tasks \ {t}
        BY <3>3 DEF InLine, Line, Finishes, TypeOK
      <4> QED  BY <2>2, <3>3, <4>1 DEF StopLast, Finishes, TypeOK
    <3> QED  BY <1>1, <3>1, <3>2, <3>3, ProceedForms
  <2> QED  BY <1>1, <2>1, <2>2, ProceedUp
<1>2. ASSUME NEW t \in Tasks, NEW op \in Ops, up = "up", Asks(t, op) \/ Supersedes(t, op),
             up' = IF op = "stop" THEN "stopping" ELSE up
      PROVE  StopLast'
  <2>1. /\ Len(queue) \in Nat /\ Len(queue') = Len(queue) + 1
        /\ \A i \in 1..Len(queue) : queue'[i] = queue[i]
        /\ queue'[Len(queue) + 1] = t
    <3>1. queue' = Append(queue, t)
      BY <1>2 DEF Asks, Supersedes
    <3> QED  BY <3>1, AppendFacts DEF TypeOK
  <2>2. \A i \in 1..Len(queue) : queue[i] \in Tasks \ {t}
    BY <1>2, IdleTyped DEF InLine, Line, TypeOK, Asks, Supersedes
  <2>3. \A u \in Tasks \ {t} : task'[u].op = task[u].op
    BY <1>2, OutdatedTyped DEF Asks, Supersedes, TypeOK
  <2>4. task'[t].op = op
    BY <1>2, AskedTyped DEF Asks, Supersedes, TypeOK
  <2>5. \A i \in 1..Len(queue') : i \in 1..Len(queue) \/ i = Len(queue')
    BY <2>1
  <2> QED  BY <1>2, <2>1, <2>2, <2>3, <2>4, <2>5 DEF StopLast
<1>3. ASSUME NEW t \in Tasks, Start(t)
      PROVE  StopLast'
  <2>1. /\ queue' = <<t>> /\ Len(queue') = 1 /\ queue'[1] = t
        /\ task'[t].op = "resume"
    BY <1>3, AskedTyped DEF Start, Ops, Transitions, TypeOK
  <2> QED  BY <2>1 DEF StopLast
<1>4. CASE Crash
  <2>1. queue' = <<>> /\ Len(queue') = 0
    BY <1>4 DEF Crash
  <2> QED  BY <2>1 DEF StopLast
<1>5. CASE UNCHANGED <<queue, task, up>>
  BY <1>5 DEF StopLast
<1>6. ASSUME NEW t \in Tasks, NEW op \in {"activate", "reapply"}, Ask(t, op)
      PROVE  StopLast'
  BY <1>2, <1>6 DEF Ask, Free, Goes, Asks, Ops, Transitions
<1>7. ASSUME NEW t \in Tasks, NEW op \in Newer, Supersede(t, op)
      PROVE  StopLast'
  BY <1>2, <1>7 DEF Supersede, Free, Supersedes, Newer, Ops, Transitions
<1> QED  BY <1>1, <1>3, <1>4, <1>5, <1>6, <1>7
         DEF Next, Request, Newer, PersonSwitches, SetWorks, vars

(* Past the line, there is one request at a time. *)
LEMMA OneAtWork ==
    ASSUME TypeOK, NEW t \in Tasks, Holds(t), NEW u \in Tasks,
           task[u].at \notin {"wait", "done", "check", "wipe"}
    PROVE  u = t
BY DEF TypeOK, Holds

LEMMA ProceedAlive ==
    ASSUME Level, NEW t \in Tasks, Proceed(t) \/ Answer(t)
    PROVE  up # "down" /\ (up' = up \/ StopEnds(t))
<1>1. Holds(t) \/ up # "down"
  BY DEF Proceed, Answer, Enter, TurnedAway, StopEnds, RecordOn, RecordOff,
         ReadRemembered, Consider, TurnOff, TurnOffFails, Remember, PassEnds, Command,
         DevicesEnd, ReadOwed, TurnOn, TurnOnFails, SaveOwed, RestoreEnds,
         ResetChecks, ResetWipe, At
<1> QED  BY <1>1, ProceedUp DEF Level, Holds

(* A pass begins by Enter or RecordOn, and only a record or a wipe changes  *)
(* the level.                                                               *)
LEMMA ProceedPass ==
    ASSUME TypeOK, NEW t \in Tasks, Proceed(t) \/ Answer(t),
           ~Enter(t), ~RecordOn(t), ~RecordOff(t)
    PROVE  /\ active' = active /\ (saved' => saved)
           /\ \A u \in Tasks : task'[u].at \in InPass => task[u].at \in InPass
           /\ (saved' = saved \/ ResetWipe(t))
<1>0. task[t] \in Jobs
  BY DEF TypeOK
<1>1. (active' = active /\ saved' = saved) \/ ResetWipe(t)
  BY DEF Proceed, Answer, Quietly, TurnedAway, StopEnds,
         ReadRemembered, Consider, TurnOff, TurnOffFails, Remember, PassEnds, Command,
         DevicesEnd, ReadOwed, TurnOn, TurnOnFails, SaveOwed, RestoreEnds,
         ResetChecks
<1>2. ResetWipe(t) => active' = active /\ ~saved'
  BY DEF ResetWipe
<1>3. \A u \in Tasks \ {t} : task'[u] = task[u]
  BY DEF Proceed, Answer, TurnedAway, StopEnds,
         ReadRemembered, Consider, TurnOff, TurnOffFails, Remember, PassEnds, Command,
         DevicesEnd, ReadOwed, TurnOn, TurnOnFails, SaveOwed, RestoreEnds,
         ResetChecks, ResetWipe, Leave, To, Goes, TypeOK
<1>4. task'[t].at \in InPass => task[t].at \in InPass
  <2>1. CASE Leave(t) \/ Goes(t, Idle)
    BY <2>1, IdleTyped DEF Leave, Goes, TypeOK, InPass
  <2>2. CASE task[t].at \in InPass
    BY <2>2
  <2>3. ASSUME NEW place \in {"back", "check", "wipe"}, To(t, place)
        PROVE  task'[t].at \notin InPass
    BY <1>0, <2>3 DEF To, Goes, TypeOK, InPass, Jobs
  <2>4. CASE ReadOwed(t)
    BY <1>0, <2>4 DEF ReadOwed, Goes, TypeOK, InPass, Jobs
  <2>5. CASE \E a \in Automations : TurnOn(t, a)
    BY <1>0, <2>5 DEF TurnOn, Goes, TypeOK, InPass, Jobs
  <2>6. CASE \E a \in Automations : TurnOnFails(t, a)
    BY <1>0, <2>6 DEF TurnOnFails, At, Goes, TypeOK, InPass, Jobs
  <2>7. SaveOwed(t) \/ RestoreEnds(t) \/ ResetChecks(t) =>
          To(t, "back") \/ To(t, "check") \/ To(t, "wipe") \/ Leave(t) \/ Goes(t, Idle)
    BY DEF SaveOwed, RestoreEnds, ResetChecks
  <2> QED  BY <2>1, <2>2, <2>3, <2>4, <2>5, <2>6, <2>7
           DEF Proceed, Answer, TurnedAway, StopEnds, ReadRemembered, Consider, TurnOff,
               TurnOffFails, Remember, PassEnds, Command, DevicesEnd, ResetWipe, At, InPass
<1> QED  BY <1>1, <1>2, <1>3, <1>4

LEMMA LevelKept ==
    ASSUME TypeOK, Shape, InLine, StopLast, Level, [Next]_vars
    PROVE  Level'
<1>1. ASSUME NEW t \in Tasks, Proceed(t) \/ Answer(t)
      PROVE  Level'
  <2>0. up # "down" /\ (up' = up \/ StopEnds(t)) /\ task[t] \in Jobs
    BY <1>1, ProceedAlive DEF TypeOK
  <2>1. CASE StopEnds(t)
    <3>1. Holds(t) /\ task[t].op = "stop" /\ queue' = Tail(queue) /\ task' = [task EXCEPT ![t] = Idle]
      BY <2>1 DEF StopEnds, At, Leave, Goes
    <3>2. queue # <<>> /\ 1 \in 1..Len(queue) /\ queue[1] = t
      BY <3>1, HeadFirst
    <3>3. Len(queue) = 1
      BY <3>1, <3>2 DEF StopLast
    <3>4. queue' = <<>>
      BY <3>1, <3>2, <3>3 DEF TypeOK
    <3>5. \A u \in Tasks : task'[u].at \in InPass => task[u].at \in InPass
      BY <3>1, IdleTyped DEF TypeOK, InPass
    <3> QED  BY <2>1, <3>4, <3>5 DEF Level, StopEnds
  <2>2. CASE Enter(t)
    <3>1. \A u \in Tasks : task'[u].at \in InPass => task[u].at \in InPass \/ active
      BY <2>0, <2>2 DEF Enter, To, Goes, TypeOK, InPass, Jobs
    <3> QED  BY <2>0, <2>2, <3>1 DEF Level, Enter, Quietly
  <2>3. CASE RecordOn(t)
    <3>1. CASE Leave(t) /\ UNCHANGED level
      <4>1. \A u \in Tasks : task'[u].at \in InPass => task[u].at \in InPass
        BY <3>1, IdleTyped DEF Leave, Goes, TypeOK, InPass
      <4> QED  BY <2>0, <2>3, <3>1, <4>1 DEF Level, RecordOn, level
    <3>2. CASE active' /\ saved'
      BY <2>0, <2>3, <3>2 DEF Level, RecordOn
    <3> QED  BY <2>3, <3>1, <3>2 DEF RecordOn
  <2>4. CASE RecordOff(t)
    <3>1. ASSUME NEW u \in Tasks
          PROVE  task'[u].at \notin InPass
      <4>1. CASE u = t
        BY <2>0, <2>4, <4>1 DEF RecordOff, To, Goes, TypeOK, InPass, Jobs
      <4>2. CASE u # t
        BY <2>4, <4>2, OneAtWork DEF RecordOff, To, Goes, At, TypeOK, InPass
      <4> QED  BY <4>1, <4>2
    <3> QED  BY <2>0, <2>4, <3>1 DEF Level, RecordOff
  <2>5. CASE ~Enter(t) /\ ~RecordOn(t) /\ ~RecordOff(t) /\ up' = up
    BY <1>1, <2>0, <2>5, ProceedPass DEF Level
  <2> QED  BY <2>0, <2>1, <2>2, <2>3, <2>4, <2>5 DEF RecordOn, RecordOff, Enter, Quietly
<1>2. ASSUME NEW t \in Tasks, NEW op \in {"activate", "reapply"}, Ask(t, op)
      PROVE  Level'
  BY <1>2, AskedTyped DEF Ask, Free, Goes, Level, TypeOK, InPass, Ops, Transitions
<1>3. ASSUME NEW t \in Tasks, NEW op \in Newer, Supersede(t, op)
      PROVE  Level'
  <2>1. op \in Ops /\ up = "up" /\ up' # "down"
    BY <1>3 DEF Supersede, Free, Newer, Ops, Transitions
  <2>2. \A u \in Tasks : task'[u].at \in InPass => task[u].at \in InPass
    BY <1>3, <2>1, AskedTyped, OutdatedTyped DEF Supersede, TypeOK, InPass
  <2> QED  BY <1>3, <2>1, <2>2 DEF Level, Supersede
<1>4. ASSUME NEW t \in Tasks, Start(t)
      PROVE  Level'
  BY <1>4, IdleTyped, AskedTyped DEF Start, Level, InPass, Ops, Transitions
<1>5. CASE Crash
  BY <1>5, IdleTyped DEF Crash, Level, InPass
<1>6. CASE UNCHANGED <<queue, task, up, level>>
  BY <1>6 DEF Level, level
<1> QED  BY <1>1, <1>2, <1>3, <1>4, <1>5, <1>6
         DEF Next, Request, Newer, PersonSwitches, SetWorks, vars, level

-----------------------------------------------------------------------------
(* What a pass and a restore remember *)

MindOK(job, stored, off) ==
    /\ job.at \in {"pass", "off"} => stored \subseteq job.mind
    /\ job.at = "save" => stored \cup {job.entity} \subseteq job.mind
    /\ job.at \in {"back", "keep"} => stored \cap off \subseteq job.mind

MindPlaces == {"pass", "off", "save", "back", "keep"}

LEMMA MindsGoes ==
    ASSUME TypeOK, NEW t \in Tasks, Holds(t), NEW job, Goes(t, job),
           MindOK(job, owed', hubOff')
    PROVE  Minds'
<1>1. ASSUME NEW u \in Tasks
      PROVE  MindOK(task'[u], owed', hubOff')
  <2>1. CASE u = t
    BY <2>1 DEF Goes, TypeOK
  <2>2. CASE u # t
    BY <2>2, OneAtWork DEF Goes, TypeOK, MindOK
  <2> QED  BY <2>1, <2>2
<1> QED  BY <1>1 DEF Minds, MindOK

LEMMA ProceedMinds ==
    ASSUME TypeOK, Shape, Minds, NEW t \in Tasks, Proceed(t) \/ Answer(t)
    PROVE  Minds'
<1>0. task[t] \in Jobs /\ MindOK(task[t], owed, hubOff)
  BY DEF TypeOK, Minds, MindOK
<1> USE DEF At
<1>1. CASE Leave(t) /\ Holds(t)
  <2>1. MindOK(Idle, owed', hubOff')
    BY IdleTyped DEF MindOK
  <2> QED  BY <1>1, <2>1, MindsGoes DEF Leave
<1>2. ASSUME NEW place \in Places \ MindPlaces, To(t, place), Holds(t)
      PROVE  Minds'
  <2> DEFINE job == [task[t] EXCEPT !.at = place, !.entity = None]
  <2>1. MindOK(job, owed', hubOff')
    BY <1>0, SentTyped DEF MindOK, MindPlaces
  <2> QED  BY <1>2, <2>1, MindsGoes DEF To
<1>3. CASE \E place \in Places \ MindPlaces : To(t, place) /\ Holds(t)
  BY <1>2, <1>3
<1>4. CASE ReadRemembered(t)
  <2> DEFINE job == [task[t] EXCEPT !.at = "pass", !.mind = owed, !.todo = on \ owed]
  <2>1. MindOK(job, owed', hubOff')
    BY <1>0, <1>4 DEF ReadRemembered, Quietly, MindOK, Jobs
  <2> QED  BY <1>4, <2>1, MindsGoes DEF ReadRemembered
<1>5. CASE \E a \in Automations : Consider(t, a) /\ ~Leave(t)
  <2> PICK a \in Automations : Consider(t, a) /\ ~Leave(t)
    BY <1>5
  <2> DEFINE past == [task[t] EXCEPT !.todo = @ \ {a}]
  <2> DEFINE off == [task[t] EXCEPT !.todo = @ \ {a}, !.at = "off", !.entity = a]
  <2>1. MindOK(past, owed', hubOff')
    BY <1>0 DEF Consider, Quietly, MindOK, Jobs
  <2>2. MindOK(off, owed', hubOff')
    BY <1>0 DEF Consider, Quietly, MindOK, Jobs
  <2>3. Goes(t, past) \/ Goes(t, off)
    BY DEF Consider
  <2> HIDE DEF past, off
  <2> QED  BY <2>1, <2>2, <2>3, MindsGoes DEF Consider
<1>6. CASE TurnOff(t)
  <2> DEFINE job == [task[t] EXCEPT !.at = "save", !.mind = @ \cup {task[t].entity}]
  <2>1. MindOK(job, owed', hubOff')
    BY <1>0, <1>6 DEF TurnOff, MindOK, Jobs
  <2> QED  BY <1>6, <2>1, MindsGoes DEF TurnOff
<1>7. CASE TurnOffFails(t) \/ Remember(t)
  <2> DEFINE job == [task[t] EXCEPT !.at = "pass", !.entity = None]
  <2>1. MindOK(job, owed', hubOff')
    BY <1>0, <1>7 DEF TurnOffFails, Remember, Quietly, MindOK, Jobs
  <2> QED  BY <1>7, <2>1, MindsGoes DEF TurnOffFails, Remember, To
<1>8. CASE PassEnds(t) /\ ~Leave(t)
  <2> DEFINE job == [task[t] EXCEPT !.at = "devices", !.todo = Devices]
  <2>1. MindOK(job, owed', hubOff')
    BY <1>0 DEF MindOK, Jobs
  <2> QED  BY <1>8, <2>1, MindsGoes DEF PassEnds
<1>9. CASE \E d \in Devices : Command(t, d)
  <2> PICK d \in Devices : Command(t, d)
    BY <1>9
  <2> DEFINE job == [task[t] EXCEPT !.at = "sent", !.entity = d, !.todo = @ \ {d}]
  <2>1. MindOK(job, owed', hubOff')
    BY <1>0 DEF MindOK, Jobs
  <2> QED  BY <2>1, MindsGoes DEF Command
<1>10. CASE ReadOwed(t)
  <2> DEFINE job == [task[t] EXCEPT !.at = "back", !.mind = owed, !.todo = owed]
  <2>1. MindOK(job, owed', hubOff')
    BY <1>0, <1>10 DEF ReadOwed, Quietly, MindOK, Jobs
  <2> QED  BY <1>10, <2>1, MindsGoes DEF ReadOwed
<1>11. CASE \E a \in Automations : TurnOn(t, a)
  <2> PICK a \in Automations : TurnOn(t, a)
    BY <1>11
  <2> DEFINE job == [task[t] EXCEPT !.at = "keep", !.mind = @ \ {a}, !.todo = @ \ {a}]
  <2>1. MindOK(job, owed', hubOff')
    BY <1>0 DEF TurnOn, MindOK, Jobs
  <2> QED  BY <2>1, MindsGoes DEF TurnOn
<1>12. CASE \E a \in Automations : TurnOnFails(t, a)
  <2> PICK a \in Automations : TurnOnFails(t, a)
    BY <1>12
  <2> DEFINE job == [task[t] EXCEPT !.todo = @ \ {a}]
  <2>1. MindOK(job, owed', hubOff')
    BY <1>0 DEF TurnOnFails, MindOK, Jobs
  <2> QED  BY <2>1, MindsGoes DEF TurnOnFails
<1>13. CASE SaveOwed(t)
  <2> DEFINE job == [task[t] EXCEPT !.at = "back", !.entity = None]
  <2>1. MindOK(job, owed', hubOff')
    BY <1>0, <1>13 DEF SaveOwed, MindOK, Jobs
  <2> QED  BY <1>13, <2>1, MindsGoes DEF SaveOwed, To
<1>14. CASE ResetChecks(t) \/ ResetWipe(t)
  <2>1. owed' \subseteq owed /\ hubOff' = hubOff
    BY <1>14 DEF ResetChecks, ResetWipe, Quietly
  <2>2. task'[t].at \in {"wipe", "done"} /\ \A u \in Tasks \ {t} : task'[u] = task[u]
    <3>1. CASE Goes(t, Idle)
      BY <3>1, IdleTyped DEF Goes, TypeOK
    <3>2. CASE To(t, "wipe")
      BY <1>0, <3>2 DEF To, Goes, TypeOK, Jobs
    <3> QED  BY <1>14, <3>1, <3>2 DEF ResetChecks, ResetWipe
  <2> QED  BY <2>1, <2>2 DEF Minds
<1>15. Enter(t) \/ RecordOn(t) \/ RecordOff(t) \/ RestoreEnds(t) \/ Answer(t) =>
         Holds(t) /\ (Leave(t) \/ \E place \in Places \ MindPlaces : To(t, place))
  BY DEF Enter, RecordOn, RecordOff, RestoreEnds, Answer, Places, MindPlaces
<1>16. TurnedAway(t) \/ StopEnds(t) \/ DevicesEnd(t) => Leave(t) /\ Holds(t)
  BY DEF TurnedAway, StopEnds, DevicesEnd
<1>17. PassEnds(t) \/ (\E a \in Automations : Consider(t, a)) => Holds(t)
  BY DEF PassEnds, Consider
<1> QED  BY <1>1, <1>3, <1>4, <1>5, <1>6, <1>7, <1>8, <1>9, <1>10, <1>11,
            <1>12, <1>13, <1>14, <1>15, <1>16, <1>17
         DEF Proceed

LEMMA MindsKept ==
    ASSUME TypeOK, Shape, Minds, [Next]_vars
    PROVE  Minds'
<1>1. ASSUME NEW t \in Tasks, NEW op \in {"activate", "reapply"}, Ask(t, op)
      PROVE  Minds'
  BY <1>1, AskedTyped DEF Ask, Goes, Minds, TypeOK, Ops, Transitions
<1>2. ASSUME NEW t \in Tasks, NEW op \in Newer, Supersede(t, op)
      PROVE  Minds'
  <2>1. op \in Ops /\ owed' = owed /\ hubOff' = hubOff
    BY <1>2 DEF Supersede, Newer, Ops, Transitions
  <2>2. \A u \in Tasks : MindOK(task'[u], owed, hubOff)
    BY <1>2, <2>1, AskedTyped, OutdatedTyped DEF Supersede, Minds, MindOK, TypeOK
  <2> QED  BY <2>1, <2>2 DEF Minds, MindOK
<1>3. ASSUME NEW t \in Tasks, Start(t)
      PROVE  Minds'
  BY <1>3, IdleTyped, AskedTyped DEF Start, Minds, Ops, Transitions
<1>4. CASE Crash
  BY <1>4, IdleTyped DEF Crash, Minds
<1>5. CASE UNCHANGED <<task, owed>> /\ hubOff' \subseteq hubOff
  BY <1>5 DEF Minds
<1> QED  BY <1>1, <1>2, <1>3, <1>4, <1>5, ProceedMinds
         DEF Next, Request, Newer, PersonSwitches, SetWorks, vars

-----------------------------------------------------------------------------
(* The newest request wins *)

(* A request still in line, or about to record its change, in the line.     *)
LEMMA InTheLine ==
    ASSUME TypeOK, Shape, Line, NEW u \in Tasks, task[u].op # "idle",
           task[u].at \in {"wait", "commit"}
    PROVE  \E i \in 1..Len(queue) : queue[i] = u
BY DEF Line, AfterLock

(* An Off request in line behind the holder waits. *)
LEMMA BehindWaits ==
    ASSUME TypeOK, Shape, Line, NEW t \in Tasks, Holds(t),
           NEW j \in 1..Len(queue), 1 < j, task[queue[j]].op \in Offs
    PROVE  task[queue[j]].at = "wait" /\ queue[j] \in Tasks
<1>1. queue[j] \in Tasks /\ queue[1] = t /\ 1 \in 1..Len(queue)
  BY HeadFirst DEF TypeOK
<1>2. queue[j] # t
  BY <1>1 DEF Line
<1>3. task[queue[j]].at \in {"wait", "done", "check", "wipe"}
  BY <1>1, <1>2, OneAtWork
<1>4. task[queue[j]].at \notin AfterLock /\ task[queue[j]].at # "done"
  BY <1>1 DEF Line, Shape, Offs, Transitions
<1> QED  BY <1>1, <1>3, <1>4 DEF AfterLock

LEMMA RecordOnWins ==
    ASSUME TypeOK, Shape, InLine, Level, NewestWins, NEW t \in Tasks, RecordOn(t),
           wantOff, active = (task[t].op = "reapply")
    PROVE  Deactivating \/ active
<1>1. CASE task[t].op = "activate"
  <2>1. 1 \in 1..Len(queue) /\ queue[1] = t /\ Holds(t)
    BY HeadFirst DEF RecordOn, At
  <2>2. PICK j \in 1..Len(queue) : 1 < j /\ task[queue[j]].op \in Offs
    BY <1>1, <2>1 DEF InLine, AskedOff
  <2> QED  BY <2>1, <2>2, BehindWaits DEF InLine, Deactivating, Offs
<1>2. CASE task[t].op = "reapply"
  BY <1>2 DEF RecordOn, TypeOK
<1> QED  BY <1>1, <1>2 DEF RecordOn

LEMMA NewestKept ==
    ASSUME TypeOK, Shape, InLine, StopLast, Level, NewestWins, [Next]_vars
    PROVE  NewestWins'
<1>1. ASSUME NEW t \in Tasks, Proceed(t) \/ Answer(t)
      PROVE  NewestWins'
  <2>0. /\ up # "down" /\ (up' = up \/ StopEnds(t)) /\ wantOff' = wantOff
        /\ task[t] \in Jobs
    BY <1>1, ProceedAlive, ProceedUp DEF TypeOK
  <2>1. CASE RecordOff(t)
    BY <2>0, <2>1 DEF RecordOff, NewestWins
  <2>2. CASE ~wantOff
    BY <2>0, <2>2 DEF NewestWins
  <2>3. CASE wantOff /\ ~RecordOff(t)
    <3>1. Deactivating => Deactivating'
      <4> SUFFICES ASSUME NEW u \in Tasks, task[u].op \in Offs,
                          task[u].at \in {"wait", "commit"}
                   PROVE  task'[u].op \in Offs /\ task'[u].at \in {"wait", "commit"}
        BY DEF Deactivating, Offs
      <4>1. CASE u # t
        <5>1. task'[u] = task[u]
          BY <1>1, <4>1, <2>3
             DEF Proceed, Answer, Enter, TurnedAway, StopEnds, RecordOn,
                 ReadRemembered, Consider, TurnOff, TurnOffFails, Remember, PassEnds,
                 Command, DevicesEnd, ReadOwed, TurnOn, TurnOnFails, SaveOwed,
                 RestoreEnds, ResetChecks, ResetWipe, Leave, To, Goes, TypeOK
        <5> QED  BY <5>1
      <4>2. CASE u = t
        <5>1. Enter(t)
          BY <1>1, <2>3, <4>2
             DEF Proceed, Answer, Enter, TurnedAway, StopEnds, RecordOn, RecordOff,
                 ReadRemembered, Consider, TurnOff, TurnOffFails, Remember, PassEnds,
                 Command, DevicesEnd, ReadOwed, TurnOn, TurnOnFails, SaveOwed,
                 RestoreEnds, ResetChecks, ResetWipe, At, Offs, Transitions
        <5> QED  BY <2>0, <4>2, <5>1 DEF Enter, To, Goes, TypeOK, Offs, Jobs
      <4> QED  BY <4>1, <4>2
    <3>2. CASE RecordOn(t)
      <4>1. CASE Leave(t) /\ UNCHANGED level
        BY <2>0, <3>1, <3>2, <4>1 DEF NewestWins, RecordOn, level
      <4>2. CASE active = (task[t].op = "reapply") /\ active' /\ saved'
        BY <2>0, <2>3, <3>1, <3>2, <4>2, RecordOnWins DEF NewestWins, RecordOn
      <4> QED  BY <3>2, <4>1, <4>2 DEF RecordOn, level
    <3>3. CASE ~RecordOn(t)
      <4>1. active' = active /\ (saved' => saved)
        <5>1. CASE Enter(t)
          BY <5>1 DEF Enter, Quietly
        <5>2. CASE ~Enter(t)
          BY <1>1, <2>3, <3>3, <5>2, ProceedPass
        <5> QED  BY <5>1, <5>2
      <4> QED  BY <2>0, <3>1, <4>1 DEF NewestWins, Level
    <3> QED  BY <3>2, <3>3
  <2> QED  BY <2>1, <2>2, <2>3
<1>2. ASSUME NEW t \in Tasks, NEW op \in {"activate", "reapply"}, Ask(t, op)
      PROVE  NewestWins'
  <2>1. Deactivating => Deactivating'
    BY <1>2, IdleTyped DEF Deactivating, Ask, Free, Goes, TypeOK
  <2> QED  BY <1>2, <2>1 DEF NewestWins, Ask, Free
<1>3. ASSUME NEW t \in Tasks, NEW op \in Newer, Supersede(t, op)
      PROVE  NewestWins'
  <2>1. op \in Ops
    BY DEF Newer, Ops, Transitions
  <2>2. ASSUME NEW u \in Tasks, task[u].op \in Offs, task[u].at \in {"wait", "commit"}
        PROVE  task'[u].op \in Offs /\ task'[u].at \in {"wait", "commit"}
    BY <1>3, <2>1, <2>2, IdleTyped, OutdatedTyped DEF Supersede, Free, TypeOK, Offs
  <2>3. Deactivating => Deactivating'
    BY <2>2 DEF Deactivating, Offs
  <2>4. op \in Offs => Deactivating'
    <3>1. task'[t].op = op /\ task'[t].at = "wait"
      BY <1>3, <2>1, AskedTyped DEF Supersede, TypeOK
    <3> QED  BY <3>1 DEF Deactivating, Offs
  <2> QED  BY <1>3, <2>3, <2>4 DEF NewestWins, Supersede, Free, Newer, Offs
<1>4. ASSUME NEW t \in Tasks, Start(t)
      PROVE  NewestWins'
  <2>1. ~Deactivating
    <3>1. Len(queue) = 0
      BY <1>4 DEF Start, Level
    <3> QED  BY <3>1, InTheLine DEF InLine, Deactivating
  <2> QED  BY <1>4, <2>1 DEF NewestWins, Start
<1>5. CASE Crash
  BY <1>5 DEF Crash, NewestWins, Level
<1>6. CASE UNCHANGED <<task, up, level, wantOff>>
  BY <1>6 DEF NewestWins, Deactivating, level
<1> QED  BY <1>1, <1>2, <1>3, <1>4, <1>5, <1>6
         DEF Next, Request, Newer, PersonSwitches, SetWorks, vars, level

-----------------------------------------------------------------------------
(* The factory reset, when nothing is asked while it runs *)

LEMMA ResetKept ==
    ASSUME TypeOK, Shape, InLine, ResetAlone, [Next]_vars
    PROVE  ResetAlone'
<1> SUFFICES ASSUME QuietResets, NEW r \in Tasks, task'[r].op = "reset"
             PROVE  /\ task'[r].at \notin AfterLock =>
                         queue' # <<>> /\ queue'[Len(queue')] = r
                    /\ task'[r].at \in AfterLock => queue' = <<>>
                    /\ task'[r].at = "wipe" => owed' = {}
  BY DEF ResetAlone
<1>1. ASSUME NEW t \in Tasks, Proceed(t) \/ Answer(t)
      PROVE  /\ task'[r].at \notin AfterLock =>
                  queue' # <<>> /\ queue'[Len(queue')] = r
             /\ task'[r].at \in AfterLock => queue' = <<>>
             /\ task'[r].at = "wipe" => owed' = {}
  <2>1. CASE Stays(t)
    <3>1. task[r].op = "reset" /\ queue' = queue /\ queue # <<>>
      BY <2>1 DEF Stays, Holds, TypeOK
    <3>2. task[r].at \notin AfterLock /\ queue[Len(queue)] = r
      BY <3>1 DEF ResetAlone
    <3>3. task'[r].at \notin AfterLock
      BY <2>1, <3>2 DEF Stays, TypeOK
    <3> QED  BY <3>1, <3>2, <3>3 DEF AfterLock
  <2>2. CASE (Leaves(t) \/ HandsOver(t)) /\ r # t
    <3>1. queue # <<>> /\ queue' = Tail(queue) /\ task'[r] = task[r] /\ Holds(t)
      BY <2>2 DEF Leaves, HandsOver, Leave, Goes, Holds, TypeOK
    <3>2. task[r].at \notin AfterLock /\ queue[Len(queue)] = r
      BY <3>1 DEF ResetAlone
    <3>3. queue[1] = t /\ Len(queue) \in Nat
      BY <3>1, HeadFirst DEF TypeOK
    <3>4. Len(queue) > 1
      BY <2>2, <3>1, <3>2, <3>3 DEF TypeOK
    <3>5. /\ queue' \in Seq(Tasks) /\ Len(queue') = Len(queue) - 1
          /\ \A i \in 1..Len(queue') : queue'[i] = queue[i + 1]
      BY <3>1, TailFacts DEF TypeOK
    <3>6. Len(queue') \in 1..Len(queue') /\ Len(queue') + 1 = Len(queue)
      BY <3>3, <3>4, <3>5
    <3>7. queue'[Len(queue')] = r
      BY <3>2, <3>5, <3>6
    <3>8. queue' # <<>>
      BY <3>3, <3>4, <3>5
    <3> QED  BY <3>1, <3>2, <3>7, <3>8 DEF AfterLock
  <2>3. CASE HandsOver(t) /\ r = t
    <3>1. queue # <<>> /\ queue' = Tail(queue) /\ Holds(t) /\ task[t].op = "reset"
      BY <2>3 DEF HandsOver, Holds
    <3>2. queue[1] = t /\ 1 \in 1..Len(queue) /\ Len(queue) \in Nat
      BY <3>1, HeadFirst DEF TypeOK
    <3>3. task[t].at \notin AfterLock
      BY <3>2 DEF InLine, Line
    <3>4. queue[Len(queue)] = t
      BY <3>1, <3>3 DEF ResetAlone
    <3>5. Len(queue) = 1
      <4>1. Len(queue) \in 1..Len(queue)
        BY <3>2
      <4> QED  BY <3>2, <3>4, <4>1 DEF InLine, Line
    <3>6. queue' = <<>>
      BY <3>1, <3>5 DEF TypeOK
    <3>7. task'[r].at = "check"
      BY <2>3 DEF HandsOver, TypeOK, Jobs
    <3> QED  BY <3>6, <3>7 DEF AfterLock
  <2>4. CASE Leaves(t) /\ r = t
    BY <2>4, IdleTyped DEF Leaves, Leave, Goes, TypeOK
  <2>5. CASE Finishes(t)
    <3>1. queue = <<>> /\ queue' = <<>> /\ task[t].at \in AfterLock
      BY <2>5 DEF Finishes, ResetAlone, Shape
    <3>2. ResetChecks(t) \/ ResetWipe(t)
      BY <1>1, <3>1
         DEF Proceed, Answer, Enter, TurnedAway, StopEnds, RecordOn, RecordOff,
             ReadRemembered, Consider, TurnOff, TurnOffFails, Remember, PassEnds,
             Command, DevicesEnd, ReadOwed, TurnOn, TurnOnFails, SaveOwed,
             RestoreEnds, At, Holds
    <3>3. task'[r].at \in AfterLock
      <4>1. CASE r = t
        BY <2>5, <4>1, IdleTyped DEF Finishes, TypeOK, AfterLock, Jobs
      <4>2. CASE r # t
        BY <2>5, <3>1, <4>2 DEF Finishes, TypeOK, ResetAlone
      <4> QED  BY <4>1, <4>2
    <3>4. task'[r].at = "wipe" => owed' = {}
      <4>1. CASE ResetWipe(t)
        BY <4>1 DEF ResetWipe
      <4>2. CASE ResetChecks(t) /\ r = t
        BY <4>2 DEF ResetChecks, Goes, Quietly, TypeOK, Idle
      <4>3. CASE ResetChecks(t) /\ r # t
        BY <2>5, <4>3 DEF Finishes, ResetChecks, Quietly, TypeOK, ResetAlone
      <4> QED  BY <3>2, <4>1, <4>2, <4>3
    <3> QED  BY <3>1, <3>3, <3>4
  <2> QED  BY <1>1, <2>1, <2>2, <2>3, <2>4, <2>5, ProceedForms
<1>2. ASSUME NEW t \in Tasks, NEW op \in Ops \ {"idle"}, Requests(t, op), ~Resetting
      PROVE  task'[r].at = "wait" /\ queue' # <<>> /\ queue'[Len(queue')] = r
  <2>1. r = t
    BY <1>2, AskedTyped, OutdatedTyped DEF Requests, Asks, Supersedes, Resetting, TypeOK
  <2>2. task'[t].at = "wait"
    BY <1>2, AskedTyped DEF Requests, Asks, Supersedes, TypeOK
  <2>3. queue' = Append(queue, t)
    BY <1>2 DEF Requests, Asks, Supersedes
  <2> QED  BY <2>1, <2>2, <2>3, AppendFacts DEF TypeOK
<1>3. ASSUME NEW t \in Tasks, Start(t)
      PROVE  FALSE
  BY <1>3, IdleTyped, AskedTyped DEF Start, Ops, Transitions
<1>4. CASE Crash
  BY <1>4, IdleTyped DEF Crash
<1>5. CASE UNCHANGED <<queue, task, owed>>
  BY <1>5 DEF ResetAlone
<1>6. ASSUME NEW t \in Tasks, NEW op \in {"activate", "reapply"}, Ask(t, op)
      PROVE  op \in Ops \ {"idle"} /\ Requests(t, op) /\ ~Resetting
  BY <1>6 DEF Ask, Free, Goes, Asks, Requests, Ops, Transitions, Newer
<1>7. ASSUME NEW t \in Tasks, NEW op \in Newer, Supersede(t, op)
      PROVE  op \in Ops \ {"idle"} /\ Requests(t, op) /\ ~Resetting
  BY <1>7 DEF Supersede, Free, Supersedes, Requests, Ops, Transitions, Newer
<1>8. CASE \E t \in Tasks : Request(t)
  <2>1. \E t \in Tasks, op \in Ops \ {"idle"} : Requests(t, op) /\ ~Resetting
    BY <1>6, <1>7, <1>8, Zenon DEF Request, Newer
  <2> QED  BY <1>2, <2>1 DEF AfterLock
<1> QED  BY <1>1, <1>3, <1>4, <1>5, <1>8 DEF Next, PersonSwitches, SetWorks, vars

-----------------------------------------------------------------------------
(* What the hub switched off is owed *)

LEMMA OwedStep ==
    ASSUME TypeOK, Shape, Level, Minds, ResetAlone, OwedKept, QuietResets, [Next]_vars
    PROVE  OwedKept'
<1>1. ASSUME NEW t \in Tasks, Proceed(t) \/ Answer(t)
      PROVE  OwedKept'
  <2>0. task[t] \in Jobs
    BY DEF TypeOK
  <2>1. CASE TurnOff(t)
    <3>1. task'[t].at = "save" /\ task'[t].entity = task[t].entity
      BY <2>0, <2>1 DEF TurnOff, Goes, TypeOK, Jobs
    <3>2. task[t].entity \in Saving'
      BY <3>1 DEF Saving
    <3>3. Saving = {}
      BY <2>1, OneAtWork DEF TurnOff, At, Saving
    <3> QED  BY <2>1, <3>2, <3>3 DEF TurnOff, OwedKept
  <2>2. CASE Remember(t)
    <3>1. Saving \subseteq {task[t].entity}
      BY <2>2, OneAtWork DEF Remember, At, Saving
    <3>2. owed \cup {task[t].entity} \subseteq task[t].mind
      BY <2>2 DEF Remember, At, Minds
    <3> QED  BY <2>2, <3>1, <3>2 DEF Remember, OwedKept
  <2>3. CASE SaveOwed(t)
    <3>1. Saving = {}
      BY <2>3, OneAtWork DEF SaveOwed, At, Saving
    <3>2. owed \cap hubOff \subseteq task[t].mind
      BY <2>3 DEF SaveOwed, At, Minds
    <3> QED  BY <2>3, <3>1, <3>2 DEF SaveOwed, OwedKept
  <2>4. CASE ResetWipe(t)
    <3>1. owed = {}
      BY <2>4 DEF ResetWipe, ResetAlone, Shape, AfterLock
    <3>2. Saving \subseteq Saving'
      BY <2>4 DEF ResetWipe, Goes, Saving, TypeOK
    <3> QED  BY <2>4, <3>1, <3>2 DEF ResetWipe, OwedKept
  <2>5. CASE ~TurnOff(t) /\ ~Remember(t) /\ ~SaveOwed(t) /\ ~ResetWipe(t)
    <3>1. owed' = owed /\ hubOff' \subseteq hubOff /\ lost' = lost
      BY <1>1, <2>5
         DEF Proceed, Answer, Quietly, Enter, TurnedAway, StopEnds, RecordOn, RecordOff,
             ReadRemembered, Consider, TurnOffFails, PassEnds,
             Command, DevicesEnd, ReadOwed, TurnOn, TurnOnFails,
             RestoreEnds, ResetChecks
    <3>2. /\ task[t].at # "save" /\ \A u \in Tasks \ {t} : task'[u] = task[u]
      BY <1>1, <2>5
         DEF Proceed, Answer, Enter, TurnedAway, StopEnds, RecordOn, RecordOff,
             ReadRemembered, Consider, TurnOffFails, PassEnds,
             Command, DevicesEnd, ReadOwed, TurnOn, TurnOnFails,
             RestoreEnds, ResetChecks, At, Leave, To, Goes, TypeOK
    <3>3. Saving \subseteq Saving'
      BY <3>2 DEF Saving
    <3> QED  BY <3>1, <3>3 DEF OwedKept
  <2> QED  BY <2>1, <2>2, <2>3, <2>4, <2>5
<1>2. ASSUME NEW t \in Tasks, NEW op \in {"activate", "reapply"}, Ask(t, op)
      PROVE  OwedKept'
  <2>1. Saving \subseteq Saving'
    BY <1>2, IdleTyped DEF Ask, Free, Goes, Saving, TypeOK
  <2> QED  BY <1>2, <2>1 DEF Ask, OwedKept
<1>3. ASSUME NEW t \in Tasks, NEW op \in Newer, Supersede(t, op)
      PROVE  OwedKept'
  <2>1. ASSUME NEW u \in Tasks, task[u].at = "save"
        PROVE  task'[u].at = "save" /\ task'[u].entity = task[u].entity
    BY <1>3, <2>1, IdleTyped, OutdatedTyped DEF Supersede, Free, TypeOK
  <2>2. Saving \subseteq Saving'
    BY <2>1 DEF Saving
  <2> QED  BY <1>3, <2>2 DEF Supersede, OwedKept
<1>4. ASSUME NEW t \in Tasks, Start(t)
      PROVE  OwedKept'
  <2>1. Saving = {}
    BY <1>4 DEF Start, Level, Saving, TypeOK, Holds
  <2> QED  BY <1>4, <2>1 DEF Start, OwedKept
<1>5. CASE Crash
  BY <1>5 DEF Crash, OwedKept
<1>6. CASE UNCHANGED <<task, owed, lost>> /\ hubOff' \subseteq hubOff
  BY <1>6 DEF OwedKept, Saving
<1> QED  BY <1>1, <1>2, <1>3, <1>4, <1>5, <1>6
         DEF Next, Request, Newer, PersonSwitches, SetWorks, vars

-----------------------------------------------------------------------------
(* What is owed with nothing in flight *)

(* A request that was superseded has the newer one behind it. *)
Overtaken == \A i \in 1..Len(queue) :
    ~task[queue[i]].cur => \E j \in 1..Len(queue) : i < j /\ task[queue[j]].op \in Newer

(* What a restore has not switched on again it still has to, or has failed to. *)
Honest(job, stored, bad) ==
    /\ job.at \in {"back", "keep"} => job.mind \subseteq bad \cup job.todo
    /\ job.at = "back" => stored \subseteq job.mind
Restored == \A t \in Tasks : Honest(task[t], owed, failed)

(* A request that restores, or will when its turn comes. *)
Restores(job) ==
    \/ job.op \in Offs /\ job.at \in {"wait", "commit"}
    \/ job.op = "resume" /\ job.cur /\ job.at = "wait"
    \/ job.at \in InRestore
RestoreDue == up = "up" /\ ~active => owed \subseteq failed \/ \E t \in Tasks : Restores(task[t])

LEMMA OvertakenJoins ==
    ASSUME TypeOK, Overtaken, InLine, NEW t \in Tasks, NEW op \in Ops \ {"idle"}, Requests(t, op)
    PROVE  Overtaken'
<1> DEFINE n == Len(queue) + 1
<1>1. /\ Len(queue) \in Nat /\ Len(queue') = n
      /\ \A i \in 1..Len(queue) : i \in 1..Len(queue') /\ queue'[i] = queue[i]
      /\ queue'[n] = t /\ task[t] = Idle
  BY AppendFacts DEF Requests, Asks, Supersedes, TypeOK
<1>2. \A i \in 1..Len(queue) : queue[i] \in Tasks \ {t}
  BY <1>1, IdleTyped DEF InLine, Line, TypeOK
<1>3. task'[t].op = op /\ task'[t].cur
  BY AskedTyped DEF Requests, Asks, Supersedes, TypeOK
<1>4. \A u \in Tasks \ {t} : task'[u].op = task[u].op /\ (op \notin Newer => task'[u].cur = task[u].cur)
  BY OutdatedTyped DEF Requests, Asks, Supersedes, TypeOK
<1>5. ASSUME NEW i \in 1..Len(queue'), ~task'[queue'[i]].cur
      PROVE  \E j \in 1..Len(queue') : i < j /\ task'[queue'[j]].op \in Newer
  <2>1. i \in 1..Len(queue)
    BY <1>1, <1>3, <1>5
  <2>2. CASE op \in Newer
    <3>1. n \in 1..Len(queue') /\ i < n
      BY <1>1, <2>1
    <3> QED  BY <1>1, <1>3, <2>2, <3>1
  <2>3. CASE op \notin Newer
    <3>1. ~task[queue[i]].cur
      BY <1>1, <1>2, <1>4, <1>5, <2>1, <2>3
    <3>2. PICK j \in 1..Len(queue) : i < j /\ task[queue[j]].op \in Newer
      BY <2>1, <3>1 DEF Overtaken
    <3> QED  BY <1>1, <1>2, <1>4, <3>2
  <2> QED  BY <2>2, <2>3
<1> QED  BY <1>5 DEF Overtaken

LEMMA OvertakenKept ==
    ASSUME TypeOK, Shape, InLine, Overtaken, [Next]_vars
    PROVE  Overtaken'
<1>1. ASSUME NEW t \in Tasks, Stays(t)
      PROVE  Overtaken'
  BY <1>1 DEF Stays, Overtaken, TypeOK
<1>2. ASSUME NEW t \in Tasks, Leaves(t) \/ HandsOver(t)
      PROVE  Overtaken'
  <2>1. Holds(t) /\ queue' = Tail(queue) /\ \E job : task' = [task EXCEPT ![t] = job]
    BY <1>2 DEF Leaves, Leave, Goes, HandsOver
  <2>2. /\ Len(queue) \in Nat /\ Len(queue') = Len(queue) - 1
        /\ \A i \in 1..Len(queue') :
             i + 1 \in 1..Len(queue) /\ task'[queue'[i]] = task[queue[i + 1]]
    BY <2>1, MovesUp DEF InLine
  <2>3. ASSUME NEW i \in 1..Len(queue'), ~task'[queue'[i]].cur
        PROVE  \E j \in 1..Len(queue') : i < j /\ task'[queue'[j]].op \in Newer
    <3>1. i + 1 \in 1..Len(queue) /\ ~task[queue[i + 1]].cur
      BY <2>2, <2>3
    <3>2. PICK j \in 1..Len(queue) : i + 1 < j /\ task[queue[j]].op \in Newer
      BY <3>1 DEF Overtaken
    <3>3. j - 1 \in 1..Len(queue') /\ i < j - 1 /\ (j - 1) + 1 = j
      BY <2>2, <3>2
    <3>4. task'[queue'[j - 1]] = task[queue[j]]
      BY <2>2, <3>3
    <3> QED  BY <3>2, <3>3, <3>4
  <2> QED  BY <2>3 DEF Overtaken
<1>3. ASSUME NEW t \in Tasks, Finishes(t)
      PROVE  Overtaken'
  <2>1. \A i \in 1..Len(queue) : queue[i] \in Tasks \ {t}
    BY <1>3 DEF InLine, Line, Finishes, TypeOK
  <2>2. queue' = queue /\ \A u \in Tasks \ {t} : task'[u] = task[u]
    BY <1>3 DEF Finishes, TypeOK
  <2> QED  BY <2>1, <2>2 DEF Overtaken
<1>4. ASSUME NEW t \in Tasks, Start(t)
      PROVE  Overtaken'
  <2>1. queue' = <<t>> /\ Len(queue') = 1 /\ queue'[1] = t /\ task'[t].cur
    BY <1>4, AskedTyped DEF Start, Ops, Transitions
  <2> QED  BY <2>1 DEF Overtaken
<1>5. CASE Crash
  BY <1>5 DEF Crash, Overtaken
<1>6. CASE UNCHANGED <<queue, task>>
  BY <1>6 DEF Overtaken
<1> QED  BY <1>1, <1>2, <1>3, <1>4, <1>5, <1>6, NextForms, OvertakenJoins DEF LineStep

(* Who is not at the head of the line only waits, or ends a factory reset. *)
LEMMA WithoutTheLock ==
    ASSUME TypeOK, NEW t \in Tasks, Proceed(t) \/ Answer(t), ~Holds(t)
    PROVE  /\ ResetChecks(t) \/ ResetWipe(t)
           /\ owed' \subseteq owed /\ failed' = failed /\ active' = active
BY DEF Proceed, Answer, Enter, TurnedAway, StopEnds, RecordOn, RecordOff, ReadRemembered, Consider,
       TurnOff, TurnOffFails, Remember, PassEnds, Command, DevicesEnd, ReadOwed, TurnOn,
       TurnOnFails, SaveOwed, RestoreEnds, ResetChecks, ResetWipe, At, Quietly

LEMMA OthersWait ==
    ASSUME TypeOK, NEW t \in Tasks, Proceed(t) \/ Answer(t)
    PROVE  \A u \in Tasks \ {t} : task'[u] = task[u]
BY DEF Proceed, Answer, Enter, TurnedAway, StopEnds, RecordOn, RecordOff, ReadRemembered, Consider,
       TurnOff, TurnOffFails, Remember, PassEnds, Command, DevicesEnd, ReadOwed, TurnOn,
       TurnOnFails, SaveOwed, RestoreEnds, ResetChecks, ResetWipe, Leave, To, Goes, TypeOK

Restoring(t) ==
    \/ ReadOwed(t) \/ SaveOwed(t)
    \/ \E a \in Automations : TurnOn(t, a) \/ TurnOnFails(t, a)

(* A restore goes on, and is true to what it has done. *)
LEMMA RestoreGoesOn ==
    ASSUME TypeOK, Restored, NEW t \in Tasks, Restoring(t)
    PROVE  /\ Honest(task'[t], owed', failed') /\ task'[t].at \in {"back", "keep"}
           /\ Holds(t) /\ up' = up /\ active' = active
<1>1. task[t] \in Jobs /\ Honest(task[t], owed, failed)
  BY DEF TypeOK, Restored
<1>2. CASE ReadOwed(t)
  BY <1>1, <1>2 DEF ReadOwed, At, Goes, Quietly, TypeOK, Honest, Jobs
<1>3. CASE SaveOwed(t)
  BY <1>1, <1>3 DEF SaveOwed, At, To, Goes, TypeOK, Honest, Jobs
<1>4. ASSUME NEW a \in Automations, TurnOn(t, a)
      PROVE  /\ Honest(task'[t], owed', failed') /\ task'[t].at \in {"back", "keep"}
             /\ Holds(t) /\ up' = up /\ active' = active
  <2>1. /\ task'[t].at = "keep" /\ task'[t].mind = task[t].mind \ {a}
        /\ task'[t].todo = task[t].todo \ {a} /\ failed' = failed \ {a} /\ task[t].at = "back"
        /\ Holds(t) /\ up' = up /\ active' = active
    BY <1>1, <1>4 DEF TurnOn, At, Goes, TypeOK, Jobs
  <2> QED  BY <1>1, <2>1 DEF Honest
<1>5. ASSUME NEW a \in Automations, TurnOnFails(t, a)
      PROVE  /\ Honest(task'[t], owed', failed') /\ task'[t].at \in {"back", "keep"}
             /\ Holds(t) /\ up' = up /\ active' = active
  <2>1. /\ task'[t].at = "back" /\ task'[t].mind = task[t].mind /\ owed' = owed
        /\ task'[t].todo = task[t].todo \ {a} /\ failed' = failed \cup {a} /\ task[t].at = "back"
        /\ Holds(t) /\ up' = up /\ active' = active
    BY <1>1, <1>5 DEF TurnOnFails, At, Goes, TypeOK, Jobs
  <2> QED  BY <1>1, <2>1 DEF Honest
<1> QED  BY <1>2, <1>3, <1>4, <1>5 DEF Restoring

(* No other step touches what failed or gets a restore under way. *)
LEMMA NoRestore ==
    ASSUME TypeOK, Shape, NEW t \in Tasks, Proceed(t) \/ Answer(t), ~Restoring(t)
    PROVE  task'[t].at \notin {"back", "keep"} /\ failed' = failed
<1>0. task[t] \in Jobs
  BY DEF TypeOK
<1>1. failed' = failed
  BY DEF Restoring, Proceed, Answer, Enter, TurnedAway, StopEnds, RecordOn, RecordOff, ReadRemembered,
         Consider, TurnOff, TurnOffFails, Remember, PassEnds, Command, DevicesEnd, RestoreEnds,
         ResetChecks, ResetWipe, Quietly
<1>2. CASE Leave(t) \/ Goes(t, Idle)
  BY <1>1, <1>2, IdleTyped DEF Leave, Goes, TypeOK
<1>3. ASSUME NEW place \in Places \ {"back", "keep"}, To(t, place)
      PROVE  task'[t].at \notin {"back", "keep"}
  BY <1>0, <1>3 DEF To, Goes, TypeOK, Jobs
<1>4. CASE ReadRemembered(t) \/ TurnOff(t) \/ \E d \in Devices : Command(t, d)
  <2>1. \E job : Goes(t, job) /\ job.at \in {"pass", "save", "sent"}
    <3>1. CASE ReadRemembered(t)
      <4> DEFINE job == [task[t] EXCEPT !.at = "pass", !.mind = owed, !.todo = on \ owed]
      <4>1. job.at = "pass" /\ Goes(t, job)
        BY <1>0, <3>1 DEF ReadRemembered, Jobs
      <4> QED  BY <4>1
    <3>2. CASE TurnOff(t)
      <4> DEFINE job == [task[t] EXCEPT !.at = "save", !.mind = @ \cup {task[t].entity}]
      <4>1. job.at = "save" /\ Goes(t, job)
        BY <1>0, <3>2 DEF TurnOff, Jobs
      <4> QED  BY <4>1
    <3>3. ASSUME NEW d \in Devices, Command(t, d)
          PROVE  \E job : Goes(t, job) /\ job.at \in {"pass", "save", "sent"}
      <4> DEFINE job == [task[t] EXCEPT !.at = "sent", !.entity = d, !.todo = @ \ {d}]
      <4>1. job.at = "sent" /\ Goes(t, job)
        BY <1>0, <3>3 DEF Command, Jobs
      <4> QED  BY <4>1
    <3> QED  BY <1>4, <3>1, <3>2, <3>3
  <2> QED  BY <1>1, <2>1 DEF Goes, TypeOK
<1>5. ASSUME NEW a \in Automations, Consider(t, a)
      PROVE  task'[t].at \notin {"back", "keep"}
  <2> DEFINE past == [task[t] EXCEPT !.todo = @ \ {a}]
  <2> DEFINE off == [task[t] EXCEPT !.todo = @ \ {a}, !.at = "off", !.entity = a]
  <2>1. past.at = "pass" /\ off.at = "off"
    BY <1>0, <1>5 DEF Consider, At, Jobs
  <2>2. Goes(t, past) \/ Goes(t, off) \/ Leave(t)
    BY <1>5 DEF Consider
  <2> HIDE DEF past, off
  <2> QED  BY <1>2, <2>1, <2>2 DEF Goes, TypeOK
<1>6. CASE PassEnds(t)
  <2> DEFINE job == [task[t] EXCEPT !.at = "devices", !.todo = Devices]
  <2>1. job.at = "devices"
    BY <1>0 DEF Jobs
  <2>2. Goes(t, job) \/ Leave(t)
    BY <1>6 DEF PassEnds
  <2> HIDE DEF job
  <2> QED  BY <1>1, <1>2, <2>1, <2>2 DEF Goes, TypeOK
<1>7. Enter(t) \/ TurnedAway(t) \/ StopEnds(t) \/ RecordOn(t) \/ RecordOff(t) \/ TurnOffFails(t)
        \/ Remember(t) \/ Answer(t) \/ DevicesEnd(t) \/ RestoreEnds(t) \/ ResetChecks(t) \/ ResetWipe(t) =>
        \/ Leave(t) \/ Goes(t, Idle)
        \/ \E place \in Places \ {"back", "keep"} : To(t, place)
  BY DEF Enter, TurnedAway, StopEnds, RecordOn, RecordOff, TurnOffFails, Remember, Answer,
         DevicesEnd, RestoreEnds, ResetChecks, ResetWipe, Places
<1> QED  BY <1>1, <1>2, <1>3, <1>4, <1>5, <1>6, <1>7 DEF Restoring, Proceed

LEMMA RestoredKept ==
    ASSUME TypeOK, Shape, Restored, [Next]_vars
    PROVE  Restored'
<1>1. ASSUME NEW t \in Tasks, Proceed(t) \/ Answer(t), NEW u \in Tasks
      PROVE  Honest(task'[u], owed', failed')
  <2>1. CASE u = t
    BY <1>1, <2>1, RestoreGoesOn, NoRestore DEF Honest
  <2>2. CASE u # t /\ task[u].at \in {"back", "keep"}
    <3>1. Holds(u) /\ ~Holds(t)
      BY <2>2 DEF TypeOK, Holds
    <3>2. owed' \subseteq owed /\ failed' = failed /\ task'[u] = task[u]
      BY <1>1, <2>2, <3>1, WithoutTheLock, OthersWait
    <3> QED  BY <3>2 DEF Restored, Honest
  <2>3. CASE u # t /\ task[u].at \notin {"back", "keep"}
    BY <1>1, <2>3, OthersWait DEF Honest
  <2> QED  BY <2>1, <2>2, <2>3
<1>2. ASSUME NEW t \in Tasks, Request(t), NEW u \in Tasks
      PROVE  Honest(task'[u], owed', failed')
  <2>1. owed' = owed /\ failed' = failed
    BY <1>2 DEF Request, Ask, Supersede
  <2>2. task'[u] = task[u] \/ task'[u] = Outdated(task[u]) \/ \E op \in Ops : task'[u] = Asked(op)
    BY <1>2 DEF Request, Ask, Supersede, Goes, TypeOK, Ops, Transitions
  <2>3. task[u] \in Jobs /\ Honest(task[u], owed, failed)
    BY DEF TypeOK, Restored
  <2> QED  BY <2>1, <2>2, <2>3, AskedTyped, OutdatedTyped DEF Honest
<1>3. ASSUME NEW t \in Tasks, Start(t)
      PROVE  Restored'
  BY <1>3, IdleTyped, AskedTyped DEF Start, Restored, Honest, Ops, Transitions
<1>4. CASE Crash
  BY <1>4, IdleTyped DEF Crash, Restored, Honest
<1>5. CASE UNCHANGED <<task, owed, failed>>
  BY <1>5 DEF Restored
<1>6. ASSUME NEW a \in Automations, PersonSwitches(a) \/ SetWorks(a)
      PROVE  UNCHANGED <<task, owed, failed>>
  BY <1>6 DEF PersonSwitches, SetWorks
<1> QED  BY <1>1, <1>2, <1>3, <1>4, <1>5, <1>6 DEF Next, Restored, vars

LEMMA DueProceeds ==
    ASSUME IInv, Overtaken, Restored, RestoreDue, NEW t \in Tasks, Proceed(t) \/ Answer(t)
    PROVE  RestoreDue'
<1> USE DEF IInv
<1> SUFFICES ASSUME up' = "up", ~active'
             PROVE  owed' \subseteq failed' \/ \E u \in Tasks : Restores(task'[u])
  BY DEF RestoreDue
<1>0. task[t] \in Jobs /\ up = "up"
  BY ProceedUp DEF TypeOK, StopEnds
<1>1. CASE Restoring(t)
  BY <1>1, RestoreGoesOn DEF Restores, InRestore
<1>2. CASE RecordOff(t)
  <2>1. task'[t].at = "restore"
    BY <1>0, <1>2 DEF RecordOff, To, Goes, TypeOK, Jobs
  <2> QED  BY <2>1 DEF Restores, InRestore
<1>3. CASE Enter(t) /\ task[t].op \in Offs \cup {"resume"}
  <2>1. active' = active
    BY <1>3 DEF Enter, Quietly
  <2>2. (To(t, "commit") /\ task[t].op \in Offs) \/ To(t, "restore")
    BY <1>3, <2>1 DEF Enter, Offs
  <2>3. /\ task'[t].op = task[t].op
        /\ (task'[t].at = "commit" /\ task[t].op \in Offs) \/ task'[t].at = "restore"
    BY <1>0, <2>2 DEF To, Goes, TypeOK, Jobs
  <2> QED  BY <2>3 DEF Restores, InRestore
<1>4. CASE RestoreEnds(t)
  <2>1. task[t].at = "back" /\ task[t].todo = {} /\ owed' = owed /\ failed' = failed
    BY <1>4 DEF RestoreEnds, At, Quietly
  <2>2. owed \subseteq failed
    BY <2>1 DEF Restored, Honest
  <2> QED  BY <2>1, <2>2
<1>5. CASE TurnedAway(t) /\ task[t].op = "resume"
  <2>1. 1 \in 1..Len(queue) /\ queue[1] = t /\ ~task[t].cur /\ Len(queue) \in Nat
    BY <1>5, HeadFirst DEF TurnedAway, At, TypeOK
  <2>2. PICK j \in 1..Len(queue) : 1 < j /\ task[queue[j]].op \in Newer
    BY <2>1 DEF Overtaken
  <2>3. queue[j] \in Tasks \ {t} /\ task[queue[j]].at \notin AfterLock
    BY <2>1, <2>2 DEF TypeOK, Line
  <2>4. task[queue[j]].op \in Offs
    BY <1>0, <2>2 DEF StopLast, Newer, Offs
  <2>5. task[queue[j]].at = "wait"
    <3>1. ~Holds(queue[j])
      BY <2>1, <2>3, HeadFirst
    <3> QED  BY <2>3, <2>4, <3>1 DEF TypeOK, Shape, Offs, Transitions, AfterLock
  <2>6. task'[queue[j]] = task[queue[j]]
    BY <2>3, OthersWait
  <2> QED  BY <2>3, <2>4, <2>5, <2>6 DEF Restores
<1>6. CASE /\ ~Restoring(t) /\ ~RecordOff(t) /\ ~RestoreEnds(t)
           /\ ~(Enter(t) /\ task[t].op \in Offs \cup {"resume"})
           /\ ~(TurnedAway(t) /\ task[t].op = "resume")
  <2>1. ~active
    <3>1. CASE RecordOn(t)
      BY <3>1 DEF RecordOn, level
    <3>2. CASE ~RecordOn(t)
      BY <1>6, <3>2, ProceedPass DEF Enter, Quietly
    <3> QED  BY <3>1, <3>2
  <2>2. owed' \subseteq owed /\ failed' = failed /\ ~Restores(task[t])
    <3>1. task[t].at \notin InPass
      BY <2>1 DEF Level
    <3>2. /\ ~ReadRemembered(t) /\ ~TurnOff(t) /\ ~TurnOffFails(t) /\ ~Remember(t)
          /\ ~PassEnds(t) /\ ~Answer(t) /\ ~(\E a \in Automations : Consider(t, a))
          /\ ~(\E d \in Devices : Command(t, d))
      BY <3>1 DEF ReadRemembered, TurnOff, TurnOffFails, Remember, PassEnds, Answer, Consider, Command,
                  At, InPass
    <3>3. \/ Enter(t) \/ TurnedAway(t) \/ StopEnds(t) \/ RecordOn(t) \/ DevicesEnd(t)
          \/ ResetChecks(t) \/ ResetWipe(t)
      BY <1>6, <3>2 DEF Proceed, Restoring
    <3>4. owed' \subseteq owed /\ failed' = failed
      BY <3>3 DEF Enter, TurnedAway, StopEnds, RecordOn, DevicesEnd, ResetChecks, ResetWipe, Quietly
    <3>5. ~StopEnds(t)
      BY DEF StopEnds
    <3>6. ~Restores(task[t])
      BY <1>6, <3>3, <3>5 DEF Restores, Enter, TurnedAway, RecordOn, DevicesEnd, ResetChecks,
         ResetWipe, At, Offs, Transitions, InRestore
    <3> QED  BY <3>4, <3>6
  <2>3. owed \subseteq failed \/ \E u \in Tasks \ {t} : Restores(task[u])
    BY <1>0, <2>1, <2>2 DEF RestoreDue
  <2>4. \A u \in Tasks \ {t} : task'[u] = task[u]
    BY OthersWait
  <2> QED  BY <2>2, <2>3, <2>4
<1> QED  BY <1>1, <1>2, <1>3, <1>4, <1>5, <1>6

LEMMA DueKept ==
    ASSUME IInv, Overtaken, Restored, RestoreDue, [Next]_vars
    PROVE  RestoreDue'
<1>1. ASSUME NEW t \in Tasks, NEW op \in {"activate", "reapply"}, Ask(t, op)
      PROVE  RestoreDue'
  <2>1. /\ UNCHANGED <<up, active, owed, failed>> /\ task[t] = Idle
        /\ \A u \in Tasks \ {t} : task'[u] = task[u]
    BY <1>1 DEF Ask, Free, Goes, IInv, TypeOK
  <2>2. ~Restores(Idle)
    BY IdleTyped DEF Restores, Offs, InRestore
  <2> QED  BY <2>1, <2>2 DEF RestoreDue
<1>2. ASSUME NEW t \in Tasks, NEW op \in Newer, Supersede(t, op)
      PROVE  RestoreDue'
  <2>1. op \in Ops
    BY DEF Newer, Ops, Transitions
  <2>2. task'[t] = Asked(op)
    BY <1>2 DEF Supersede, IInv, TypeOK
  <2>3. CASE op = "stop"
    BY <1>2, <2>3 DEF Supersede, RestoreDue
  <2>4. CASE op # "stop"
    BY <2>1, <2>2, <2>4, AskedTyped DEF RestoreDue, Restores, Newer, Offs
  <2> QED  BY <2>3, <2>4
<1>3. ASSUME NEW t \in Tasks, Start(t)
      PROVE  RestoreDue'
  <2>1. task'[t] = Asked("resume") /\ "resume" \in Ops
    BY <1>3 DEF Start, Ops, Transitions
  <2> QED  BY <2>1, AskedTyped DEF RestoreDue, Restores
<1>4. CASE Crash
  BY <1>4 DEF Crash, RestoreDue
<1>5. CASE UNCHANGED <<up, active, owed, failed, task>>
  BY <1>5 DEF RestoreDue
<1>6. ASSUME NEW a \in Automations, PersonSwitches(a) \/ SetWorks(a)
      PROVE  UNCHANGED <<up, active, owed, failed, task>>
  BY <1>6 DEF PersonSwitches, SetWorks
<1> QED  BY <1>1, <1>2, <1>3, <1>4, <1>5, <1>6, DueProceeds DEF Next, Request, Newer, vars

-----------------------------------------------------------------------------
(* Theorems *)

Works == Line /\ Shape /\ Ahead /\ StopLast /\ AskedOff /\ Level /\ Minds

LEMMA Inductive ==
    ASSUME TypeOK, Works, ResetAlone, NewestWins, [Next]_vars
    PROVE  (TypeOK /\ Works /\ ResetAlone /\ NewestWins)'
<1> USE DEF Works, InLine
<1>1. TypeOK' /\ Shape' /\ InLine'
  BY TypesKept, ShapeKept, InLineKept
<1>2. StopLast' /\ Level' /\ Minds'
  BY StopLastKept, LevelKept, MindsKept
<1>3. NewestWins' /\ ResetAlone'
  BY NewestKept, ResetKept
<1> QED  BY <1>1, <1>2, <1>3

LEMMA Begins == Init => TypeOK /\ Works /\ ResetAlone /\ NewestWins /\ OwedKept
<1> SUFFICES ASSUME Init PROVE TypeOK /\ Works /\ ResetAlone /\ NewestWins /\ OwedKept
  OBVIOUS
<1>1. TypeOK
  <2>1. task \in [Tasks -> Jobs] /\ \A t \in Tasks : task[t].at = "done"
    BY IdleTyped DEF Init
  <2>2. queue \in Seq(Tasks)
    BY DEF Init
  <2> QED  BY <2>1, <2>2 DEF Init, TypeOK
<1>2. Shape
  BY ShapeIdle, ShapeSplit DEF Init
<1>3. Line /\ Ahead /\ StopLast /\ AskedOff
  <2>1. Len(queue) = 0
    BY DEF Init
  <2> QED  BY <2>1, IdleTyped DEF Init, Line, Ahead, StopLast, AskedOff
<1>4. Level /\ Minds
  BY IdleTyped DEF Init, Level, Minds, InPass
<1>5. ResetAlone /\ NewestWins /\ OwedKept
  BY IdleTyped DEF Init, ResetAlone, NewestWins, OwedKept
<1> QED  BY <1>1, <1>2, <1>3, <1>4, <1>5 DEF Works

(* The inductive invariant holds in every state. *)
THEOREM InvariantHolds == Spec => []IInv
<1>1. Init => TypeOK /\ Works /\ ResetAlone /\ NewestWins
  BY Begins
<1>2. TypeOK /\ Works /\ ResetAlone /\ NewestWins /\ [Next]_vars
        => (TypeOK /\ Works /\ ResetAlone /\ NewestWins)'
  BY Inductive
<1>3. TypeOK /\ Works /\ ResetAlone /\ NewestWins => IInv
  BY DEF IInv, Works
<1> QED  BY <1>1, <1>2, <1>3, PTL DEF Spec

(* Types; the controller's work is the lock holder's alone. *)
THEOREM TypeCorrect == Spec => []TypeOK
<1>1. IInv => TypeOK
  BY DEF IInv
<1> QED  BY <1>1, InvariantHolds, PTL

(* Once a deactivate has been through, the level stays off, over crashes    *)
(* and restarts, until an activation asked for after it.                    *)
THEOREM NewestRequestWins == Spec => []NewestWins
<1>1. IInv => NewestWins
  BY DEF IInv
<1> QED  BY <1>1, InvariantHolds, PTL

(* When nothing is asked while a factory reset runs, every automation the   *)
(* hub switched off and nobody switched on since is owed a restore.         *)
THEOREM SwitchedOffIsOwed == QuietResets /\ Spec => []OwedKept
<1> SUFFICES ASSUME QuietResets PROVE Spec => []OwedKept
  OBVIOUS
<1>1. Init => OwedKept
  BY Begins
<1>2. IInv /\ OwedKept /\ [Next]_vars => OwedKept'
  BY OwedStep DEF IInv
<1> QED  BY <1>1, <1>2, InvariantHolds, PTL DEF Spec

(* A deactivate and a stop never wait for a device to answer: while the     *)
(* lock's holder waits for one, none of them is in line.                    *)
THEOREM DeactivateNeverWaits == Spec => []NoWaitForDevices
<1>1. IInv => NoWaitForDevices
  <2> SUFFICES ASSUME IInv, NEW t \in Tasks, task[t].at \in {"devices", "sent"},
                      NEW u \in Superseding
               PROVE  FALSE
    BY DEF NoWaitForDevices
  <2> USE DEF IInv
  <2>1. Holds(t) /\ task[t].cur /\ u \in Tasks
    BY DEF TypeOK, Shape, Superseding
  <2>2. 1 \in 1..Len(queue) /\ queue[1] = t /\ Len(queue) \in Nat
    BY <2>1, HeadFirst DEF TypeOK
  <2>3. PICK j \in 1..Len(queue) : queue[j] = u
    BY <2>1, InTheLine DEF Superseding
  <2>4. 1 < j
    BY <2>2, <2>3 DEF Superseding
  <2> QED  BY <2>1, <2>2, <2>3, <2>4 DEF Ahead, Superseding, Offs
<1> QED  BY <1>1, InvariantHolds, PTL

(* From the moment a deactivate is asked for, no request older than it      *)
(* switches one more automation off or commands one more device.            *)
LEMMA QuietStep ==
    ASSUME IInv, [Next]_vars, wantOff, NEW t \in Tasks
    PROVE  ~Calls(t)
<1> USE DEF IInv
<1> SUFFICES ASSUME Calls(t) PROVE FALSE
  OBVIOUS
<1>0. task \in [Tasks -> Jobs]
  BY DEF TypeOK
<1>1. (\E a \in Automations : Consider(t, a)) \/ (\E d \in Devices : Command(t, d))
  <2>1. ASSUME NEW u \in Tasks, Proceed(u) \/ Answer(u)
        PROVE  (\E a \in Automations : Consider(t, a)) \/ (\E d \in Devices : Command(t, d))
    <3>1. task'[t] # task[t]
      BY DEF Calls
    <3>2. u = t
      BY <1>0, <2>1, <3>1
         DEF Proceed, Answer, Enter, TurnedAway, StopEnds, RecordOn, RecordOff,
             ReadRemembered, Consider, TurnOff, TurnOffFails, Remember, PassEnds,
             Command, DevicesEnd, ReadOwed, TurnOn, TurnOnFails, SaveOwed,
             RestoreEnds, ResetChecks, ResetWipe, Leave, To, Goes
    <3>3. CASE \E place \in Places \ {"off", "sent"} : To(t, place)
      BY <1>0, <3>3 DEF To, Goes, Calls, Jobs
    <3>4. Leave(t) \/ Goes(t, Idle) => task'[t].at = "done"
      BY <1>0, IdleTyped DEF Leave, Goes
    <3>5. CASE ReadRemembered(t) \/ TurnOff(t) \/ PassEnds(t) \/ ReadOwed(t)
      BY <1>0, <3>4, <3>5
         DEF ReadRemembered, TurnOff, PassEnds, ReadOwed, Goes, Calls, Jobs
    <3>6. ASSUME NEW a \in Automations, TurnOn(t, a) \/ TurnOnFails(t, a)
          PROVE  FALSE
      <4>1. CASE TurnOn(t, a)
        BY <1>0, <4>1 DEF TurnOn, Goes, Calls, Jobs
      <4>2. CASE TurnOnFails(t, a)
        BY <1>0, <4>2 DEF TurnOnFails, At, Goes, Calls, Jobs
      <4> QED  BY <3>6, <4>1, <4>2
    <3>7. Leave(t) \/ Goes(t, Idle) => FALSE
      BY <3>4 DEF Calls
    <3> QED  BY <2>1, <3>2, <3>3, <3>5, <3>6, <3>7
             DEF Proceed, Answer, Enter, TurnedAway, StopEnds, RecordOn, RecordOff,
                 TurnOffFails, Remember, DevicesEnd, SaveOwed,
                 RestoreEnds, ResetChecks, ResetWipe, Places
  <2>2. ASSUME NEW u \in Tasks, NEW op \in {"activate", "reapply"}, Ask(u, op)
        PROVE  FALSE
    BY <1>0, <2>2, AskedTyped DEF Ask, Goes, Calls, Ops, Transitions
  <2>3. ASSUME NEW u \in Tasks, NEW op \in Newer, Supersede(u, op)
        PROVE  FALSE
    BY <1>0, <2>3, AskedTyped, OutdatedTyped
       DEF Supersede, Calls, Ops, Transitions, Newer
  <2>4. ASSUME NEW u \in Tasks, Start(u)
        PROVE  FALSE
    BY <2>4, AskedTyped, IdleTyped DEF Start, Calls, Ops, Transitions
  <2>5. CASE Crash
    BY <2>5, IdleTyped DEF Crash, Calls
  <2>6. CASE UNCHANGED task
    BY <2>6 DEF Calls
  <2> QED  BY <2>1, <2>2, <2>3, <2>4, <2>5, <2>6
           DEF Next, Request, Newer, PersonSwitches, SetWorks, vars
<1>2. Holds(t) /\ task[t].at \in {"pass", "devices"}
  BY <1>1 DEF Consider, Command, At
<1>3. task[t].cur
  <2>1. CASE \E a \in Automations : Consider(t, a)
    BY <1>0, <2>1, IdleTyped DEF Consider, At, Leave, Goes, Calls, Jobs
  <2>2. CASE \E d \in Devices : Command(t, d)
    BY <2>2 DEF Command, At, Shape
  <2> QED  BY <1>1, <2>1, <2>2
<1>4. task[t].op \in Transitions /\ active
  BY <1>2 DEF Shape, Level, InPass
<1>5. 1 \in 1..Len(queue) /\ queue[1] = t /\ Len(queue) \in Nat
  BY <1>2, HeadFirst DEF TypeOK
<1>6. PICK u \in Tasks : task[u].op \in Offs /\ task[u].at \in {"wait", "commit"}
  BY <1>4 DEF NewestWins, Deactivating, Offs
<1>7. PICK j \in 1..Len(queue) : queue[j] = u
  BY <1>6, InTheLine DEF Offs
<1>8. 1 < j
  BY <1>4, <1>5, <1>6, <1>7 DEF Transitions, Offs
<1> QED  BY <1>3, <1>5, <1>6, <1>7, <1>8 DEF Ahead

THEOREM QuietAfterDeactivate == Spec => QuietOnceAsked
<1>1. IInv /\ [Next]_vars => [wantOff => \A t \in Tasks : ~Calls(t)]_vars
  BY QuietStep
<1> QED  BY <1>1, InvariantHolds, PTL DEF Spec, QuietOnceAsked

(* An automation is owed, with no level active and nothing in flight, only      *)
(* because switching it back on failed, through crashes, restarts and resets.   *)
THEOREM OnlyFailuresAreOwed == Spec => []OwedOnlyFailures
<1> DEFINE Due == Overtaken /\ Restored /\ RestoreDue
<1>1. Init => Due
  <2> SUFFICES ASSUME Init PROVE Due
    OBVIOUS
  <2>1. Len(queue) = 0
    BY DEF Init
  <2> QED  BY <2>1, IdleTyped DEF Init, Overtaken, Restored, Honest, RestoreDue
<1>2. IInv /\ Due /\ [Next]_vars => Due'
  BY OvertakenKept, RestoredKept, DueKept DEF IInv, InLine
<1>3. IInv /\ Due => OwedOnlyFailures
  <2> SUFFICES ASSUME IInv, RestoreDue, up = "up", ~active, queue = <<>>, NEW t \in Tasks, Restores(task[t])
               PROVE  FALSE
    BY DEF OwedOnlyFailures, RestoreDue
  <2>1. task[t].op # "idle" /\ task[t].at \notin AfterLock
    BY DEF Restores, Offs, InRestore, AfterLock, IInv, Shape
  <2>2. Len(queue) = 0
    OBVIOUS
  <2> QED  BY <2>1, <2>2 DEF IInv, Line
<1> QED  BY <1>1, <1>2, <1>3, InvariantHolds, PTL DEF Spec
=============================================================================
