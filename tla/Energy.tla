------------------------------- MODULE Energy -------------------------------
(***************************************************************************)
(* Energy Saving (energy_runtime.py): the controller that runs start-up,   *)
(* activate, deactivate and re-apply one at a time, and the manager that   *)
(* switches automations off while a level is active and back on after it.  *)
(*                                                                         *)
(* A request is a coroutine: it waits in line for the controller's lock,   *)
(* and others run whenever it awaits the executor or Home Assistant.  A    *)
(* newer deactivate does not wait for the work in front of it: it marks    *)
(* every older request superseded and cancels the device pass.             *)
(*                                                                         *)
(* Which level is active makes no difference here, and a device pass is    *)
(* the calls it makes, any of which may never answer.                      *)
(***************************************************************************)
EXTENDS Naturals, Sequences, FiniteSets

CONSTANTS
    Automations,  \* the automations Home Assistant runs
    Devices,      \* the devices a pass commands
    Tasks,        \* requests in flight at a time
    Crashes,      \* TRUE: the process may stop at any point
    QuietResets,  \* TRUE: nothing is asked while a factory reset runs
    None          \* Python's None

ASSUME DisjointAssumption == Automations \cap Devices = {}
ASSUME NoneAssumption == None \notin Automations \cup Devices \cup Tasks

Transitions == {"activate", "reapply", "resume"}
Ops == Transitions \cup {"idle", "deactivate", "reset", "stop"}

(* Where a request is: in line for the lock; about to record its change; in *)
(* the pass that switches automations off (read, pass, off, save), in the   *)
(* device pass (devices, sent), in the restore (restore, back, keep); in    *)
(* the factory reset that follows a deactivate (check, wipe); or done.      *)
Places == {"wait", "commit", "read", "pass", "off", "save", "devices", "sent",
           "restore", "back", "keep", "check", "wipe", "done"}

VARIABLES
    up,       \* "up", "stopping" or "down"
    active,   \* a level is active, in memory
    saved,    \* the same, in storage
    on,       \* the automations that are on
    works,    \* the automations flagged to work during Energy Saving
    owed,     \* stored: switched off by the hub and owed a restore
    queue,    \* the controller's lock: its holder, then those in line
    task,     \* what each request is doing
    hubOff,   \* switched off by the hub, and nobody switched it on since
    failed,   \* automations whose last restore failed
    lost,     \* switched off by the hub, when it crashed before saving it
    wantOff   \* the newest request was a deactivate

vars == <<up, active, saved, on, works, owed, queue, task, hubOff, failed, lost,
          wantOff>>

home == <<on, hubOff, failed>>
level == <<active, saved>>

-----------------------------------------------------------------------------
(* A request: its kind, whether no deactivate came after it, where it is,   *)
(* the entity it is calling, the remembered set it holds, and what it has   *)
(* still to go through.                                                     *)
Idle == [op |-> "idle", cur |-> FALSE, at |-> "done", entity |-> None,
         mind |-> {}, todo |-> {}]

Asked(op) == [Idle EXCEPT !.op = op, !.cur = TRUE, !.at = "wait"]

Holds(t) == queue # <<>> /\ Head(queue) = t

At(t, place) == Holds(t) /\ task[t].at = place

(* Fault: a deactivate waits for the device pass in flight. *)
OutdatedUncancelled(job) == [job EXCEPT !.cur = FALSE]

(* The generation moves on: an older request is superseded, and its device  *)
(* pass is cancelled.                                                       *)
Outdated(job) ==
    [job EXCEPT !.cur = FALSE,
                !.at = IF @ \in {"devices", "sent"} THEN "done" ELSE @]

Goes(t, job) == task' = [task EXCEPT ![t] = job]

To(t, place) == Goes(t, [task[t] EXCEPT !.at = place, !.entity = None])

Leave(t) ==
    /\ queue' = Tail(queue)
    /\ Goes(t, Idle)

(* A step of the holder that touches neither the home nor the stored state. *)
Quietly == UNCHANGED <<up, active, saved, on, works, owed, hubOff, failed, lost,
                       wantOff>>

-----------------------------------------------------------------------------
(* Requests *)

Resetting == \E t \in Tasks : task[t].op = "reset"

Free(t) == up = "up" /\ task[t] = Idle /\ (QuietResets => ~Resetting)

Ask(t, op) ==
    /\ Free(t)
    /\ queue' = Append(queue, t)
    /\ Goes(t, Asked(op))
    /\ wantOff' = (wantOff /\ op # "activate")
    /\ UNCHANGED <<up, active, saved, on, works, owed, hubOff, failed, lost>>

(* async_deactivate, the factory reset's call of it, and async_stop. *)
Supersede(t, op) ==
    /\ Free(t)
    /\ queue' = Append(queue, t)
    /\ task' = [u \in Tasks |-> IF u = t THEN Asked(op) ELSE Outdated(task[u])]
    /\ up' = IF op = "stop" THEN "stopping" ELSE up
    /\ wantOff' = (wantOff \/ op # "stop")
    /\ UNCHANGED <<active, saved, on, works, owed, hubOff, failed, lost>>

(* The request gets the lock.  A resume has nothing to record. *)
Enter(t) ==
    /\ At(t, "wait") /\ task[t].op # "stop"
    /\ task[t].op \in Transitions => task[t].cur
    /\ To(t, IF task[t].op # "resume" THEN "commit"
             ELSE IF active THEN "read" ELSE "restore")
    /\ UNCHANGED queue /\ Quietly

(* A superseded request goes no further. *)
TurnedAway(t) ==
    /\ At(t, "wait") /\ task[t].op \in Transitions /\ ~task[t].cur
    /\ Leave(t)
    /\ Quietly

StopEnds(t) ==
    /\ At(t, "wait") /\ task[t].op = "stop"
    /\ Leave(t)
    /\ up' = "down"
    /\ UNCHANGED <<active, saved, on, works, owed, hubOff, failed, lost, wantOff>>

(* The engine records the change, or refuses: a level is already active, or *)
(* none is, or this one was never set up.                                   *)
RecordOn(t) ==
    /\ At(t, "commit") /\ task[t].op \in {"activate", "reapply"}
    /\ \/ /\ task[t].op = "reapply" => ~active
          /\ Leave(t)
          /\ UNCHANGED level
       \/ /\ active = (task[t].op = "reapply")
          /\ To(t, "read")
          /\ active' = TRUE /\ saved' = TRUE
          /\ UNCHANGED queue
    /\ UNCHANGED <<up, on, works, owed, hubOff, failed, lost, wantOff>>

(* Fault: the level goes in memory only. *)
RecordOffUnsaved(t) ==
    /\ At(t, "commit") /\ task[t].op \in {"deactivate", "reset"}
    /\ active' = FALSE
    /\ To(t, "restore")
    /\ UNCHANGED <<up, saved, on, works, owed, queue, hubOff, failed, lost, wantOff>>

RecordOff(t) ==
    /\ At(t, "commit") /\ task[t].op \in {"deactivate", "reset"}
    /\ active' = FALSE
    /\ saved' = FALSE
    /\ To(t, "restore")
    /\ UNCHANGED <<up, on, works, owed, queue, hubOff, failed, lost, wantOff>>

-----------------------------------------------------------------------------
(* The automation pass (async_enforce_active) *)

(* What is remembered so far, and the automations found on now. *)
ReadRemembered(t) ==
    /\ At(t, "read")
    /\ Goes(t, [task[t] EXCEPT !.at = "pass", !.mind = owed, !.todo = on \ owed])
    /\ UNCHANGED queue /\ Quietly

(* Fault: the pass runs to its end. *)
ConsiderRegardless(t, a) ==
    /\ At(t, "pass") /\ a \in task[t].todo
    /\ Goes(t, IF a \in works
               THEN [task[t] EXCEPT !.todo = @ \ {a}]
               ELSE [task[t] EXCEPT !.todo = @ \ {a}, !.at = "off", !.entity = a])
    /\ UNCHANGED queue /\ Quietly

(* The next automation: left alone if flagged; the pass ends here if a      *)
(* deactivate came meanwhile.                                               *)
Consider(t, a) ==
    /\ At(t, "pass") /\ a \in task[t].todo
    /\ \/ /\ a \in works
          /\ Goes(t, [task[t] EXCEPT !.todo = @ \ {a}])
          /\ UNCHANGED queue
       \/ /\ a \notin works /\ task[t].cur
          /\ Goes(t, [task[t] EXCEPT !.todo = @ \ {a}, !.at = "off", !.entity = a])
          /\ UNCHANGED queue
       \/ /\ a \notin works /\ ~task[t].cur
          /\ Leave(t)
    /\ Quietly

TurnOff(t) ==
    LET a == task[t].entity IN
    /\ At(t, "off")
    /\ on' = on \ {a}
    /\ hubOff' = hubOff \cup (on \cap {a})
    /\ Goes(t, [task[t] EXCEPT !.at = "save", !.mind = @ \cup {a}])
    /\ UNCHANGED <<up, active, saved, works, owed, queue, failed, lost, wantOff>>

TurnOffFails(t) ==
    /\ At(t, "off")
    /\ To(t, "pass")
    /\ UNCHANGED queue /\ Quietly

(* Fault: the automation in hand replaces the remembered set. *)
RememberOnlyThis(t) ==
    /\ At(t, "save")
    /\ owed' = {task[t].entity}
    /\ To(t, "pass")
    /\ UNCHANGED <<up, active, saved, on, works, queue, hubOff, failed, lost, wantOff>>

Remember(t) ==
    /\ At(t, "save")
    /\ owed' = task[t].mind
    /\ To(t, "pass")
    /\ UNCHANGED <<up, active, saved, on, works, queue, hubOff, failed, lost, wantOff>>

PassEnds(t) ==
    /\ At(t, "pass") /\ task[t].todo = {}
    /\ IF task[t].cur
       THEN /\ Goes(t, [task[t] EXCEPT !.at = "devices", !.todo = Devices])
            /\ UNCHANGED queue
       ELSE Leave(t)
    /\ Quietly

-----------------------------------------------------------------------------
(* The device pass (EnergyAdapter.async_apply, a task of its own) *)

Command(t, d) ==
    /\ At(t, "devices") /\ d \in task[t].todo
    /\ Goes(t, [task[t] EXCEPT !.at = "sent", !.entity = d, !.todo = @ \ {d}])
    /\ UNCHANGED queue /\ Quietly

(* The device answers or the call raises; a hung device does neither. *)
Answer(t) ==
    /\ At(t, "sent")
    /\ To(t, "devices")
    /\ UNCHANGED queue /\ Quietly

DevicesEnd(t) ==
    /\ \/ At(t, "devices") /\ task[t].todo = {}
       \/ At(t, "done")
    /\ Leave(t)
    /\ Quietly

-----------------------------------------------------------------------------
(* The restore (async_restore): what fails stays owed *)

ReadOwed(t) ==
    /\ At(t, "restore")
    /\ Goes(t, [task[t] EXCEPT !.at = "back", !.mind = owed, !.todo = owed])
    /\ UNCHANGED queue /\ Quietly

TurnOn(t, a) ==
    /\ At(t, "back") /\ a \in task[t].todo
    /\ on' = on \cup {a}
    /\ hubOff' = hubOff \ {a}
    /\ failed' = failed \ {a}
    /\ Goes(t, [task[t] EXCEPT !.at = "keep", !.mind = @ \ {a}, !.todo = @ \ {a}])
    /\ UNCHANGED <<up, active, saved, works, owed, queue, lost, wantOff>>

TurnOnFails(t, a) ==
    /\ At(t, "back") /\ a \in task[t].todo
    /\ failed' = failed \cup {a}
    /\ Goes(t, [task[t] EXCEPT !.todo = @ \ {a}])
    /\ UNCHANGED <<up, active, saved, on, works, owed, queue, hubOff, lost, wantOff>>

SaveOwed(t) ==
    /\ At(t, "keep")
    /\ owed' = task[t].mind
    /\ To(t, "back")
    /\ UNCHANGED <<up, active, saved, on, works, queue, hubOff, failed, lost, wantOff>>

(* A factory reset goes on without the lock. *)
RestoreEnds(t) ==
    /\ At(t, "back") /\ task[t].todo = {}
    /\ IF task[t].op = "reset"
       THEN To(t, "check") /\ queue' = Tail(queue)
       ELSE Leave(t)
    /\ Quietly

-----------------------------------------------------------------------------
(* The rest of the factory reset that is Energy Saving's: refused while an  *)
(* automation is still owed, else the tables are wiped.                     *)

ResetChecks(t) ==
    /\ task[t].at = "check" /\ up # "down"
    /\ IF owed = {} THEN To(t, "wipe") ELSE Goes(t, Idle)
    /\ UNCHANGED queue /\ Quietly

ResetWipe(t) ==
    /\ task[t].at = "wipe" /\ up # "down"
    /\ owed' = {}
    /\ works' = {}
    /\ saved' = FALSE
    /\ Goes(t, Idle)
    /\ UNCHANGED <<up, active, on, queue, hubOff, failed, lost, wantOff>>

-----------------------------------------------------------------------------
(* People, and the process *)

(* Someone switches an automation on or off in Home Assistant. *)
PersonSwitches(a) ==
    /\ on' = IF a \in on THEN on \ {a} ELSE on \cup {a}
    /\ hubOff' = hubOff \ {a}
    /\ UNCHANGED <<up, active, saved, works, owed, queue, task, failed, lost, wantOff>>

(* set_works_during_energy_saving, from the automation API. *)
SetWorks(a) ==
    /\ up = "up"
    /\ works' = IF a \in works THEN works \ {a} ELSE works \cup {a}
    /\ UNCHANGED <<up, active, saved, on, owed, queue, task, hubOff, failed, lost,
                   wantOff>>

Saving == {task[t].entity : t \in {u \in Tasks : task[u].at = "save"}}

(* Everything in memory is gone.  A deactivate counts once it is recorded. *)
Crash ==
    /\ Crashes /\ up # "down"
    /\ up' = "down"
    /\ queue' = <<>>
    /\ task' = [t \in Tasks |-> Idle]
    /\ lost' = lost \cup (hubOff \cap Saving)
    /\ wantOff' = (wantOff /\ ~active)
    /\ UNCHANGED <<active, saved, on, works, owed, hubOff, failed>>

(* Fault: a start with no level active has nothing to do. *)
StartWithoutRetry(t) ==
    /\ up = "down"
    /\ up' = "up"
    /\ active' = saved
    /\ queue' = IF saved THEN <<t>> ELSE <<>>
    /\ task' = [u \in Tasks |-> IF u = t /\ saved THEN Asked("resume") ELSE Idle]
    /\ UNCHANGED <<saved, on, works, owed, hubOff, failed, lost, wantOff>>

(* The level comes from storage, and the background resume is first in line. *)
Start(t) ==
    /\ up = "down"
    /\ up' = "up"
    /\ active' = saved
    /\ queue' = <<t>>
    /\ task' = [u \in Tasks |-> IF u = t THEN Asked("resume") ELSE Idle]
    /\ UNCHANGED <<saved, on, works, owed, hubOff, failed, lost, wantOff>>

-----------------------------------------------------------------------------
Init ==
    /\ up = "up"
    /\ active = FALSE /\ saved = FALSE
    /\ on \in SUBSET Automations
    /\ works = {} /\ owed = {}
    /\ queue = <<>>
    /\ task = [t \in Tasks |-> Idle]
    /\ hubOff = {} /\ failed = {} /\ lost = {}
    /\ wantOff = FALSE

(* What the holder of the lock does without waiting for a device. *)
Proceed(t) ==
    \/ Enter(t) \/ TurnedAway(t) \/ StopEnds(t)
    \/ RecordOn(t) \/ RecordOff(t)
    \/ ReadRemembered(t)
    \/ \E a \in Automations : Consider(t, a)
    \/ TurnOff(t) \/ TurnOffFails(t) \/ Remember(t)
    \/ PassEnds(t)
    \/ \E d \in Devices : Command(t, d)
    \/ DevicesEnd(t)
    \/ ReadOwed(t)
    \/ \E a \in Automations : TurnOn(t, a) \/ TurnOnFails(t, a)
    \/ SaveOwed(t)
    \/ RestoreEnds(t)
    \/ ResetChecks(t) \/ ResetWipe(t)

Request(t) ==
    \/ \E op \in {"activate", "reapply"} : Ask(t, op)
    \/ \E op \in {"deactivate", "reset", "stop"} : Supersede(t, op)

Next ==
    \/ \E t \in Tasks : Request(t) \/ Proceed(t) \/ Answer(t) \/ Start(t)
    \/ \E a \in Automations : PersonSwitches(a) \/ SetWorks(a)
    \/ Crash

Spec == Init /\ [][Next]_vars

-----------------------------------------------------------------------------
(* Properties *)

Jobs == [op : Ops, cur : BOOLEAN, at : Places,
         entity : Automations \cup Devices \cup {None},
         mind : SUBSET Automations, todo : SUBSET (Automations \cup Devices)]

(* Types; past the line, only the holder of the lock is at work. *)
TypeOK ==
    /\ up \in {"up", "stopping", "down"}
    /\ active \in BOOLEAN /\ saved \in BOOLEAN
    /\ on \subseteq Automations /\ works \subseteq Automations
    /\ owed \subseteq Automations
    /\ queue \in Seq(Tasks)
    /\ task \in [Tasks -> Jobs]
    /\ \A t \in Tasks :
         task[t].at \notin {"wait", "done", "check", "wipe"} => Holds(t)
    /\ hubOff \subseteq Automations /\ failed \subseteq Automations
    /\ lost \subseteq Automations
    /\ wantOff \in BOOLEAN

(* Every automation the hub switched off and nobody switched on since is    *)
(* owed a restore, through failed calls, crashes, restarts and resets,      *)
(* except one switched off just before a crash (energy_runtime.py:198-215).     *)
OwedKept == hubOff \subseteq owed \cup Saving \cup lost

(* With no level active and no request in flight, an automation is owed     *)
(* only because switching it back on failed (energy_runtime.py:222).    *)
OwedOnlyFailures ==
    up = "up" /\ ~active /\ queue = <<>> => owed \subseteq failed

(* "The newest request wins" (energy_runtime.py:375): once a deactivate has *)
(* been through, the level stays off, over crashes and restarts, until an   *)
(* activation asked for after it.                                           *)
Deactivating == \E t \in Tasks :
    task[t].op \in {"deactivate", "reset"} /\ task[t].at \in {"wait", "commit"}
NewestWins == wantOff /\ ~Deactivating => ~active /\ (up = "down" => ~saved)

(* From the moment a deactivate is asked for, no request older than it      *)
(* switches one more automation off or commands one more device             *)
(* (energy_runtime.py:411-413).                                             *)
Calls(t) == task'[t].at \in {"off", "sent"} /\ task[t].at # task'[t].at
QuietOnceAsked == [][wantOff => \A t \in Tasks : ~Calls(t)]_vars

(* A deactivate never waits for a device, which may never answer: the lock's *)
(* holder is waiting for one only while no deactivate and no stop is in line *)
(* (energy_runtime.py:375-376, 411-413).                                     *)
Superseding == {t \in Tasks : task[t].op \in {"deactivate", "reset", "stop"}
                              /\ task[t].at = "wait"}
NoWaitForDevices == \A t \in Tasks :
    task[t].at \in {"devices", "sent"} => Superseding = {}

-----------------------------------------------------------------------------
(* Why it works *)

Offs == {"deactivate", "reset"}
InPass == {"read", "pass", "off", "save", "devices", "sent"}
InRestore == {"restore", "back", "keep"}
AfterLock == {"check", "wipe"}

(* The line holds the requests in flight, each once, but for a factory reset *)
(* that has given the lock back.                                             *)
Line ==
    /\ \A i, j \in 1..Len(queue) : queue[i] = queue[j] => i = j
    /\ \A i \in 1..Len(queue) :
         task[queue[i]].op # "idle" /\ task[queue[i]].at \notin AfterLock
    /\ \A t \in Tasks : task[t].op # "idle" /\ task[t].at \notin AfterLock =>
         \E i \in 1..Len(queue) : queue[i] = t

(* Which requests can be where. *)
Shape == \A t \in Tasks :
    /\ task[t].op = "idle" => task[t] = Idle
    /\ task[t].at \in InPass => task[t].op \in Transitions
    /\ task[t].at \in {"devices", "sent"} => task[t].cur
    /\ task[t].at = "commit" => task[t].op \in {"activate", "reapply"} \cup Offs
    /\ task[t].at \in InRestore => task[t].op \in {"resume"} \cup Offs
    /\ task[t].at \in AfterLock => task[t].op = "reset"
    /\ task[t].at = "done" => task[t].op \in Transitions \cup {"idle"}
    /\ task[t].at \in {"off", "save"} => task[t].entity \in Automations
    /\ task[t].at \in {"pass", "off", "save"} => task[t].todo \subseteq Automations

(* A request ahead of a deactivate or a stop is superseded. *)
Ahead == \A i, j \in 1..Len(queue) :
    i < j /\ task[queue[j]].op \in Offs \cup {"stop"} => ~task[queue[i]].cur

(* Nothing comes after a stop.                                               *)
StopLast == \A i \in 1..Len(queue) :
    task[queue[i]].op = "stop" => i = Len(queue) /\ up = "stopping"

(* An activation older than the deactivate that was asked for last is ahead *)
(* of it.                                                                   *)
AskedOff == wantOff => \A i \in 1..Len(queue) :
    task[queue[i]].op = "activate" =>
        \E j \in 1..Len(queue) : i < j /\ task[queue[j]].op \in Offs

(* A level is active while its pass runs, and in memory while it is stored. *)
Level ==
    /\ \A t \in Tasks : task[t].at \in InPass => active
    /\ up # "down" /\ saved => active
    /\ up = "down" => queue = <<>>

(* The remembered set a pass or a restore will save next loses nothing. *)
Minds == \A t \in Tasks :
    /\ task[t].at \in {"pass", "off"} => owed \subseteq task[t].mind
    /\ task[t].at = "save" => owed \cup {task[t].entity} \subseteq task[t].mind
    /\ task[t].at \in {"back", "keep"} => owed \cap hubOff \subseteq task[t].mind

(* Nothing comes after a factory reset, and its wipe finds nothing owed. *)
ResetAlone == QuietResets => \A t \in Tasks : task[t].op = "reset" =>
    /\ task[t].at \notin AfterLock => queue # <<>> /\ queue[Len(queue)] = t
    /\ task[t].at \in AfterLock => queue = <<>>
    /\ task[t].at = "wipe" => owed = {}

(* The inductive invariant behind the properties of the controller. *)
IInv ==
    /\ TypeOK
    /\ Line /\ Shape /\ Ahead /\ StopLast /\ AskedOff /\ Level /\ Minds /\ ResetAlone
    /\ NewestWins
=============================================================================
