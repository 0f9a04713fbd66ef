----------------------------- MODULE RoomIntel ------------------------------
(* The room activity log and the habits learned from it                       *)
(* (room_intel/recorder.py, learner.py, habits.py). Rows of one room; a row   *)
(* is who acted (None: nobody is named) and on which local date.              *)
EXTENDS Naturals, FiniteSets

CONSTANTS
    None, Members, Jobs,
    Year,            \* of each date: its Ramadan's number, 0 in the rest of the year
    Retention,       \* HUMAN_RETENTION_DAYS
    MaxRows, MaxSets \* bounds: rows, and last-on sets of the room

VARIABLES
    today,
    buffer, table,     \* ActivityRecorder._buffer, room_activity_events
    context, here,     \* members with a command under way; with a paired phone
    stopped,           \* the recorder no longer listens
    mem, dirty, onDisk,  \* the last-on set by number: in memory, unsaved, saved
    settings,          \* HabitSettings
    model, saved,      \* the model in memory, and in now_room_habits
    kept,              \* now_ramadan_habits: a finished Ramadan's rows
    job, rlock, hlock, \* the calls, and who has the recorder's and learner's lock
    rows,              \* history: rows so far
    forgotten, wiped   \* history: members whose data went; a reset was finished

log == <<buffer, table, context, stopped, rows>>
lastOn == <<mem, dirty, onDisk>>
habits == <<settings, model, saved, kept>>
locks == <<rlock, hlock>>
history == <<forgotten, wiped>>
vars == <<today, log, here, lastOn, habits, job, locks, history>>

Dates == DOMAIN Year
Idle == [kind |-> None, step |-> "idle", who |-> None, rows |-> {}, on |-> None]
At(j, kind, step) == job[j].kind = kind /\ job[j].step = step
Goes(j, step) == job' = [job EXCEPT ![j].step = step]
Ends(j) == job' = [job EXCEPT ![j] = Idle]
Without(set, m) == {r \in set : r.who # m}

-----------------------------------------------------------------------------
(* The state changes. *)

(* command_context: a paired member's request tags what it will change. *)
Command(m) ==
    /\ m \in here \ context /\ context' = context \cup {m}
    /\ UNCHANGED <<today, buffer, table, stopped, rows, here, lastOn, habits, job, locks, history>>

(* _on_state_changed, for a command or for a switch on the wall. *)
Change(m) ==
    /\ m = None \/ m \in context
    /\ context' = context \ {m}
    /\ ~stopped /\ rows < MaxRows /\ rows' = rows + 1
    /\ buffer' = buffer \cup {[id |-> rows, who |-> m, day |-> today]}
    /\ UNCHANGED <<today, table, stopped, here, lastOn, habits, job, locks, history>>

(* _follow_lit: the room went dark, which makes its new last-on set. *)
WentDark ==
    /\ ~stopped /\ mem < MaxSets
    /\ mem' = mem + 1 /\ dirty' = TRUE
    /\ UNCHANGED <<today, log, here, onDisk, habits, job, locks, history>>

-----------------------------------------------------------------------------
(* The recorder's calls. *)

(* The timer's flush, the ranking's read (async_recent_events). *)
Call(j, kind) ==
    /\ job[j] = Idle
    /\ job' = [job EXCEPT ![j] = [Idle EXCEPT !.kind = kind, !.step = "lock"]]
    /\ UNCHANGED <<today, log, here, lastOn, habits, locks, history>>

(* Fault: a read does not take the flush lock. *)
LockForWrites(j) == rlock = None \/ job[j].kind = "read"
LockFree(j) == rlock = None

Lock(j) ==
    /\ job[j].step = "lock" /\ LockFree(j)
    /\ rlock' = j /\ Goes(j, "locked")
    /\ UNCHANGED <<today, log, here, lastOn, habits, hlock, history>>

(* async_flush: take what is buffered, then write it. *)
Drain(j) ==
    /\ job[j].step = "locked" /\ job[j].kind \in {"flush", "model", "maintain", "stop"}
    /\ job' = [job EXCEPT ![j].step = "write", ![j].rows = buffer,
                          ![j].on = IF dirty THEN mem ELSE None]
    /\ buffer' = {} /\ dirty' = FALSE
    /\ UNCHANGED <<today, table, context, stopped, rows, here, mem, onDisk, habits, locks, history>>

(* Rows that cannot be written are lost; a last-on set is saved again later. *)
Write(j) ==
    /\ job[j].step = "write"
    /\ table' \in {table, table \cup job[j].rows}
    /\ \/ job[j].on = None /\ UNCHANGED <<onDisk, dirty>>
       \/ job[j].on # None /\ onDisk' = job[j].on /\ UNCHANGED dirty
       \/ job[j].on # None /\ dirty' = TRUE /\ UNCHANGED onDisk
    /\ rlock' = None
    /\ job' = [job EXCEPT ![j] = IF @.kind \in {"flush", "stop"} THEN Idle
                                 ELSE [@ EXCEPT !.step = "keep", !.rows = {}, !.on = None]]
    /\ UNCHANGED <<today, buffer, context, stopped, rows, here, mem, habits, hlock, history>>

(* async_recent_events: the table, then what is buffered. *)
ReadTable(j) ==
    /\ At(j, "read", "locked")
    /\ job' = [job EXCEPT ![j].step = "pending", ![j].rows = table]
    /\ UNCHANGED <<today, log, here, lastOn, habits, locks, history>>

ReadPending(j) ==
    /\ At(j, "read", "pending") /\ Ends(j)
    /\ rlock' = IF rlock = j THEN None ELSE rlock
    /\ UNCHANGED <<today, log, here, lastOn, habits, hlock, history>>

(* async_prune takes no lock. *)
Prune ==
    /\ table' = {r \in table : today <= r.day + Retention} /\ table' # table
    /\ UNCHANGED <<today, buffer, context, stopped, rows, here, lastOn, habits, job, locks, history>>

-----------------------------------------------------------------------------
(* A member's last phone leaves: _async_forget_room_activity. *)

Leave(j, m) ==
    /\ m \in here /\ job[j] = Idle /\ here' = here \ {m}
    /\ job' = [job EXCEPT ![j] = [Idle EXCEPT !.kind = "forget", !.step = "lock", !.who = m]]
    /\ UNCHANGED <<today, log, lastOn, habits, locks, history>>

(* ActivityRecorder.async_forget_member *)
ForgetBuffered(j) ==
    /\ At(j, "forget", "locked")
    /\ buffer' = Without(buffer, job[j].who) /\ context' = context \ {job[j].who}
    /\ Goes(j, "delete")
    /\ UNCHANGED <<today, table, stopped, rows, here, lastOn, habits, locks, history>>

ForgetWritten(j) ==
    /\ At(j, "forget", "delete")
    /\ table' = Without(table, job[j].who) /\ rlock' = None /\ Goes(j, "hlock")
    /\ UNCHANGED <<today, buffer, context, stopped, rows, here, lastOn, habits, hlock, history>>

(* HabitLearner.async_forget_member: the saved model goes whole. *)
ForgetHabits(j) ==
    /\ At(j, "forget", "learner")
    /\ model' = None /\ saved' = None
    /\ kept' = [y \in DOMAIN kept |-> IF kept[y] = None THEN None
                                      ELSE Without(kept[y], job[j].who)]
    /\ forgotten' = forgotten \cup {job[j].who}
    /\ hlock' = None /\ Ends(j)
    /\ UNCHANGED <<today, log, here, lastOn, settings, rlock, wiped>>

-----------------------------------------------------------------------------
(* A factory reset: the tables, then the recorder, then the learner. *)

NoCopies == [y \in DOMAIN kept |-> None]
Learning == [status |-> "learning", blocked |-> {}, reset |-> 0]

(* _wipe_tables *)
Wipe(j) ==
    /\ job[j] = Idle /\ ~stopped /\ \A k \in Jobs : job[k].kind # "clear"
    /\ table' = {} /\ onDisk' = 0 /\ saved' = None /\ kept' = NoCopies
    /\ here' = {} /\ Goes(j, "stop") 
    /\ UNCHANGED <<today, buffer, context, stopped, rows, mem, dirty, settings, model, locks, history>>

(* async_clear stops listening before it waits for the lock. *)
(* Fault: it goes on listening. *)
StillListens == FALSE
StopsListening == TRUE

StopListening(j) ==
    /\ At(j, None, "stop") /\ stopped' = StopsListening
    /\ job' = [job EXCEPT ![j].kind = "clear", ![j].step = "lock"]
    /\ UNCHANGED <<today, buffer, table, context, rows, here, lastOn, habits, locks, history>>

ClearLog(j) ==
    /\ At(j, "clear", "locked")
    /\ buffer' = {} /\ table' = {} /\ context' = {}
    /\ mem' = 0 /\ dirty' = FALSE /\ onDisk' = 0
    /\ rlock' = None /\ Goes(j, "hlock")
    /\ UNCHANGED <<today, stopped, rows, here, habits, hlock, history>>

ClearHabits(j) ==
    /\ At(j, "clear", "learner")
    /\ model' = None /\ saved' = None /\ kept' = NoCopies /\ settings' = Learning
    /\ wiped' = TRUE /\ hlock' = None /\ Ends(j)
    /\ UNCHANGED <<today, log, here, lastOn, rlock, forgotten>>

-----------------------------------------------------------------------------
(* The learner. *)

HLock(j) ==
    /\ job[j].step = "hlock" /\ hlock = None /\ hlock' = j
    /\ Goes(j, IF job[j].kind \in {"model", "maintain"} THEN "lock" ELSE "learner")
    /\ UNCHANGED <<today, log, here, lastOn, habits, rlock, history>>

Key == [day |-> today, reset |-> settings.reset, blocked |-> settings.blocked]
RowsOf(m, key) == IF m = None THEN None ELSE IF m.key = key THEN m.rows ELSE None

(* A page asks (the model in memory serves until its key changes), or the *)
(* daily async_maintain.                                                  *)
AskModel(j, kind) ==
    /\ job[j] = Idle
    /\ kind = "model" => settings.status # "off" /\ RowsOf(model, Key) = None
    /\ job' = [job EXCEPT ![j] = [Idle EXCEPT !.kind = kind, !.step = "hlock"]]
    /\ UNCHANGED <<today, log, here, lastOn, habits, locks, history>>

(* _keep_finished_ramadans: a copy of every finished one that has none. *)
(* Fault: of every date. *)
AnyDate(d) == TRUE
Unblocked(d) == d \notin settings.blocked /\ settings.reset < d

Finished(y) == \A d \in Dates : Year[d] = y => d < today
Copy(y) == {r \in table : Year[r.day] = y /\ Unblocked(r.day)}

Keep(j) ==
    /\ job[j].step = "keep"
    /\ kept' = [y \in DOMAIN kept |-> IF kept[y] = None /\ Finished(y) THEN Copy(y) ELSE kept[y]]
    /\ \/ /\ job[j].kind = "maintain" /\ Ends(j) /\ hlock' = None
       \/ /\ job[j].kind = "model" /\ Goes(j, "build") /\ UNCHANGED hlock
    /\ UNCHANGED <<today, log, here, lastOn, settings, model, saved, rlock, history>>

(* _load_or_build: the saved model of this key, or the dates of today's     *)
(* profile, from the log, and from its copy for a Ramadan that is finished. *)
Usable(r) == r.day < today /\ ((Year[r.day] = 0) = (Year[today] = 0))
             /\ r.day \notin settings.blocked /\ settings.reset < r.day
Learned ==
    {r \in table : Usable(r) /\ Year[r.day] \in {0, Year[today]}}
    \cup {r \in UNION {kept[y] : y \in {z \in DOMAIN kept : kept[z] # None /\ z # Year[today]}}
            : Usable(r)}

Build(j) ==
    /\ At(j, "model", "build")
    /\ job' = [job EXCEPT ![j].step = "save", ![j].on = Key,
                          ![j].rows = IF RowsOf(saved, Key) = None THEN Learned ELSE saved.rows]
    /\ UNCHANGED <<today, log, here, lastOn, habits, locks, history>>

Save(j) ==
    /\ At(j, "model", "save")
    /\ saved' = [key |-> job[j].on, rows |-> job[j].rows] /\ model' = saved'
    /\ hlock' = None /\ Ends(j)
    /\ UNCHANGED <<today, log, here, lastOn, settings, kept, rlock, history>>

(* async_update: the dates an off or paused period touches are blocked. Off  *)
(* keeps no model. As bounds, its one write and async_reset's are one step.  *)
Open(status) == status # "learning"

SetLearning(status) ==
    /\ hlock = None /\ status # settings.status
    /\ LET touched == IF Open(status) \/ Open(settings.status) THEN {today} ELSE {}
           after == [settings EXCEPT !.status = status, !.blocked = @ \cup touched]
       IN  /\ settings' = after
           /\ model' = IF status = "off" \/ after.blocked # settings.blocked THEN None ELSE model
           /\ saved' = IF status = "off" THEN None ELSE saved
    /\ UNCHANGED <<today, log, here, lastOn, kept, job, locks, history>>

ResetHabits ==
    /\ hlock = None /\ settings.reset < today
    /\ settings' = [settings EXCEPT !.reset = today,
                                    !.blocked = IF Open(settings.status) THEN {today} ELSE {}]
    /\ model' = None /\ saved' = None /\ kept' = NoCopies
    /\ UNCHANGED <<today, log, here, lastOn, job, locks, history>>

Midnight ==
    /\ today + 1 \in Dates /\ today' = today + 1
    /\ settings' = IF Open(settings.status)
                   THEN [settings EXCEPT !.blocked = @ \cup {today + 1}] ELSE settings
    /\ UNCHANGED <<log, here, lastOn, model, saved, kept, job, locks, history>>

-----------------------------------------------------------------------------
(* A stop flushes; a power cut does not. Either way the new hub starts with *)
(* what was saved; after a reset there is nobody in it.                     *)
Stop(j) ==
    /\ job[j] = Idle /\ ~stopped /\ stopped' = TRUE
    /\ job' = [job EXCEPT ![j] = [Idle EXCEPT !.kind = "stop", !.step = "lock"]]
    /\ UNCHANGED <<today, buffer, table, context, rows, here, lastOn, habits, locks, history>>

Start ==
    /\ stopped \/ buffer # {} \/ model # None
    /\ buffer' = {} /\ context' = {} /\ stopped' = FALSE
    /\ mem' = onDisk /\ dirty' = FALSE /\ model' = None
    /\ job' = [j \in Jobs |-> Idle] /\ rlock' = None /\ hlock' = None /\ wiped' = FALSE
    /\ UNCHANGED <<today, table, rows, here, onDisk, settings, saved, kept, forgotten>>

Init ==
    /\ today = 1 /\ buffer = {} /\ table = {} /\ context = {} /\ here = Members
    /\ stopped = FALSE /\ mem = 0 /\ dirty = FALSE /\ onDisk = 0
    /\ settings = Learning /\ model = None /\ saved = None
    /\ kept = [y \in {Year[d] : d \in Dates} \ {0} |-> None]
    /\ job = [j \in Jobs |-> Idle] /\ rlock = None /\ hlock = None
    /\ rows = 0 /\ forgotten = {} /\ wiped = FALSE

Next ==
    \/ \E m \in Members : Command(m)
    \/ \E m \in Members \cup {None} : Change(m)
    \/ WentDark \/ Prune \/ ResetHabits \/ Midnight \/ Start
    \/ \E status \in {"learning", "paused", "off"} : SetLearning(status)
    \/ \E j \in Jobs :
         \/ \E kind \in {"flush", "read"} : Call(j, kind)
         \/ \E m \in Members : Leave(j, m)
         \/ \E kind \in {"model", "maintain"} : AskModel(j, kind)
         \/ Lock(j) \/ HLock(j) \/ Drain(j) \/ Write(j) \/ ReadTable(j) \/ ReadPending(j)
         \/ ForgetBuffered(j) \/ ForgetWritten(j) \/ ForgetHabits(j)
         \/ Wipe(j) \/ StopListening(j) \/ ClearLog(j) \/ ClearHabits(j)
         \/ Keep(j) \/ Build(j) \/ Save(j) \/ Stop(j)

Spec == Init /\ [][Next]_vars

-----------------------------------------------------------------------------
Rows == [id : 0 .. MaxRows, who : Members \cup {None}, day : Dates]

TypeOK ==
    /\ today \in Dates /\ buffer \cup table \subseteq Rows
    /\ {mem, onDisk} \subseteq 0 .. MaxSets /\ {dirty, stopped, wiped} \subseteq BOOLEAN
    /\ settings.blocked \subseteq Dates
    /\ {rlock, hlock} \subseteq {None} \cup Jobs

Docs == UNION {kept[y] : y \in {z \in DOMAIN kept : kept[z] # None}}
Models == UNION {IF m = None THEN {} ELSE m.rows : m \in {model, saved}}
InFlight == UNION {job[j].rows : j \in {k \in Jobs : job[k].kind # "read"}}
Writing == UNION {job[j].rows : j \in {k \in Jobs : job[k].step = "write"}}
Everything == buffer \cup table \cup Docs \cup Models \cup InFlight

(* Once the data of a member without a phone was deleted, no row of theirs is *)
(* left anywhere, nor comes back from a write or a build that was under way;  *)
(* once a factory reset was finished, nothing at all is, until the hub starts *)
(* anew.                                                                      *)
(* LogForgets is about the locks and the order of _async_forget_room_activity *)
(* and of the factory reset (auth_api.py, __init__.py).                       *)
LogForgets ==
    /\ \A r \in Everything : r.who \notin forgotten
    /\ wiped => Everything = {} /\ onDisk = 0

(* A page's read sees every row once, written or not; the saved last-on set   *)
(* is the room's unless it is due to be saved; and a date on which learning   *)
(* was off or paused, or before a reset, is in no model and no copy.          *)
(* LogHonest is about the flush lock, mark_unsaved and blocked_days           *)
(* (recorder.py, learner.py, habits.py).                                      *)
LogHonest ==
    /\ \A j \in Jobs : At(j, "read", "pending") =>
         /\ buffer \cup table \cup Writing \subseteq job[j].rows \cup buffer
         /\ buffer \cap job[j].rows = {}
    /\ dirty \/ mem = onDisk \/ (\E j \in Jobs : job[j].step = "write" /\ job[j].on = mem)
       \/ \E j \in Jobs : job[j].step \in {"stop", "lock", "locked"} /\ job[j].kind \in {None, "clear"}
    /\ \A r \in Docs \cup Models : r.day \notin settings.blocked /\ settings.reset < r.day
=============================================================================
