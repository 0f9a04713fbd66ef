-------------------------------- MODULE Athan --------------------------------
(* The prayer calls (athan_scheduler.py): the configuration an app puts          *)
(* (audio_api.py, audio.py), the timers that are made for it, and the broker's   *)
(* client a play goes by (audio_adapter.py). A tick is a try's distance,         *)
(* _RETRY_SEC. A configuration is the place it is for, None when athan is off;   *)
(* the places are in time zones whole hours apart.                               *)
EXTENDS Naturals, FiniteSets

CONSTANTS
    None, Places, Prayers, Jobs,
    Hour, Day,      \* in ticks; the schedule is made again a tick into an hour
    Zone, Clock,    \* of a place: how far its midnight is ahead, and when it prays
    Grace,          \* _GRACE_SEC
    MaxTime         \* bound: ticks

VARIABLES
    now,
    config,         \* AudioEngine._athan, stored
    up, bus,        \* the hub runs; its client is connected to the broker
    schedule,       \* the place the timers were armed for
    timers,         \* [key, due, at]: when the prayer is, and when the timer fires
    hourly,         \* when the schedule is made again
    fired,          \* AthanScheduler._fired
    job,            \* requests and recomputes
    plays, hushed,  \* history of the schedule's day: how often a prayer was played;
                    \* which were settled with athan off or for no speaker
    since           \* history: since when the timers are those of the configuration
                    \* and the bus and the host were there; None if they are not

clock == <<now, hourly>>
made == <<schedule, timers, fired>>
history == <<plays, hushed>>
vars == <<clock, config, up, bus, made, job, history, since>>

Keys == (0 .. (MaxTime + Hour) \div Day + 1) \X Prayers
Today(p) == (now + Zone[p]) \div Day
(* Local midnight of date 0 is before time 0. *)
When(p, k) == (k[1] * Day + Clock[p][k[2]]) - Zone[p]
Ahead(p, k) == k[1] * Day + Clock[p][k[2]] >= Zone[p]
InGrace(due) == now <= due + Grace

At(j, step) == job[j].step = step
Goes(j, step, want) == job' = [job EXCEPT ![j] = [step |-> step, want |-> want]]
Ends(j) == Goes(j, "idle", None)
Waiting == \E j \in Jobs : job[j].step \in {"wait", "zone"}
Never == [k \in Keys |-> 0]

-----------------------------------------------------------------------------
(* Time. A host that is awake fires what is due before time goes on; one that  *)
(* slept, and has lost its link, fires it late.                                *)

Due == {t \in timers : t.at <= now}

(* A schedule that takes its time is none meanwhile. *)
Tick ==
    /\ now < MaxTime /\ now' = now + 1
    /\ up => Due = {} /\ now < hourly
    /\ since' = IF Waiting THEN None ELSE since
    /\ UNCHANGED <<hourly, config, up, bus, made, job, history>>

Sleep ==
    /\ up /\ ~bus /\ now' \in (now + 2) .. MaxTime
    /\ UNCHANGED <<hourly, config, up, bus, made, job, history, since>>

-----------------------------------------------------------------------------
(* PUT /audio/athan. *)

(* set_athan, in the executor. *)
Put(j, c) ==
    /\ up /\ At(j, "idle") /\ c # config
    /\ config' = c /\ Goes(j, "set", None)
    /\ since' = None
    /\ UNCHANGED <<clock, up, bus, made, history>>

(* On the loop the schedule is next. *)
Relay(j) ==
    /\ At(j, "set") /\ Goes(j, "wait", None)
    /\ UNCHANGED <<clock, config, up, bus, made, history, since>>

(* The client gives up; what it has put stays, and no timer knows of it. *)
Quit(j) ==
    /\ At(j, "set") /\ Ends(j)
    /\ UNCHANGED <<clock, config, up, bus, made, history, since>>

-----------------------------------------------------------------------------
(* The schedule. *)

(* _async_handle_recompute, at minute 1 of an hour. *)
NextHour == CHOOSE t \in (now + 1) .. (now + Hour) : t % Hour = 1

Recompute(j) ==
    /\ up /\ now >= hourly /\ hourly' = NextHour
    /\ At(j, "idle") /\ Goes(j, "wait", None)
    /\ UNCHANGED <<now, config, up, bus, made, history, since>>

(* async_reschedule: the configuration is read under the lock, and the time   *)
(* zone is awaited under it.                                                  *)
Resolve(j) ==
    /\ At(j, "wait") /\ \A k \in Jobs : ~At(k, "zone")
    /\ Goes(j, "zone", config)
    /\ UNCHANGED <<clock, config, up, bus, made, history, since>>

(* _arm: today's prayers that are not played and not past their grace. *)
Armed(p) ==
    LET day == Today(p)
        still == {k \in fired : k[1] = day}
        keys == {k \in {day} \X Prayers : Ahead(p, k) /\ InGrace(When(p, k))} \ still
    IN  /\ fired' = still
        /\ timers' = {[key |-> k, due |-> When(p, k), at |-> When(p, k)] : k \in keys}

Arm(j) ==
    LET p == job[j].want
        over(k) == p # None /\ k[1] # Today(p)
    IN  /\ At(j, "zone") /\ Ends(j)
        /\ schedule' = p
        /\ IF p = None THEN timers' = {} /\ UNCHANGED fired ELSE Armed(p)
        /\ plays' = [k \in Keys |-> IF over(k) THEN 0 ELSE plays[k]]
        /\ hushed' = {k \in hushed : ~over(k)}
        /\ since' = IF ~bus \/ p # config THEN None ELSE IF since = None THEN now ELSE since
        /\ UNCHANGED <<clock, config, up, bus>>

-----------------------------------------------------------------------------
(* A timer. *)

(* AudioAdapter.publish, which holds no play for later. *)
Refuses == ~bus

(* Fault: a play that the bus refuses is not tried again. *)
RefusedForGood(t) == timers' = timers \ {t}

(* A play that the bus refuses is tried again, while it is in its grace. *)
Refused(t) ==
    timers' = (timers \ {t})
              \cup (IF now + 1 <= t.due + Grace THEN {[t EXCEPT !.at = now + 1]} ELSE {})

(* _fire and _fire_athan: the prayer is settled once it is played, and when    *)
(* athan is off by now or no speaker that was selected is enrolled (gone).     *)
Settled(t) == timers' = timers \ {t} /\ fired' = fired \cup {t.key}

Fire(t, gone) ==
    /\ up /\ t \in Due
    /\ \/ /\ t.key \in fired \/ ~InGrace(t.due)
          /\ timers' = timers \ {t} /\ UNCHANGED <<fired, plays, hushed>>
       \/ /\ t.key \notin fired /\ InGrace(t.due)
          /\ IF config = None \/ gone
             THEN Settled(t) /\ hushed' = hushed \cup {t.key} /\ UNCHANGED plays
             ELSE IF Refuses
             THEN Refused(t) /\ UNCHANGED <<fired, plays, hushed>>
             ELSE Settled(t) /\ plays' = [plays EXCEPT ![t.key] = @ + 1] /\ UNCHANGED hushed
    /\ UNCHANGED <<clock, config, up, bus, schedule, job, since>>

-----------------------------------------------------------------------------
(* The hub and its client. *)

Connect ==
    /\ up /\ ~bus /\ bus' = TRUE
    /\ since' = IF schedule = config THEN now ELSE None
    /\ UNCHANGED <<clock, config, up, made, job, history>>

Disconnect ==
    /\ bus /\ bus' = FALSE /\ since' = None
    /\ UNCHANGED <<clock, config, up, made, job, history>>

(* Unload, or the end of the process: the timers go, and a reschedule that is  *)
(* still in flight arms nothing (_stopped).                                    *)
Stop ==
    /\ up /\ up' = FALSE /\ bus' = FALSE
    /\ schedule' = None /\ timers' = {} /\ fired' = {}
    /\ job' = [j \in Jobs |-> [step |-> "idle", want |-> None]]
    /\ plays' = Never /\ hushed' = {} /\ since' = None
    /\ UNCHANGED <<clock, config>>

Start(j) ==
    /\ ~up /\ up' = TRUE /\ hourly' = NextHour
    /\ Goes(j, "wait", None)
    /\ UNCHANGED <<now, config, bus, made, history, since>>

Init ==
    /\ now = 0 /\ hourly = 1
    /\ config \in Places \cup {None}
    /\ up = FALSE /\ bus = FALSE
    /\ schedule = None /\ timers = {} /\ fired = {}
    /\ job = [j \in Jobs |-> [step |-> "idle", want |-> None]]
    /\ plays = Never /\ hushed = {} /\ since = None

Next ==
    \/ Tick \/ Sleep \/ Connect \/ Disconnect \/ Stop
    \/ \E j \in Jobs :
         \/ \E c \in Places \cup {None} : Put(j, c)
         \/ Relay(j) \/ Quit(j) \/ Recompute(j) \/ Resolve(j) \/ Arm(j) \/ Start(j)
    \/ \E t \in timers, gone \in BOOLEAN : Fire(t, gone)

Spec == Init /\ [][Next]_vars

-----------------------------------------------------------------------------
TypeOK ==
    /\ now \in 0 .. MaxTime /\ hourly \in Nat
    /\ {config, schedule} \subseteq Places \cup {None}
    /\ {up, bus} \subseteq BOOLEAN
    /\ \A t \in timers : t.key \in Keys /\ t.due \in Nat /\ t.at \in Nat
    /\ fired \cup hushed \subseteq Keys
    /\ \A j \in Jobs : job[j].step \in {"idle", "set", "wait", "zone"}
    /\ since \in {None} \cup (0 .. MaxTime)

(* While its day lasts the hub plays a prayer once, however often it makes the *)
(* schedule again and whatever the client of the broker does (_fired), and not *)
(* when athan is off (_fire_athan).                                            *)
PlayedOnce == \A k \in Keys : plays[k] <= 1 /\ (plays[k] = 1 => k \in fired)

(* A prayer is not missed: when the schedule has been the configuration's, with *)
(* bus and host there, since a try before its grace was over, it was played or  *)
(* settled by then, unless its day ends within its grace (_make_fire).          *)
Heard ==
    up /\ config # None /\ since # None =>
        \A k \in Keys :
            LET end == When(config, k) + Grace
            IN  Ahead(config, k) /\ since < end /\ now = end + 1 /\ k[1] = Today(config)
                => plays[k] > 0 \/ k \in hushed
=============================================================================
