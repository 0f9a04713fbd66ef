----------------------------- MODULE RoomCommand -----------------------------
(* One tap on a room of the Now page (now_api.py): a room off switches what is *)
(* on and keeps it as the room's capture, a room on brings back the capture,   *)
(* else the lights that were on when the room last went dark, else its start   *)
(* profile (room_intel/one_tap.py, now_data.py).                               *)
(*                                                                             *)
(* A command holds its room's lock over many awaits; people and devices act    *)
(* meanwhile, and a client that gives up cancels it where it waits.  Rooms     *)
(* share nothing, so there is one here, and one member.                        *)
EXTENDS Naturals

CONSTANTS
    None,
    Requests,            \* slots for requests in flight
    Lights,              \* lights, fans and the wall relays typed as one
    Acs,
    Modes,               \* what an AC may run in, its target included
    Fresh,               \* stands for every key that is sent once
    Taps,                \* what the app asks: <<action, key>>
    StartProfile,        \* the lights an installer chose
    Extend,              \* _CAPTURE_EXTEND_SECONDS, OFF_SEQUENCE_SECONDS
    MaxAge,              \* CAPTURE_MAX_AGE_SECONDS
    QuitsWhileWriting    \* a client may give up while its outcome is written

VARIABLES
    state,     \* device -> what it is set to, "off", "gone" (unavailable), or
               \* "away": not the room's, or not served
    capture,   \* the room's restore set with its levels; None without one
    last,      \* the room's last-on set; None without one
    answers,   \* stored answers: <<action, key>>
    lock,      \* who holds the room's lock
    cmd,       \* requests in flight
    taken      \* history: AC -> when and at what the hub's room off took it

vars == <<state, capture, last, answers, lock, cmd, taken>>

Devices == Lights \cup Acs
Settings(d) == IF d \in Acs THEN Modes ELSE {"on"}
Levels == Modes \cup {"on"}
States == Levels \cup {"off", "gone", "away"}

(* Ages stop at the first that is too old. *)
Ages == 0..(MaxAge + 1)
Older(age) == IF age > MaxAge THEN age ELSE age + 1

Nothing == [d \in Devices |-> None]
Idle == [step |-> "idle", act |-> "turn_off", key |-> Fresh, seen |-> Nothing,
         wish |-> Nothing, missing |-> {}, failed |-> {}, source |-> None, gone |-> FALSE]

Running == {"look", "sources", "lights", "acs", "record", "save"}

At(r, step) == cmd[r].step = step
Goto(r, step) == cmd' = [cmd EXCEPT ![r].step = step]
Done(r) == cmd' = [cmd EXCEPT ![r] = Idle]
Unlock(r) == lock' = IF lock = r THEN None ELSE lock
Home == <<state, last>>
Store == <<capture, answers>>

-----------------------------------------------------------------------------
(* The last-on set.  When a light that is switched off leaves the room dark,   *)
(* the set is that light with those that went off shortly before; a room that  *)
(* goes dark any other way keeps its set.  (LastOnSets says which went off     *)
(* shortly before; here it may be any that are not on.)                        *)
Follow(new) ==
    LET off == {l \in Lights : state[l] = "on" /\ new[l] = "off"}
        lit == {l \in Lights : new[l] = "on"}
    IN  IF off = {} \/ lit # {} THEN UNCHANGED last
        ELSE \E others \in SUBSET (Lights \ off) :
                 last' = [ids |-> off \cup others, age |-> 0]

Change(new) == state' = new /\ Follow(new)

-----------------------------------------------------------------------------
(* What the room's capture is worth, and the plan of a room on. *)

Held(d) == capture # None /\ capture.level[d] # None

DarkSince == last # None /\ capture.age > last.age + Extend
Counts == capture # None /\ capture.age <= MaxAge /\ ~DarkSince

InRoom(seen, ids) == {d \in ids : seen[d] # "away"}
Available(seen, ids) == {d \in InRoom(seen, ids) : seen[d] # "gone"}

HeldIds == {d \in Devices : Held(d)}
LastIds == IF last = None THEN {} ELSE last.ids

(* The first source with a device that can come on. *)
Source(seen) ==
    IF Counts /\ Available(seen, HeldIds) # {} THEN "capture"
    ELSE IF Available(seen, LastIds) # {} THEN "last_on"
    ELSE IF Available(seen, StartProfile) # {} THEN "start_profile"
    ELSE None

Ids(source) == CASE source = "capture" -> HeldIds
                 [] source = "last_on" -> LastIds
                 [] source = "start_profile" -> StartProfile
                 [] OTHER -> {}

(* An AC that runs stays as somebody set it. *)
Wish(seen, source) == [d \in Devices |->
    IF d \notin Available(seen, Ids(source)) \/ seen[d] # "off" THEN None
    ELSE IF d \in Acs THEN capture.level[d] ELSE "on"]

(* A capture that is no use any more is consumed before anything is switched. *)
Useless(seen) ==
    /\ capture # None
    /\ Source(seen) # "capture"
    /\ ~Counts \/ InRoom(seen, HeldIds) = {}

-----------------------------------------------------------------------------
(* A request. *)

Ask(r) ==
    /\ cmd[r] = Idle
    /\ \E tap \in Taps :
         cmd' = [cmd EXCEPT ![r].step = "wait", ![r].act = tap[1], ![r].key = tap[2]]
    /\ UNCHANGED <<Home, Store, lock, taken>>

(* Fault: the two listeners each have a lock of their own. *)
TakeAnyLock(r) ==
    /\ At(r, "wait")
    /\ lock' = r
    /\ Goto(r, "check")
    /\ UNCHANGED <<Home, Store, taken>>

TakeLock(r) ==
    /\ At(r, "wait")
    /\ lock = None
    /\ lock' = r
    /\ Goto(r, "check")
    /\ UNCHANGED <<Home, Store, taken>>

Answered(r) == <<cmd[r].act, cmd[r].key>> \in answers

(* A retry gets the stored answer; a room that takes no part is refused. *)
Reply(r) ==
    /\ At(r, "check")
    /\ Done(r) /\ Unlock(r)
    /\ UNCHANGED <<Home, Store, taken>>

Proceed(r) ==
    /\ At(r, "check")
    /\ ~Answered(r)
    /\ Goto(r, "look")
    /\ UNCHANGED <<Home, Store, lock, taken>>

(* An off takes what is on, with the level of each. *)
LookOff(r) ==
    /\ At(r, "look") /\ cmd[r].act = "turn_off"
    /\ cmd' = [cmd EXCEPT ![r].step = "lights",
         ![r].wish = [d \in Devices |-> IF state[d] \in Settings(d) THEN state[d] ELSE None]]
    /\ UNCHANGED <<Home, Store, lock, taken>>

LookOn(r) ==
    /\ At(r, "look") /\ cmd[r].act = "turn_on"
    /\ cmd' = [cmd EXCEPT ![r].step = "sources", ![r].seen = state]
    /\ UNCHANGED <<Home, Store, lock, taken>>

Sources(r) ==
    /\ At(r, "sources")
    /\ LET seen == cmd[r].seen
           source == Source(seen)
       IN  /\ capture' = IF Useless(seen) THEN None ELSE capture
           /\ IF source = None
              THEN Done(r) /\ Unlock(r)
              ELSE /\ cmd' = [cmd EXCEPT ![r].step = "lights", ![r].source = source,
                        ![r].wish = Wish(seen, source),
                        ![r].missing = InRoom(seen, Ids(source)) \ Available(seen, Ids(source))]
                   /\ UNCHANGED lock
    /\ UNCHANGED <<Home, answers, taken>>

(* The devices of one kind are commanded: each obeys or not, and each call ends *)
(* well or not, whatever its devices did.                                       *)
Target(r, d) == IF cmd[r].act = "turn_off" THEN "off" ELSE cmd[r].wish[d]

Switch(r, kind, from, to) ==
    LET asked == {d \in kind : cmd[r].wish[d] # None}
    IN  /\ At(r, from)
        /\ \E obeyed \in SUBSET {d \in asked : state[d] \notin {"gone", "away"}},
              failed \in SUBSET asked :
             /\ Change([d \in Devices |-> IF d \in obeyed THEN Target(r, d) ELSE state[d]])
             /\ cmd' = [cmd EXCEPT ![r].step = to, ![r].failed = @ \cup failed]
        /\ UNCHANGED <<Store, lock, taken>>

SwitchLights(r) == Switch(r, Lights, "lights", "acs")
SwitchAcs(r) == Switch(r, Acs, "acs", "record")

(* The devices whose state confirms the command. *)
Changed(r) == {d \in Devices : /\ cmd[r].wish[d] # None
                               /\ d \notin cmd[r].failed
                               /\ state[d] = Target(r, d)}

(* Writing the outcome lets the lock go only if the client has gone. *)
Recorded(r) == IF cmd[r].gone THEN Done(r) ELSE Goto(r, "save")

(* Fault: an AC once captured stays in the capture, however old it was. *)
ExtendedForGood(r) ==
    LET level == [d \in Devices |-> IF d \in Changed(r) THEN cmd[r].wish[d] ELSE
                      IF capture # None /\ d \in Acs THEN capture.level[d] ELSE None]
    IN  [level |-> level, age |-> 0]

(* Soon after its first, an off adds to the capture; a later one starts anew. *)
Extended(r) ==
    LET more == capture # None /\ capture.age <= Extend
    IN  [level |-> [d \in Devices |->
                      IF d \in Changed(r) THEN cmd[r].wish[d]
                      ELSE IF more THEN capture.level[d] ELSE None],
         age |-> IF more THEN capture.age ELSE 0]

RecordOff(r) ==
    /\ At(r, "record") /\ cmd[r].act = "turn_off"
    /\ capture' = IF Changed(r) = {} THEN capture ELSE Extended(r)
    /\ taken' = [c \in Acs |-> IF c \in Changed(r)
                               THEN [level |-> cmd[r].wish[c], age |-> 0] ELSE taken[c]]
    /\ Recorded(r)
    /\ UNCHANGED <<Home, answers, lock>>

(* What did not come on stays captured, for the next on. *)
Kept(r) ==
    LET wished == {d \in Devices : cmd[r].wish[d] # None}
        notOn == (wished \ Changed(r)) \cup cmd[r].missing
    IN  IF cmd[r].source # "capture" THEN capture
        ELSE IF HeldIds \cap notOn = {} THEN None
        ELSE [capture EXCEPT !.level =
                 [d \in Devices |-> IF d \in notOn THEN @[d] ELSE None]]

RecordOn(r) ==
    /\ At(r, "record") /\ cmd[r].act = "turn_on"
    /\ capture' = Kept(r)
    /\ taken' = [c \in Acs |-> IF c \in Changed(r) THEN None ELSE taken[c]]
    /\ Recorded(r)
    /\ UNCHANGED <<Home, answers, lock>>

(* The newest answers are kept. *)
Save(r) ==
    /\ At(r, "save")
    /\ \E kept \in SUBSET answers :
         answers' = kept \cup ({<<cmd[r].act, cmd[r].key>>} \ {tap \in Taps : tap[2] = Fresh})
    /\ Done(r) /\ Unlock(r)
    /\ UNCHANGED <<Home, capture, taken>>

(* The request is cancelled where it waits, and the lock goes; a write that has *)
(* begun is still carried out.  The end of the hub cancels every request.       *)
Cancel(r) ==
    /\ ~At(r, "idle") /\ ~cmd[r].gone
    /\ \/ Done(r)
       \/ /\ QuitsWhileWriting /\ cmd[r].step \in {"record", "save"}
          /\ cmd' = [cmd EXCEPT ![r].gone = TRUE]
    /\ Unlock(r)
    /\ UNCHANGED <<Home, Store, taken>>

-----------------------------------------------------------------------------
(* People, devices, the registry and time. *)

DeviceChanges(d) ==
    /\ \E s \in (Settings(d) \cup {"off", "gone", "away"}) \ {state[d]} :
           Change([state EXCEPT ![d] = s])
    /\ UNCHANGED <<Store, lock, cmd, taken>>

Tick ==
    /\ capture' = IF capture = None THEN None ELSE [capture EXCEPT !.age = Older(@)]
    /\ last' = IF last = None THEN None ELSE [last EXCEPT !.age = Older(@)]
    /\ taken' = [c \in Acs |-> IF taken[c] = None THEN None
                               ELSE [taken[c] EXCEPT !.age = Older(@)]]
    /\ UNCHANGED <<state, answers, lock, cmd>>

Init ==
    /\ state = [d \in Devices |-> "off"]
    /\ capture = None /\ last = None
    /\ answers = {}
    /\ lock = None
    /\ cmd = [r \in Requests |-> Idle]
    /\ taken = [c \in Acs |-> None]

Next ==
    \/ \E r \in Requests :
         \/ Ask(r) \/ TakeLock(r) \/ Reply(r) \/ Proceed(r) \/ LookOff(r) \/ LookOn(r) \/ Sources(r)
         \/ SwitchLights(r) \/ SwitchAcs(r) \/ RecordOff(r) \/ RecordOn(r) \/ Save(r)
         \/ Cancel(r)
    \/ \E d \in Devices : DeviceChanges(d)
    \/ Tick

Spec == Init /\ [][Next]_vars

-----------------------------------------------------------------------------
Capture == [level : [Devices -> Levels \cup {None}], age : Ages]
LastOn == [ids : SUBSET Lights, age : Ages]
Taken == [level : Modes, age : Ages]

TypeOK ==
    /\ state \in [Devices -> States]
    /\ capture \in Capture \cup {None}
    /\ last \in LastOn \cup {None}
    /\ answers \subseteq {tap \in Taps : tap[2] # Fresh}
    /\ lock \in Requests \cup {None}
    /\ taken \in [Acs -> Taken \cup {None}]

(* "A retry with the same key replays the answer" (now_api.py:983): no command *)
(* whose answer is stored is carried out again, by whichever listener and      *)
(* however many tries arrive together.                                         *)
AnsweredOnce == \A r \in Requests : cmd[r].step \in Running => ~Answered(r)

(* "An AC comes on only as the capture's, so never at a guess" (one_tap.py:27): *)
(* at what it ran in when the hub's room off last took it, a day ago at most,   *)
(* with no dark room since, and not twice.                                      *)
AcNotGuessed == \A r \in Requests, c \in Acs :
    At(r, "sources") /\ cmd'[r].wish[c] # None =>
        /\ taken[c] # None
        /\ taken[c].level = cmd'[r].wish[c]
        /\ taken[c].age <= MaxAge
        /\ last # None => taken[c].age <= last.age + Extend

(* What a room off switched off stays captured until it is on again, has left  *)
(* the room, is a day old, or another dark room or a later off has come since: *)
(* no failed, partial or cancelled room on loses it.                           *)
Superseded == capture.age > Extend /\ \E r \in Requests : Changed(r) # {} /\ cmd[r].act = "turn_off"
BackOrAway(d) ==
    \/ state[d] \notin {"off", "gone"}
    \/ \E r \in Requests : cmd[r].seen[d] \notin {None, "off", "gone"}
CaptureStays == \A d \in Devices : Held(d) /\ ~Held(d)' =>
    BackOrAway(d) \/ ~Counts \/ Superseded
=============================================================================
