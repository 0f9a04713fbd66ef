----------------------------- MODULE RoomsProofs -----------------------------
(* Proofs about the commands of a room, the registry and the log of the rooms *)
(* that Rooms puts together, for any values of the constants.                 *)
EXTENDS Rooms, Integers, TLAPS

-----------------------------------------------------------------------------
(* A room's commands (RoomCommand). *)

Waits == {"idle", "wait"}
Looks == {"check", "look", "sources"}
Switches == {"lights", "acs", "record"}
Settings == RoomCommand!Levels \cup {None}
Commands == [step : Waits \cup Looks \cup Switches \cup {"save"}, act : {"turn_off", "turn_on"},
             key : {Fresh} \cup {tap[2] : tap \in Taps},
             seen : [RoomCommand!Devices -> RoomCommand!States \cup {None}],
             wish : [RoomCommand!Devices -> Settings],
             missing : SUBSET RoomCommand!Devices, failed : SUBSET RoomCommand!Devices,
             source : {None, "capture", "last_on", "start_profile"}, gone : {FALSE}]

CommandTypes == RoomCommand!TypeOK /\ cmd \in [Requests -> Commands]

(* The lock is the request's from the look at the stored answers to its end, and *)
(* what is carried out has no answer yet.                                        *)
Locked(r) ==
    /\ cmd[r].step \notin Waits => lock = r
    /\ cmd[r].step \notin {"idle"} => <<cmd[r].act, cmd[r].key>> \in Taps
    /\ cmd[r].step \in RoomCommand!Running => ~RoomCommand!Answered(r)

(* Until a plan is made nothing is wished. A room off takes what an AC runs in; *)
(* of a room on, what is missing is not wished, and an AC by the capture alone. *)
Planned(t) ==
    /\ t.step \in Waits \cup Looks => t.wish = RoomCommand!Nothing
    /\ t.step = "sources" => t.act = "turn_on" /\ t.seen \in [RoomCommand!Devices -> RoomCommand!States]
    /\ t.act = "turn_off" => \A c \in Acs : t.wish[c] \in Modes \cup {None}
    /\ t.act = "turn_on" =>
         /\ \A d \in t.missing : t.wish[d] = None
         /\ t.source # "capture" => \A c \in Acs : t.wish[c] = None

(* The hub took what AC the capture holds, at what it holds it, and later. *)
Took(c) ==
    RoomCommand!Held(c) => /\ taken[c] # None
                           /\ taken[c].level = capture.level[c]
                           /\ taken[c].age <= capture.age

(* What the capture holds while a plan made from it is carried out. *)
Carried(t) ==
    t.act = "turn_on" /\ t.source = "capture" /\ t.step \in Switches =>
      \A d \in RoomCommand!Devices : RoomCommand!Held(d) =>
        t.wish[d] # None \/ d \in t.missing \/ t.seen[d] \notin {None, "off", "gone"}

CommandInv ==
    /\ CommandTypes
    /\ \A r \in Requests : Locked(r) /\ Planned(cmd[r]) /\ Carried(cmd[r])
    /\ \A c \in Acs : Took(c)

LEMMA CommandConstants ==
    /\ MaxAge \in Nat /\ Extend \in Nat /\ RoomCommand!Ages \subseteq Nat /\ 0 \in RoomCommand!Ages
    /\ None \notin RoomCommand!Levels /\ None \notin RoomCommand!States /\ None \notin Requests
    /\ \A l \in RoomCommand!Levels : l \notin {"off", "gone", "away"} /\ l \in RoomCommand!States
    /\ None \notin RoomCommand!Capture /\ None \notin RoomCommand!LastOn /\ None \notin RoomCommand!Taken
    /\ Lights \subseteq RoomCommand!Devices /\ Acs \subseteq RoomCommand!Devices /\ Lights \cap Acs = {}
    /\ None \notin {"capture", "last_on", "start_profile"} /\ StartProfile \subseteq Lights
<1> USE CommandAssumption
<1>1. MaxAge \in Nat /\ Extend \in Nat /\ RoomCommand!Ages \subseteq Nat /\ 0 \in RoomCommand!Ages
  BY DEF RoomCommand!Ages
<1>2. None \notin RoomCommand!Levels /\ None \notin RoomCommand!States /\ None \notin Requests
  BY DEF RoomCommand!Levels, RoomCommand!States
<1>3. \A l \in RoomCommand!Levels : l \notin {"off", "gone", "away"} /\ l \in RoomCommand!States
  BY DEF RoomCommand!Levels, RoomCommand!States
<1>4. None \notin RoomCommand!Capture
  BY <1>1 DEF RoomCommand!Capture, RoomCommand!Levels, RoomCommand!Devices
<1>5. None \notin RoomCommand!LastOn /\ None \notin RoomCommand!Taken
  BY <1>1 DEF RoomCommand!LastOn, RoomCommand!Taken
<1> QED  BY <1>1, <1>2, <1>3, <1>4, <1>5 DEF RoomCommand!Devices

LEMMA CommandIdle ==
    /\ RoomCommand!Idle \in Commands /\ RoomCommand!Idle.step = "idle"
    /\ RoomCommand!Idle.wish = RoomCommand!Nothing
    /\ Planned(RoomCommand!Idle) /\ Carried(RoomCommand!Idle)
<1>1. RoomCommand!Nothing \in [RoomCommand!Devices -> {None}]
  BY DEF RoomCommand!Nothing
<1>2. \A c \in Acs : RoomCommand!Nothing[c] = None
  BY CommandConstants DEF RoomCommand!Nothing
<1>3. RoomCommand!Idle \in Commands
  BY <1>1 DEF RoomCommand!Idle, Commands, Waits, Settings
<1> QED  BY <1>2, <1>3 DEF RoomCommand!Idle, Planned, Carried, Waits, Looks

LEMMA CommandStarts == RoomCommand!Init => CommandInv
<1> SUFFICES ASSUME RoomCommand!Init PROVE CommandInv
  OBVIOUS
<1>1. RoomCommand!TypeOK
  BY CommandConstants DEF RoomCommand!Init, RoomCommand!TypeOK, RoomCommand!States
<1>2. \A r \in Requests : cmd[r] = RoomCommand!Idle
  BY DEF RoomCommand!Init
<1>3. cmd \in [Requests -> Commands]
  BY CommandIdle DEF RoomCommand!Init
<1>4. \A r \in Requests : Locked(r)
  BY <1>2, CommandIdle DEF Locked, Waits, RoomCommand!Running
<1>5. \A c \in Acs : Took(c)
  BY DEF Took, RoomCommand!Held, RoomCommand!Init
<1> QED  BY <1>1, <1>2, <1>3, <1>4, <1>5, CommandIdle DEF CommandInv, CommandTypes

(* A request goes on, and the others are as they were: who does not wait has the *)
(* lock.                                                                         *)
LEMMA CommandMoves ==
    ASSUME CommandInv, NEW r \in Requests, NEW t \in Commands, cmd' = [cmd EXCEPT ![r] = t],
           RoomCommand!TypeOK', lock' = lock \/ lock \in {None, r},
           lock = r \/ (answers' = answers /\ capture' = capture),
           t.step \notin Waits => lock' = r,
           t.step # "idle" => <<t.act, t.key>> \in Taps,
           t.step \in RoomCommand!Running => <<t.act, t.key>> \notin answers',
           Planned(t), Carried(t)', \A c \in Acs : Took(c)'
    PROVE  CommandInv'
<1>1. cmd \in [Requests -> Commands]
  BY DEF CommandInv, CommandTypes
<1>2. cmd'[r] = t /\ cmd' \in [Requests -> Commands]
  BY <1>1
<1>3. ASSUME NEW q \in Requests, q # r
      PROVE  Locked(q)' /\ Planned(cmd[q])' /\ Carried(cmd[q])'
  <2>1. cmd'[q] = cmd[q]
    BY <1>1, <1>3
  <2>2. Locked(q) /\ Planned(cmd[q]) /\ Carried(cmd[q])
    BY DEF CommandInv
  <2>3. CASE cmd[q].step \in Waits
    BY <2>1, <2>2, <2>3 DEF Locked, Planned, Carried, Waits, Switches, RoomCommand!Running
  <2>4. CASE cmd[q].step \notin Waits
    <3>1. lock = q /\ lock # r /\ lock # None
      BY <1>3, <2>2, <2>4, CommandConstants DEF Locked
    <3>2. lock' = lock /\ answers' = answers /\ capture' = capture
      BY <3>1
    <3> QED  BY <2>1, <2>2, <3>2 DEF Locked, Planned, Carried, RoomCommand!Held, RoomCommand!Answered
  <2> QED  BY <2>3, <2>4
<1>4. Locked(r)'
  BY <1>2 DEF Locked, RoomCommand!Answered
<1>5. Planned(cmd[r])' /\ Carried(cmd[r])'
  BY <1>2 DEF Planned, Carried
<1> QED  BY <1>2, <1>3, <1>4, <1>5 DEF CommandInv, CommandTypes

(* The steps that leave the home, what was taken and what is stored alone. *)
LEMMA CommandTypesStay ==
    ASSUME CommandInv, state' = state, last' = last, capture' = capture, answers' = answers,
           taken' = taken, lock' \in {lock, None} \cup Requests
    PROVE  RoomCommand!TypeOK' /\ \A c \in Acs : Took(c)'
<1>1. RoomCommand!TypeOK /\ \A c \in Acs : Took(c)
  BY DEF CommandInv, CommandTypes
<1> QED  BY <1>1 DEF RoomCommand!TypeOK, Took, RoomCommand!Held

LEMMA CommandAsks ==
    ASSUME CommandInv, NEW r \in Requests, RoomCommand!Ask(r) PROVE CommandInv'
<1>1. PICK tap \in Taps : cmd' = [cmd EXCEPT ![r].step = "wait", ![r].act = tap[1], ![r].key = tap[2]]
  BY DEF RoomCommand!Ask
<1> DEFINE t == [RoomCommand!Idle EXCEPT !.step = "wait", !.act = tap[1], !.key = tap[2]]
<1>2. cmd[r] = RoomCommand!Idle
  BY DEF RoomCommand!Ask
<1>3. cmd' = [cmd EXCEPT ![r] = t]
  BY <1>1, <1>2
<1>4. tap \in {"turn_off", "turn_on"} \X {u[2] : u \in Taps} /\ tap = <<tap[1], tap[2]>>
  BY CommandAssumption
<1>5. t \in Commands
  BY <1>4, CommandIdle DEF Commands, Waits
<1>6. t.step = "wait" /\ t.wish = RoomCommand!Nothing /\ t.act = tap[1] /\ t.key = tap[2]
      /\ t.missing = {}
  BY CommandIdle DEF RoomCommand!Idle
<1>7. Planned(t) /\ Carried(t)'
  <2>1. \A c \in Acs : RoomCommand!Nothing[c] = None
    BY CommandConstants DEF RoomCommand!Nothing
  <2> HIDE DEF t
  <2> QED  BY <1>6, <2>1 DEF Planned, Carried, Waits, Switches
<1>8. RoomCommand!TypeOK' /\ (\A c \in Acs : Took(c)') /\ lock' = lock /\ answers' = answers /\ capture' = capture
  BY CommandTypesStay DEF RoomCommand!Ask, RoomCommand!Home, RoomCommand!Store
<1> HIDE DEF t
<1>9. <<t.act, t.key>> \in Taps /\ t.step \in Waits /\ t.step \notin RoomCommand!Running
  BY <1>4, <1>6 DEF Waits, RoomCommand!Running
<1> QED  BY <1>3, <1>5, <1>7, <1>8, <1>9, CommandMoves

(* A request that only moves on, its plan as it was. *)
LEMMA CommandGoes ==
    ASSUME CommandInv, NEW r \in Requests,
           NEW step \in {"check", "look", "save"}, RoomCommand!Goto(r, step),
           cmd[r].step # "idle", lock' = r, lock \in {None, r},
           step = "save" => cmd[r].step = "record",
           step # "save" => cmd[r].step \in Waits \cup {"check"},
           step # "check" => <<cmd[r].act, cmd[r].key>> \notin answers,
           lock = r \/ (answers' = answers /\ capture' = capture), answers' = answers,
           RoomCommand!TypeOK', \A c \in Acs : Took(c)'
    PROVE  CommandInv'
<1> DEFINE t == [cmd[r] EXCEPT !.step = step]
<1>1. cmd[r] \in Commands /\ Planned(cmd[r]) /\ Locked(r)
  BY DEF CommandInv, CommandTypes
<1>2. t \in Commands /\ t.step = step /\ t.act = cmd[r].act /\ t.key = cmd[r].key
      /\ t.wish = cmd[r].wish /\ t.missing = cmd[r].missing /\ t.source = cmd[r].source
  BY <1>1 DEF Commands, Looks, Waits, Switches
<1>3. cmd' = [cmd EXCEPT ![r] = t]
  BY DEF RoomCommand!Goto
<1>4. PICK u \in Commands : u = t
  BY <1>2
<1> HIDE DEF t
<1>5. Planned(u)
  BY <1>1, <1>2, <1>4 DEF Planned, Waits, Looks
<1>6. Carried(u)'
  BY <1>2, <1>4 DEF Carried, Switches
<1>7. /\ <<u.act, u.key>> \in Taps
      /\ u.step \in RoomCommand!Running => <<u.act, u.key>> \notin answers'
  BY <1>1, <1>2, <1>4 DEF Locked, RoomCommand!Running
<1> QED  BY <1>3, <1>4, <1>5, <1>6, <1>7, CommandMoves

LEMMA CommandTakesLock ==
    ASSUME CommandInv, NEW r \in Requests, RoomCommand!TakeLock(r) PROVE CommandInv'
<1>1. /\ RoomCommand!Goto(r, "check") /\ cmd[r].step = "wait" /\ lock = None /\ lock' = r
      /\ answers' = answers /\ capture' = capture
  BY DEF RoomCommand!TakeLock, RoomCommand!At, RoomCommand!Store
<1>2. RoomCommand!TypeOK' /\ \A c \in Acs : Took(c)'
  BY CommandTypesStay DEF RoomCommand!TakeLock, RoomCommand!Home, RoomCommand!Store
<1> QED  BY <1>1, <1>2, CommandGoes DEF Waits

LEMMA CommandProceeds ==
    ASSUME CommandInv, NEW r \in Requests, RoomCommand!Proceed(r) PROVE CommandInv'
<1>1. /\ RoomCommand!Goto(r, "look") /\ cmd[r].step = "check" /\ lock' = lock
      /\ answers' = answers /\ capture' = capture /\ <<cmd[r].act, cmd[r].key>> \notin answers
  BY DEF RoomCommand!Proceed, RoomCommand!At, RoomCommand!Store, RoomCommand!Answered
<1>2. RoomCommand!TypeOK' /\ \A c \in Acs : Took(c)'
  BY CommandTypesStay DEF RoomCommand!Proceed, RoomCommand!Home, RoomCommand!Store
<1>3. lock = r
  BY <1>1 DEF CommandInv, Locked, Waits
<1> QED  BY <1>1, <1>2, <1>3, CommandGoes

(* A request ends, and lets the lock go. *)
LEMMA CommandEnds ==
    ASSUME CommandInv, NEW r \in Requests, RoomCommand!Done(r), RoomCommand!Unlock(r),
           lock = r \/ (answers' = answers /\ capture' = capture),
           RoomCommand!TypeOK', \A c \in Acs : Took(c)'
    PROVE  CommandInv'
<1>1. cmd' = [cmd EXCEPT ![r] = RoomCommand!Idle]
  BY DEF RoomCommand!Done
<1>2. lock' = lock \/ lock \in {None, r}
  BY DEF RoomCommand!Unlock
<1>3. PICK t \in Commands : t = RoomCommand!Idle
  BY CommandIdle
<1>4. t.step = "idle" /\ Planned(t) /\ Carried(t)'
  <2>1. t.step = "idle"
    BY <1>3, CommandIdle
  <2> QED  BY <1>3, <2>1, CommandIdle DEF Carried, Switches
<1> QED  BY <1>1, <1>2, <1>3, <1>4, CommandMoves DEF Waits, RoomCommand!Running

LEMMA CommandReplies ==
    ASSUME CommandInv, NEW r \in Requests, RoomCommand!Reply(r) PROVE CommandInv'
<1>1. /\ RoomCommand!Done(r) /\ RoomCommand!Unlock(r)
      /\ answers' = answers /\ capture' = capture
  BY DEF RoomCommand!Reply, RoomCommand!Store
<1>2. RoomCommand!TypeOK' /\ \A c \in Acs : Took(c)'
  BY CommandTypesStay DEF RoomCommand!Reply, RoomCommand!Home, RoomCommand!Store, RoomCommand!Unlock
<1> QED  BY <1>1, <1>2, CommandEnds

LEMMA CommandCancelled ==
    ASSUME CommandInv, NEW r \in Requests, RoomCommand!Cancel(r) PROVE CommandInv'
<1>1. /\ RoomCommand!Done(r) /\ RoomCommand!Unlock(r)
      /\ answers' = answers /\ capture' = capture
  BY DEF RoomCommand!Cancel, RoomCommand!Store
<1>2. RoomCommand!TypeOK' /\ \A c \in Acs : Took(c)'
  BY CommandTypesStay DEF RoomCommand!Cancel, RoomCommand!Home, RoomCommand!Store, RoomCommand!Unlock
<1> QED  BY <1>1, <1>2, CommandEnds

LEMMA CommandSaves ==
    ASSUME CommandInv, NEW r \in Requests, RoomCommand!Save(r) PROVE CommandInv'
<1>1. /\ RoomCommand!Done(r) /\ RoomCommand!Unlock(r) /\ cmd[r].step = "save"
      /\ state' = state /\ last' = last /\ capture' = capture /\ taken' = taken
  BY DEF RoomCommand!Save, RoomCommand!Home, RoomCommand!At
<1>2. Locked(r) /\ RoomCommand!TypeOK /\ \A c \in Acs : Took(c)
  BY DEF CommandInv, CommandTypes
<1>3. lock = r /\ <<cmd[r].act, cmd[r].key>> \in Taps
  BY <1>1, <1>2 DEF Locked, Waits
<1>4. answers' \subseteq {tap \in Taps : tap[2] # Fresh}
  BY <1>2, <1>3 DEF RoomCommand!Save, RoomCommand!TypeOK
<1>5. RoomCommand!TypeOK'
  BY <1>1, <1>2, <1>4 DEF RoomCommand!TypeOK, RoomCommand!Unlock
<1>6. \A c \in Acs : Took(c)'
  BY <1>1, <1>2 DEF Took, RoomCommand!Held
<1> QED  BY <1>1, <1>3, <1>5, <1>6, CommandEnds

LEMMA CommandLooksOff ==
    ASSUME CommandInv, NEW r \in Requests, RoomCommand!LookOff(r) PROVE CommandInv'
<1> DEFINE w == [d \in RoomCommand!Devices |->
                   IF state[d] \in RoomCommand!Settings(d) THEN state[d] ELSE None]
           t == [cmd[r] EXCEPT !.step = "lights", !.wish = w]
<1>1. /\ cmd[r].step = "look" /\ cmd[r].act = "turn_off" /\ cmd' = [cmd EXCEPT ![r] = t]
      /\ lock' = lock /\ answers' = answers /\ capture' = capture
  BY DEF RoomCommand!LookOff, RoomCommand!At, RoomCommand!Store
<1>2. cmd[r] \in Commands /\ Locked(r) /\ RoomCommand!TypeOK
  BY DEF CommandInv, CommandTypes
<1>3. w \in [RoomCommand!Devices -> Settings]
  BY DEF Settings, RoomCommand!Settings, RoomCommand!Levels
<1>4. t \in Commands /\ t.step = "lights" /\ t.act = "turn_off" /\ t.key = cmd[r].key
  <2> HIDE DEF w
  <2> QED  BY <1>1, <1>2, <1>3 DEF Commands, Switches
<1>5. PICK u \in Commands : u = t
  BY <1>4
<1> HIDE DEF t
<1>6. Planned(u) /\ Carried(u)'
  <2>1. \A c \in Acs : w[c] \in Modes \cup {None}
    BY CommandConstants DEF RoomCommand!Settings
  <2>2. u.wish = w
    BY <1>2, <1>5, <1>4 DEF t, Commands
  <2> QED  BY <1>4, <1>5, <2>1, <2>2 DEF Planned, Carried, Waits, Looks
<1>7. RoomCommand!TypeOK' /\ \A c \in Acs : Took(c)'
  BY CommandTypesStay DEF RoomCommand!LookOff, RoomCommand!Home, RoomCommand!Store
<1>8. lock = r /\ <<u.act, u.key>> \in Taps /\ <<u.act, u.key>> \notin answers'
  BY <1>1, <1>2, <1>4, <1>5 DEF Locked, Waits, RoomCommand!Running, RoomCommand!Answered
<1> QED  BY <1>1, <1>4, <1>5, <1>6, <1>7, <1>8, CommandMoves

LEMMA CommandLooksOn ==
    ASSUME CommandInv, NEW r \in Requests, RoomCommand!LookOn(r) PROVE CommandInv'
<1> DEFINE t == [cmd[r] EXCEPT !.step = "sources", !.seen = state]
<1>1. /\ cmd[r].step = "look" /\ cmd[r].act = "turn_on" /\ cmd' = [cmd EXCEPT ![r] = t]
      /\ lock' = lock /\ answers' = answers /\ capture' = capture
  BY DEF RoomCommand!LookOn, RoomCommand!At, RoomCommand!Store
<1>2. cmd[r] \in Commands /\ Locked(r) /\ Planned(cmd[r]) /\ RoomCommand!TypeOK
  BY DEF CommandInv, CommandTypes
<1>3. state \in [RoomCommand!Devices -> RoomCommand!States]
  BY <1>2 DEF RoomCommand!TypeOK
<1>4. t \in Commands /\ t.step = "sources" /\ t.act = "turn_on" /\ t.key = cmd[r].key
      /\ t.seen = state /\ t.wish = cmd[r].wish /\ t.missing = cmd[r].missing /\ t.source = cmd[r].source
  BY <1>1, <1>2, <1>3 DEF Commands, Looks
<1>5. PICK u \in Commands : u = t
  BY <1>4
<1> HIDE DEF t
<1>6. Planned(u) /\ Carried(u)'
  BY <1>1, <1>2, <1>3, <1>4, <1>5 DEF Planned, Carried, Waits, Looks, Switches
<1>7. RoomCommand!TypeOK' /\ \A c \in Acs : Took(c)'
  BY CommandTypesStay DEF RoomCommand!LookOn, RoomCommand!Home, RoomCommand!Store
<1>8. lock = r /\ <<u.act, u.key>> \in Taps /\ <<u.act, u.key>> \notin answers'
  BY <1>1, <1>2, <1>4, <1>5 DEF Locked, Waits, RoomCommand!Running, RoomCommand!Answered
<1> QED  BY <1>1, <1>4, <1>5, <1>6, <1>7, <1>8, CommandMoves

(* The plan of a room on: an AC is wished by the capture only, at what it holds, *)
(* and what the capture holds is wished, missing, or was seen on or elsewhere.   *)
GoodPlan(seen, source, wish, missing) ==
    /\ source \in {"capture", "last_on", "start_profile"}
    /\ wish \in [RoomCommand!Devices -> Settings] /\ missing \in SUBSET RoomCommand!Devices
    /\ \A d \in missing : wish[d] = None
    /\ source = "capture" => RoomCommand!Counts
    /\ \A c \in Acs : wish[c] # None =>
         source = "capture" /\ RoomCommand!Held(c) /\ wish[c] = capture.level[c]
    /\ source = "capture" => \A d \in RoomCommand!Devices : RoomCommand!Held(d) =>
         wish[d] # None \/ d \in missing \/ seen[d] \notin {None, "off", "gone"}

LEMMA PlanOfOn ==
    ASSUME RoomCommand!TypeOK, NEW seen \in [RoomCommand!Devices -> RoomCommand!States],
           NEW source, source = RoomCommand!Source(seen), source # None,
           NEW wish, wish = RoomCommand!Wish(seen, source),
           NEW missing, missing = RoomCommand!InRoom(seen, RoomCommand!Ids(source))
                                  \ RoomCommand!Available(seen, RoomCommand!Ids(source))
    PROVE  GoodPlan(seen, source, wish, missing)
<1> USE CommandConstants
<1> DEFINE ids == RoomCommand!Ids(source)
<1>1. source \in {"capture", "last_on", "start_profile"} /\ (source = "capture" => RoomCommand!Counts)
  BY DEF RoomCommand!Source
<1>2. source # "capture" => ids \subseteq Lights
  BY <1>1 DEF RoomCommand!Ids, RoomCommand!LastIds, RoomCommand!TypeOK, RoomCommand!LastOn
<1>3. source = "capture" =>
        /\ ids = {d \in RoomCommand!Devices : RoomCommand!Held(d)}
        /\ \A d \in RoomCommand!Devices : RoomCommand!Held(d) =>
             capture.level[d] \in Settings /\ capture.level[d] # None
  BY DEF RoomCommand!Ids, RoomCommand!HeldIds, RoomCommand!Held, RoomCommand!TypeOK,
         RoomCommand!Capture, Settings
<1>4. ids \subseteq RoomCommand!Devices
  BY <1>1, <1>2, <1>3
<1>5. \A d \in ids : d \in RoomCommand!Available(seen, ids) <=> seen[d] \notin {"away", "gone"}
  BY DEF RoomCommand!Available, RoomCommand!InRoom
<1>6. RoomCommand!Available(seen, ids) \subseteq ids
  BY DEF RoomCommand!Available, RoomCommand!InRoom
<1>7. missing \in SUBSET RoomCommand!Devices /\ \A d \in ids : d \in missing <=> seen[d] = "gone"
  BY <1>4, <1>5 DEF RoomCommand!InRoom
<1>8. \A d \in RoomCommand!Devices :
        wish[d] = IF d \notin RoomCommand!Available(seen, ids) \/ seen[d] # "off" THEN None
                  ELSE IF d \in Acs THEN capture.level[d] ELSE "on"
  BY DEF RoomCommand!Wish
<1>9. \A d \in RoomCommand!Devices : wish[d] \in Settings
  <2> SUFFICES ASSUME NEW d \in RoomCommand!Devices, wish[d] # None PROVE wish[d] \in Settings
    BY DEF Settings
  <2>1. d \in ids
    BY <1>6, <1>8
  <2> QED  BY <1>2, <1>3, <1>8, <2>1 DEF Settings, RoomCommand!Levels
<1>10. wish \in [RoomCommand!Devices -> Settings]
  <2>1. wish = [d \in RoomCommand!Devices |-> wish[d]]
    BY DEF RoomCommand!Wish
  <2> QED  BY <1>9, <2>1
<1>11. \A d \in missing : wish[d] = None
  BY <1>7, <1>8 DEF RoomCommand!Available
<1>12. \A c \in Acs : wish[c] # None =>
         source = "capture" /\ RoomCommand!Held(c) /\ wish[c] = capture.level[c]
  BY <1>2, <1>3, <1>6, <1>8
<1>13. source = "capture" => \A d \in RoomCommand!Devices : RoomCommand!Held(d) =>
         wish[d] # None \/ d \in missing \/ seen[d] \notin {None, "off", "gone"}
  <2> SUFFICES ASSUME source = "capture", NEW d \in RoomCommand!Devices, RoomCommand!Held(d),
                      wish[d] = None, d \notin missing
               PROVE  seen[d] \notin {None, "off", "gone"}
    OBVIOUS
  <2>1. d \in ids /\ seen[d] # "gone" /\ seen[d] # None
    BY <1>3, <1>7
  <2>2. seen[d] # "off"
    <3> SUFFICES ASSUME seen[d] = "off" PROVE FALSE
      OBVIOUS
    <3>1. d \in RoomCommand!Available(seen, ids)
      BY <1>5, <2>1
    <3>2. "on" # None
      BY CommandAssumption
    <3> QED  BY <1>3, <1>8, <3>1, <3>2
  <2> QED  BY <2>1, <2>2
<1> QED  BY <1>1, <1>7, <1>10, <1>11, <1>12, <1>13 DEF GoodPlan

LEMMA CommandPlans ==
    ASSUME CommandInv, NEW r \in Requests, RoomCommand!Sources(r) PROVE CommandInv'
<1>1. PICK seen \in [RoomCommand!Devices -> RoomCommand!States] : seen = cmd[r].seen
  BY DEF RoomCommand!Sources, RoomCommand!At, CommandInv, Planned
<1>2. PICK source : source = RoomCommand!Source(seen)
  OBVIOUS
<1>3. /\ cmd[r] \in Commands /\ Locked(r) /\ Planned(cmd[r]) /\ RoomCommand!TypeOK
      /\ cmd[r].step = "sources" /\ \A c \in Acs : Took(c)
  BY DEF RoomCommand!Sources, RoomCommand!At, CommandInv, CommandTypes
<1>4. lock = r /\ cmd[r].act = "turn_on" /\ <<cmd[r].act, cmd[r].key>> \in Taps
      /\ <<cmd[r].act, cmd[r].key>> \notin answers
  BY <1>3 DEF Locked, Waits, Planned, RoomCommand!Running, RoomCommand!Answered
<1>5. /\ capture' = IF RoomCommand!Useless(seen) THEN None ELSE capture
      /\ state' = state /\ last' = last /\ answers' = answers /\ taken' = taken
  BY <1>1 DEF RoomCommand!Sources, RoomCommand!Home
<1>6. \A c \in Acs : Took(c)'
  BY <1>3, <1>5 DEF Took, RoomCommand!Held
<1>7. CASE source = None
  <2>1. RoomCommand!Done(r) /\ RoomCommand!Unlock(r)
    BY <1>1, <1>2, <1>7 DEF RoomCommand!Sources
  <2>2. RoomCommand!TypeOK'
    BY <1>3, <1>5, <2>1 DEF RoomCommand!TypeOK, RoomCommand!Unlock
  <2> QED  BY <1>4, <1>6, <2>1, <2>2, CommandEnds
<1>8. CASE source # None
  <2>1. PICK wish : wish = RoomCommand!Wish(seen, source)
    OBVIOUS
  <2>2. PICK missing : missing = RoomCommand!InRoom(seen, RoomCommand!Ids(source))
                                 \ RoomCommand!Available(seen, RoomCommand!Ids(source))
    OBVIOUS
  <2> DEFINE t == [cmd[r] EXCEPT !.step = "lights", !.source = source, !.wish = wish, !.missing = missing]
  <2>3. cmd' = [cmd EXCEPT ![r] = t] /\ lock' = lock
    BY <1>1, <1>2, <1>8, <2>1, <2>2 DEF RoomCommand!Sources
  <2>4. /\ source \in {"capture", "last_on", "start_profile"}
        /\ wish \in [RoomCommand!Devices -> Settings] /\ missing \in SUBSET RoomCommand!Devices
        /\ \A d \in missing : wish[d] = None
        /\ source = "capture" => RoomCommand!Counts
        /\ \A c \in Acs : wish[c] # None =>
             source = "capture" /\ RoomCommand!Held(c) /\ wish[c] = capture.level[c]
        /\ source = "capture" => \A d \in RoomCommand!Devices : RoomCommand!Held(d) =>
             wish[d] # None \/ d \in missing \/ seen[d] \notin {None, "off", "gone"}
    <3>1. GoodPlan(seen, source, wish, missing)
      BY <1>1, <1>2, <1>3, <1>8, <2>1, <2>2, PlanOfOn
    <3> QED  BY <3>1 DEF GoodPlan
  <2>5. /\ t \in Commands /\ t.step = "lights" /\ t.source = source /\ t.wish = wish
        /\ t.missing = missing /\ t.seen = seen /\ t.act = "turn_on" /\ t.key = cmd[r].key
    BY <1>1, <1>3, <1>4, <2>4 DEF Commands, Switches
  <2>6. PICK u \in Commands : u = t
    BY <2>5
  <2> HIDE DEF t
  <2>7. Planned(u)
    BY <2>4, <2>5, <2>6 DEF Planned, Waits, Looks
  <2>8. Carried(u)'
    <3>1. source = "capture" => capture' = capture
      BY <1>2, <1>5 DEF RoomCommand!Useless
    <3>2. ASSUME source = "capture", NEW d \in RoomCommand!Devices, RoomCommand!Held(d)'
          PROVE  RoomCommand!Held(d)
      BY <3>1, <3>2 DEF RoomCommand!Held
    <3> QED  BY <2>4, <2>5, <2>6, <3>2 DEF Carried
  <2>9. RoomCommand!TypeOK'
    BY <1>3, <1>5, <2>3 DEF RoomCommand!TypeOK
  <2>10. u.step \notin Waits => lock' = r
    BY <1>4, <2>3
  <2>11. <<u.act, u.key>> \in Taps /\ <<u.act, u.key>> \notin answers'
    BY <1>4, <1>5, <2>5, <2>6
  <2> QED  BY <1>4, <1>6, <2>3, <2>6, <2>7, <2>8, <2>9, <2>10, <2>11, CommandMoves
<1> QED  BY <1>7, <1>8

(* The home changes, and with it the last-on set. *)
LEMMA HomeTyped ==
    ASSUME RoomCommand!TypeOK, NEW new \in [RoomCommand!Devices -> RoomCommand!States],
           RoomCommand!Change(new)
    PROVE  /\ state' \in [RoomCommand!Devices -> RoomCommand!States]
           /\ last' \in RoomCommand!LastOn \cup {None}
<1>1. state' = new
  BY DEF RoomCommand!Change
<1>2. last' = last \/ \E off \in SUBSET Lights, others \in SUBSET Lights :
                        last' = [ids |-> off \cup others, age |-> 0]
  <2> DEFINE off == {l \in Lights : state[l] = "on" /\ new[l] = "off"}
  <2>1. RoomCommand!Follow(new)
    BY DEF RoomCommand!Change
  <2>2. last' = last \/ \E others \in SUBSET (Lights \ off) : last' = [ids |-> off \cup others, age |-> 0]
    BY <2>1 DEF RoomCommand!Follow
  <2>3. off \in SUBSET Lights /\ \A others \in SUBSET (Lights \ off) : others \in SUBSET Lights
    OBVIOUS
  <2> QED  BY <2>2, <2>3
<1>3. last' \in RoomCommand!LastOn \cup {None}
  BY <1>2, CommandConstants DEF RoomCommand!LastOn, RoomCommand!TypeOK
<1> QED  BY <1>1, <1>3

LEMMA CommandSwitches ==
    ASSUME CommandInv, NEW r \in Requests,
           RoomCommand!SwitchLights(r) \/ RoomCommand!SwitchAcs(r)
    PROVE  CommandInv'
<1>1. PICK kind \in {Lights, Acs}, from \in {"lights", "acs"}, to \in {"acs", "record"} :
        RoomCommand!Switch(r, kind, from, to)
  BY DEF RoomCommand!SwitchLights, RoomCommand!SwitchAcs
<1>2. cmd[r] \in Commands /\ Locked(r) /\ Planned(cmd[r]) /\ Carried(cmd[r]) /\ RoomCommand!TypeOK
      /\ \A c \in Acs : Took(c)
  BY DEF CommandInv, CommandTypes
<1>3. PICK asked : asked = {d \in kind : cmd[r].wish[d] # None}
  OBVIOUS
<1>4. PICK obeyed \in SUBSET {d \in asked : state[d] \notin {"gone", "away"}}, failed \in SUBSET asked :
        /\ RoomCommand!Change([d \in RoomCommand!Devices |->
                                 IF d \in obeyed THEN RoomCommand!Target(r, d) ELSE state[d]])
        /\ cmd' = [cmd EXCEPT ![r].step = to, ![r].failed = @ \cup failed]
  BY <1>1, <1>3 DEF RoomCommand!Switch
<1>5. /\ cmd[r].step = from /\ lock' = lock /\ answers' = answers /\ capture' = capture /\ taken' = taken
  BY <1>1 DEF RoomCommand!Switch, RoomCommand!At, RoomCommand!Store
<1>6. asked \subseteq RoomCommand!Devices /\ \A d \in asked : RoomCommand!Target(r, d) \in RoomCommand!States
  <2>1. asked \subseteq RoomCommand!Devices
    BY <1>3, CommandConstants
  <2>2. ASSUME NEW d \in asked PROVE cmd[r].wish[d] \in RoomCommand!Levels
    BY <1>2, <1>3, <2>1 DEF Commands, Settings
  <2> QED  BY <2>1, <2>2, CommandConstants DEF RoomCommand!Target, RoomCommand!States
<1>7. [d \in RoomCommand!Devices |-> IF d \in obeyed THEN RoomCommand!Target(r, d) ELSE state[d]]
        \in [RoomCommand!Devices -> RoomCommand!States]
  BY <1>2, <1>6 DEF RoomCommand!TypeOK
<1>8. RoomCommand!TypeOK'
  <2>1. /\ state' \in [RoomCommand!Devices -> RoomCommand!States]
        /\ last' \in RoomCommand!LastOn \cup {None}
    BY <1>2, <1>4, <1>7, HomeTyped
  <2> QED  BY <1>2, <1>5, <2>1 DEF RoomCommand!TypeOK
<1> DEFINE t == [cmd[r] EXCEPT !.step = to, !.failed = @ \cup failed]
<1>9. cmd' = [cmd EXCEPT ![r] = t]
  BY <1>4
<1>10. /\ t \in Commands /\ t.step = to /\ t.act = cmd[r].act /\ t.key = cmd[r].key /\ t.seen = cmd[r].seen
       /\ t.wish = cmd[r].wish /\ t.missing = cmd[r].missing /\ t.source = cmd[r].source
  BY <1>2, <1>6 DEF Commands, Switches
<1>11. PICK u \in Commands : u = t
  BY <1>10
<1> HIDE DEF t
<1>12. Planned(u)
  BY <1>2, <1>5, <1>10, <1>11 DEF Planned, Waits, Looks
<1>13. Carried(u)'
  BY <1>2, <1>5, <1>10, <1>11 DEF Carried, Switches, RoomCommand!Held
<1>14. /\ lock = r /\ <<u.act, u.key>> \in Taps /\ <<u.act, u.key>> \notin answers'
  BY <1>2, <1>5, <1>10, <1>11 DEF Locked, Waits, RoomCommand!Running, RoomCommand!Answered
<1>15. \A c \in Acs : Took(c)'
  BY <1>2, <1>5 DEF Took, RoomCommand!Held
<1> QED  BY <1>5, <1>8, <1>9, <1>11, <1>12, <1>13, <1>14, <1>15, CommandMoves

LEMMA CommandHomeChanges ==
    ASSUME CommandInv, NEW d \in RoomCommand!Devices, RoomCommand!DeviceChanges(d) PROVE CommandInv'
<1>1. PICK s \in RoomCommand!Settings(d) \cup {"off", "gone", "away"} :
        RoomCommand!Change([state EXCEPT ![d] = s])
  BY DEF RoomCommand!DeviceChanges
<1>2. /\ capture' = capture /\ answers' = answers /\ lock' = lock /\ cmd' = cmd /\ taken' = taken
  BY DEF RoomCommand!DeviceChanges, RoomCommand!Store
<1>3. RoomCommand!TypeOK /\ cmd \in [Requests -> Commands]
  BY DEF CommandInv, CommandTypes
<1>4. s \in RoomCommand!States
  BY DEF RoomCommand!Settings, RoomCommand!States, RoomCommand!Levels
<1>5. [state EXCEPT ![d] = s] \in [RoomCommand!Devices -> RoomCommand!States]
  BY <1>3, <1>4 DEF RoomCommand!TypeOK
<1>6. /\ state' \in [RoomCommand!Devices -> RoomCommand!States]
      /\ last' \in RoomCommand!LastOn \cup {None}
  BY <1>1, <1>3, <1>5, HomeTyped
<1>7. RoomCommand!TypeOK'
  BY <1>2, <1>3, <1>6 DEF RoomCommand!TypeOK
<1>8. \A r \in Requests : Locked(r)' /\ Planned(cmd[r])' /\ Carried(cmd[r])'
  BY <1>2 DEF CommandInv, Locked, Planned, Carried, RoomCommand!Held, RoomCommand!Answered
<1>9. \A c \in Acs : Took(c)'
  BY <1>2 DEF CommandInv, Took, RoomCommand!Held
<1> QED  BY <1>2, <1>3, <1>7, <1>8, <1>9 DEF CommandInv, CommandTypes

LEMMA CommandTicks ==
    ASSUME CommandInv, RoomCommand!Tick PROVE CommandInv'
<1>1. /\ state' = state /\ answers' = answers /\ lock' = lock /\ cmd' = cmd
      /\ capture' = IF capture = None THEN None ELSE [capture EXCEPT !.age = RoomCommand!Older(@)]
      /\ last' = IF last = None THEN None ELSE [last EXCEPT !.age = RoomCommand!Older(@)]
      /\ taken' = [c \in Acs |-> IF taken[c] = None THEN None
                                 ELSE [taken[c] EXCEPT !.age = RoomCommand!Older(@)]]
  BY DEF RoomCommand!Tick
<1>2. RoomCommand!TypeOK /\ cmd \in [Requests -> Commands]
  BY DEF CommandInv, CommandTypes
<1>3. \A a, b \in RoomCommand!Ages : /\ RoomCommand!Older(a) \in RoomCommand!Ages
                                     /\ a <= b => RoomCommand!Older(a) <= RoomCommand!Older(b)
  BY CommandConstants DEF RoomCommand!Ages, RoomCommand!Older
<1>4. /\ capture' \in RoomCommand!Capture \cup {None}
      /\ capture # None => capture' # None /\ capture'.level = capture.level
                           /\ capture'.age = RoomCommand!Older(capture.age)
                           /\ capture.age \in RoomCommand!Ages
  BY <1>1, <1>2, <1>3, CommandConstants DEF RoomCommand!TypeOK, RoomCommand!Capture
<1>5. last' \in RoomCommand!LastOn \cup {None}
  BY <1>1, <1>2, <1>3 DEF RoomCommand!TypeOK, RoomCommand!LastOn
<1>6. \A c \in Acs : taken[c] # None =>
        /\ taken'[c] \in RoomCommand!Taken /\ taken'[c].level = taken[c].level
        /\ taken'[c].age = RoomCommand!Older(taken[c].age) /\ taken[c].age \in RoomCommand!Ages
  BY <1>1, <1>2, <1>3 DEF RoomCommand!TypeOK, RoomCommand!Taken
<1>7. taken' \in [Acs -> RoomCommand!Taken \cup {None}]
  BY <1>1, <1>6
<1>8. RoomCommand!TypeOK'
  BY <1>1, <1>2, <1>4, <1>5, <1>7 DEF RoomCommand!TypeOK
<1>9. \A d \in RoomCommand!Devices : RoomCommand!Held(d)' => RoomCommand!Held(d)
  BY <1>1, <1>4 DEF RoomCommand!Held
<1>10. \A r \in Requests : Locked(r)' /\ Planned(cmd[r])' /\ Carried(cmd[r])'
  BY <1>1, <1>9 DEF CommandInv, Locked, Planned, Carried, RoomCommand!Answered
<1>11. ASSUME NEW c \in Acs PROVE Took(c)'
  <2> SUFFICES ASSUME RoomCommand!Held(c)'
               PROVE  /\ taken'[c] # None /\ taken'[c].level = capture'.level[c]
                      /\ taken'[c].age <= capture'.age
    BY DEF Took
  <2>1. RoomCommand!Held(c) /\ capture # None
    BY <1>9, CommandConstants DEF RoomCommand!Held
  <2>2. taken[c] # None /\ taken[c].level = capture.level[c] /\ taken[c].age <= capture.age
    BY <2>1 DEF CommandInv, Took
  <2> QED  BY <1>3, <1>4, <1>6, <2>1, <2>2, CommandConstants
<1> QED  BY <1>1, <1>2, <1>8, <1>10, <1>11 DEF CommandInv, CommandTypes

(* The devices that a command changed were wished. *)
LEMMA ChangedWished ==
    ASSUME CommandInv, NEW r \in Requests
    PROVE  /\ RoomCommand!Changed(r) \subseteq RoomCommand!Devices
           /\ \A d \in RoomCommand!Changed(r) : cmd[r].wish[d] \in RoomCommand!Levels
           /\ cmd[r].act = "turn_on" => \A d \in RoomCommand!Changed(r) :
                d \notin cmd[r].missing /\ state[d] = cmd[r].wish[d]
<1>1. cmd[r] \in Commands /\ Planned(cmd[r])
  BY DEF CommandInv, CommandTypes
<1> QED  BY <1>1 DEF RoomCommand!Changed, Commands, Settings, Planned, RoomCommand!Target

LEMMA CommandRecorded ==
    ASSUME CommandInv, NEW r \in Requests, cmd[r].step = "record", RoomCommand!Recorded(r),
           lock' = lock, answers' = answers, RoomCommand!TypeOK', \A c \in Acs : Took(c)'
    PROVE  CommandInv'
<1>1. cmd[r] \in Commands /\ Locked(r)
  BY DEF CommandInv, CommandTypes
<1>2. RoomCommand!Goto(r, "save")
  BY <1>1 DEF RoomCommand!Recorded, Commands
<1>3. lock = r /\ <<cmd[r].act, cmd[r].key>> \notin answers
  BY <1>1 DEF Locked, Waits, RoomCommand!Running, RoomCommand!Answered
<1> QED  BY <1>2, <1>3, CommandGoes

LEMMA CommandRecordsOff ==
    ASSUME CommandInv, NEW r \in Requests, RoomCommand!RecordOff(r) PROVE CommandInv'
<1>1. /\ cmd[r].step = "record" /\ RoomCommand!Recorded(r) /\ cmd[r].act = "turn_off"
      /\ capture' = IF RoomCommand!Changed(r) = {} THEN capture ELSE RoomCommand!Extended(r)
      /\ taken' = [c \in Acs |-> IF c \in RoomCommand!Changed(r)
                                 THEN [level |-> cmd[r].wish[c], age |-> 0] ELSE taken[c]]
      /\ state' = state /\ last' = last /\ answers' = answers /\ lock' = lock
  BY DEF RoomCommand!RecordOff, RoomCommand!At, RoomCommand!Home
<1>2. cmd[r] \in Commands /\ Planned(cmd[r]) /\ RoomCommand!TypeOK /\ \A c \in Acs : Took(c)
  BY DEF CommandInv, CommandTypes
<1>3. PICK changed : changed = RoomCommand!Changed(r)
  OBVIOUS
<1>4. changed \subseteq RoomCommand!Devices /\ \A d \in changed : cmd[r].wish[d] \in RoomCommand!Levels
  BY <1>3, ChangedWished
<1>5. \A c \in Acs : c \in changed => cmd[r].wish[c] \in Modes
  BY <1>1, <1>2, <1>4, CommandConstants DEF Planned
<1>6. PICK more \in BOOLEAN : more = (capture # None /\ capture.age <= Extend)
  OBVIOUS
<1>7. RoomCommand!Extended(r) =
        [level |-> [d \in RoomCommand!Devices |->
                      IF d \in changed THEN cmd[r].wish[d] ELSE IF more THEN capture.level[d] ELSE None],
         age |-> IF more THEN capture.age ELSE 0]
  BY <1>3, <1>6 DEF RoomCommand!Extended
<1>8. more => capture \in RoomCommand!Capture /\ capture # None
  BY <1>2, <1>6 DEF RoomCommand!TypeOK
<1>9. RoomCommand!Extended(r) \in RoomCommand!Capture
  <2>1. \A d \in RoomCommand!Devices :
          (IF d \in changed THEN cmd[r].wish[d] ELSE IF more THEN capture.level[d] ELSE None)
             \in RoomCommand!Levels \cup {None}
    BY <1>4, <1>8 DEF RoomCommand!Capture
  <2>2. (IF more THEN capture.age ELSE 0) \in RoomCommand!Ages
    BY <1>8, CommandConstants DEF RoomCommand!Capture
  <2> QED  BY <1>7, <2>1, <2>2 DEF RoomCommand!Capture
<1>10. capture' \in RoomCommand!Capture \cup {None} /\ taken' \in [Acs -> RoomCommand!Taken \cup {None}]
  <2>1. capture' \in RoomCommand!Capture \cup {None}
    BY <1>1, <1>2, <1>9 DEF RoomCommand!TypeOK
  <2>2. \A c \in Acs : taken'[c] \in RoomCommand!Taken \cup {None}
    BY <1>1, <1>2, <1>3, <1>5, CommandConstants DEF RoomCommand!TypeOK, RoomCommand!Taken
  <2> QED  BY <1>1, <2>1, <2>2
<1>11. RoomCommand!TypeOK'
  BY <1>1, <1>2, <1>10 DEF RoomCommand!TypeOK
<1>12. ASSUME NEW c \in Acs PROVE Took(c)'
  <2> SUFFICES ASSUME RoomCommand!Held(c)'
               PROVE  /\ taken'[c] # None /\ taken'[c].level = capture'.level[c]
                      /\ taken'[c].age <= capture'.age
    BY DEF Took
  <2>1. c \in RoomCommand!Devices
    BY CommandConstants
  <2>2. CASE changed = {}
    <3>1. capture' = capture /\ taken'[c] = taken[c]
      BY <1>1, <1>3, <2>2
    <3> QED  BY <1>2, <3>1 DEF Took, RoomCommand!Held
  <2>3. CASE c \in changed
    <3>1. capture' = RoomCommand!Extended(r) /\ taken'[c] = [level |-> cmd[r].wish[c], age |-> 0]
      BY <1>1, <1>3, <2>3
    <3>2. capture'.level[c] = cmd[r].wish[c]
      BY <1>7, <2>1, <2>3, <3>1
    <3>4. capture'.age \in Nat
      BY <1>9, <3>1, CommandConstants DEF RoomCommand!Capture
    <3>3. taken'[c] # None
      BY <1>5, <2>3, <3>1, CommandConstants DEF RoomCommand!Taken
    <3> QED  BY <3>1, <3>2, <3>3, <3>4
  <2>4. CASE changed # {} /\ c \notin changed
    <3>1. capture' = RoomCommand!Extended(r) /\ taken'[c] = taken[c]
      BY <1>1, <1>3, <2>4
    <3>2. more /\ capture'.level[c] = capture.level[c] /\ capture'.age = capture.age
      BY <1>7, <2>1, <2>4, <3>1 DEF RoomCommand!Held
    <3>3. RoomCommand!Held(c)
      BY <1>8, <3>1, <3>2 DEF RoomCommand!Held
    <3> QED  BY <1>2, <3>1, <3>2, <3>3 DEF Took
  <2> QED  BY <2>2, <2>3, <2>4
<1> QED  BY <1>1, <1>11, <1>12, CommandRecorded

LEMMA CommandRecordsOn ==
    ASSUME CommandInv, NEW r \in Requests, RoomCommand!RecordOn(r) PROVE CommandInv'
<1>1. /\ cmd[r].step = "record" /\ RoomCommand!Recorded(r) /\ cmd[r].act = "turn_on"
      /\ capture' = RoomCommand!Kept(r)
      /\ taken' = [c \in Acs |-> IF c \in RoomCommand!Changed(r) THEN None ELSE taken[c]]
      /\ state' = state /\ last' = last /\ answers' = answers /\ lock' = lock
  BY DEF RoomCommand!RecordOn, RoomCommand!At, RoomCommand!Home
<1>2. cmd[r] \in Commands /\ Planned(cmd[r]) /\ RoomCommand!TypeOK /\ \A c \in Acs : Took(c)
  BY DEF CommandInv, CommandTypes
<1>3. PICK notOn : notOn = ({d \in RoomCommand!Devices : cmd[r].wish[d] # None}
                              \ RoomCommand!Changed(r)) \cup cmd[r].missing
  OBVIOUS
<1>4. \/ cmd[r].source # "capture" /\ capture' = capture
      \/ cmd[r].source = "capture" /\ capture' = None
      \/ /\ cmd[r].source = "capture" /\ RoomCommand!HeldIds \cap notOn # {}
         /\ capture' = [capture EXCEPT !.level =
               [d \in RoomCommand!Devices |-> IF d \in notOn THEN @[d] ELSE None]]
  BY <1>1, <1>3 DEF RoomCommand!Kept
<1>5. RoomCommand!HeldIds # {} => capture \in RoomCommand!Capture /\ capture # None
  BY <1>2 DEF RoomCommand!HeldIds, RoomCommand!Held, RoomCommand!TypeOK
<1>6. capture' \in RoomCommand!Capture \cup {None}
  BY <1>2, <1>4, <1>5 DEF RoomCommand!TypeOK, RoomCommand!Capture
<1>7. taken' \in [Acs -> RoomCommand!Taken \cup {None}]
  BY <1>1, <1>2 DEF RoomCommand!TypeOK
<1>8. RoomCommand!TypeOK'
  BY <1>1, <1>2, <1>6, <1>7 DEF RoomCommand!TypeOK
<1>9. \A d \in RoomCommand!Changed(r) : d \notin notOn
  BY <1>1, <1>3, ChangedWished
<1>10. ASSUME NEW c \in Acs PROVE Took(c)'
  <2> SUFFICES ASSUME RoomCommand!Held(c)'
               PROVE  /\ taken'[c] # None /\ taken'[c].level = capture'.level[c]
                      /\ taken'[c].age <= capture'.age
    BY DEF Took
  <2>1. c \in RoomCommand!Devices
    BY CommandConstants
  <2>2. CASE cmd[r].source # "capture"
    <3>1. capture' = capture
      BY <1>4, <2>2
    <3>2. c \notin RoomCommand!Changed(r)
      BY <1>1, <1>2, <2>2, CommandConstants DEF Planned, RoomCommand!Changed
    <3> QED  BY <1>1, <1>2, <3>1, <3>2 DEF Took, RoomCommand!Held
  <2>3. CASE cmd[r].source = "capture"
    <3>1. /\ RoomCommand!HeldIds # {} /\ capture' = [capture EXCEPT !.level =
               [d \in RoomCommand!Devices |-> IF d \in notOn THEN @[d] ELSE None]]
      BY <1>4, <2>3 DEF RoomCommand!Held
    <3>2. /\ capture'.age = capture.age
          /\ capture'.level[c] = IF c \in notOn THEN capture.level[c] ELSE None
      BY <1>5, <2>1, <3>1 DEF RoomCommand!Capture
    <3>3. c \in notOn /\ RoomCommand!Held(c) /\ capture'.level[c] = capture.level[c]
      BY <1>5, <3>1, <3>2 DEF RoomCommand!Held
    <3>4. taken'[c] = taken[c]
      BY <1>1, <1>9, <3>3
    <3> QED  BY <1>2, <3>2, <3>3, <3>4 DEF Took
  <2> QED  BY <2>2, <2>3
<1> QED  BY <1>1, <1>8, <1>10, CommandRecorded

LEMMA CommandKept == CommandInv /\ [RoomCommand!Next]_(RoomCommand!vars) => CommandInv'
<1> SUFFICES ASSUME CommandInv, [RoomCommand!Next]_(RoomCommand!vars) PROVE CommandInv'
  OBVIOUS
<1>1. CASE \E r \in Requests :
             \/ RoomCommand!Ask(r) \/ RoomCommand!TakeLock(r) \/ RoomCommand!Reply(r)
             \/ RoomCommand!Proceed(r) \/ RoomCommand!LookOff(r) \/ RoomCommand!LookOn(r)
             \/ RoomCommand!Sources(r) \/ RoomCommand!SwitchLights(r) \/ RoomCommand!SwitchAcs(r)
             \/ RoomCommand!RecordOff(r) \/ RoomCommand!RecordOn(r) \/ RoomCommand!Save(r)
             \/ RoomCommand!Cancel(r)
  BY <1>1, CommandAsks, CommandTakesLock, CommandReplies, CommandProceeds, CommandLooksOff,
     CommandLooksOn, CommandPlans, CommandSwitches, CommandRecordsOff, CommandRecordsOn,
     CommandSaves, CommandCancelled
<1>2. CASE (\E d \in RoomCommand!Devices : RoomCommand!DeviceChanges(d)) \/ RoomCommand!Tick
  BY <1>2, CommandHomeChanges, CommandTicks
<1>3. CASE UNCHANGED RoomCommand!vars
  <2>1. /\ state' = state /\ capture' = capture /\ last' = last /\ answers' = answers
        /\ lock' = lock /\ cmd' = cmd /\ taken' = taken
    BY <1>3 DEF RoomCommand!vars
  <2>2. RoomCommand!TypeOK' /\ cmd' \in [Requests -> Commands]
    BY <2>1 DEF CommandInv, CommandTypes, RoomCommand!TypeOK
  <2>3. \A r \in Requests : Locked(r)' /\ Planned(cmd[r])' /\ Carried(cmd[r])'
    BY <2>1 DEF CommandInv, Locked, Planned, Carried, RoomCommand!Held, RoomCommand!Answered
  <2>4. \A c \in Acs : Took(c)'
    BY <2>1 DEF CommandInv, Took, RoomCommand!Held
  <2> QED  BY <2>2, <2>3, <2>4 DEF CommandInv, CommandTypes
<1> QED  BY <1>1, <1>2, <1>3 DEF RoomCommand!Next

(* Only the plan of a room on wishes anything of one that looks for a source. *)
LEMMA WishedFromSources ==
    ASSUME CommandInv, RoomCommand!Next, NEW r \in Requests, NEW c \in Acs,
           cmd[r].step = "sources", cmd'[r].wish[c] # None
    PROVE  RoomCommand!Sources(r)
<1>1. cmd \in [Requests -> Commands] /\ cmd[r].wish = RoomCommand!Nothing
  BY DEF CommandInv, CommandTypes, Planned, Looks
<1>2. RoomCommand!Nothing[c] = None /\ RoomCommand!Idle.wish = RoomCommand!Nothing
  BY CommandConstants, CommandIdle DEF RoomCommand!Nothing
<1>3. cmd'[r] # cmd[r] /\ cmd'[r] # RoomCommand!Idle
  BY <1>1, <1>2
<1>4. PICK q \in Requests :
        \/ RoomCommand!Ask(q) \/ RoomCommand!TakeLock(q) \/ RoomCommand!Reply(q)
        \/ RoomCommand!Proceed(q) \/ RoomCommand!LookOff(q) \/ RoomCommand!LookOn(q)
        \/ RoomCommand!Sources(q) \/ RoomCommand!SwitchLights(q) \/ RoomCommand!SwitchAcs(q)
        \/ RoomCommand!RecordOff(q) \/ RoomCommand!RecordOn(q) \/ RoomCommand!Save(q)
        \/ RoomCommand!Cancel(q)
  <2>1. ~ \E d \in RoomCommand!Devices : RoomCommand!DeviceChanges(d)
    BY <1>3 DEF RoomCommand!DeviceChanges
  <2>2. ~ RoomCommand!Tick
    BY <1>3 DEF RoomCommand!Tick
  <2> QED  BY <2>1, <2>2 DEF RoomCommand!Next
<1>5. q = r
  <2> SUFFICES ASSUME q # r PROVE cmd'[r] = cmd[r]
    BY <1>3
  <2>1. CASE RoomCommand!Ask(q) \/ RoomCommand!TakeLock(q) \/ RoomCommand!Proceed(q)
             \/ RoomCommand!LookOff(q) \/ RoomCommand!LookOn(q)
    BY <1>1, <2>1 DEF RoomCommand!Ask, RoomCommand!TakeLock, RoomCommand!Proceed,
       RoomCommand!LookOff, RoomCommand!LookOn, RoomCommand!Goto
  <2>2. CASE RoomCommand!Reply(q) \/ RoomCommand!Save(q) \/ RoomCommand!Cancel(q)
    BY <1>1, <2>2 DEF RoomCommand!Reply, RoomCommand!Save, RoomCommand!Cancel, RoomCommand!Done
  <2>3. CASE RoomCommand!Sources(q)
    BY <1>1, <2>3 DEF RoomCommand!Sources, RoomCommand!Done
  <2>4. CASE RoomCommand!SwitchLights(q) \/ RoomCommand!SwitchAcs(q)
    BY <1>1, <2>4 DEF RoomCommand!SwitchLights, RoomCommand!SwitchAcs, RoomCommand!Switch
  <2>5. CASE RoomCommand!RecordOff(q) \/ RoomCommand!RecordOn(q)
    BY <1>1, <2>5 DEF RoomCommand!RecordOff, RoomCommand!RecordOn, RoomCommand!Recorded,
       RoomCommand!Done, RoomCommand!Goto
  <2> QED  BY <1>4, <2>1, <2>2, <2>3, <2>4, <2>5
<1>6. ~RoomCommand!Ask(r)
  BY CommandIdle DEF RoomCommand!Ask
<1>7. ~RoomCommand!Cancel(r)
  BY <1>1, <1>3 DEF RoomCommand!Cancel, RoomCommand!Done
<1> QED
  BY <1>4, <1>5, <1>6, <1>7
  DEF RoomCommand!TakeLock, RoomCommand!Reply, RoomCommand!Proceed, RoomCommand!LookOff,
      RoomCommand!LookOn, RoomCommand!SwitchLights, RoomCommand!SwitchAcs, RoomCommand!Switch,
      RoomCommand!RecordOff, RoomCommand!RecordOn, RoomCommand!Save, RoomCommand!At

LEMMA AcsNotGuessed == ASSUME CommandInv, RoomCommand!Next PROVE RoomCommand!AcNotGuessed
<1> SUFFICES ASSUME NEW r \in Requests, NEW c \in Acs, cmd[r].step = "sources",
                    cmd'[r].wish[c] # None
             PROVE  /\ taken[c] # None /\ taken[c].level = cmd'[r].wish[c]
                    /\ taken[c].age <= MaxAge
                    /\ last # None => taken[c].age <= last.age + Extend
  BY DEF RoomCommand!AcNotGuessed, RoomCommand!At
<1>1. RoomCommand!Sources(r)
  BY WishedFromSources
<1>2. PICK seen \in [RoomCommand!Devices -> RoomCommand!States] : seen = cmd[r].seen
  BY DEF CommandInv, Planned
<1>3. PICK source : source = RoomCommand!Source(seen)
  OBVIOUS
<1>4. /\ cmd \in [Requests -> Commands] /\ RoomCommand!TypeOK /\ Took(c)
  BY DEF CommandInv, CommandTypes
<1>5. source # None
  <2> SUFFICES ASSUME source = None PROVE cmd'[r].wish[c] = None
    OBVIOUS
  <2>1. cmd'[r] = RoomCommand!Idle
    BY <1>1, <1>2, <1>3, <1>4 DEF RoomCommand!Sources, RoomCommand!Done
  <2> QED  BY <2>1, CommandIdle, CommandConstants DEF RoomCommand!Nothing
<1>6. PICK wish, missing : /\ wish = RoomCommand!Wish(seen, source)
                           /\ missing = RoomCommand!InRoom(seen, RoomCommand!Ids(source))
                                  \ RoomCommand!Available(seen, RoomCommand!Ids(source))
  OBVIOUS
<1>7. cmd' = [cmd EXCEPT ![r].step = "lights", ![r].source = source, ![r].wish = wish,
                         ![r].missing = missing]
  BY <1>1, <1>2, <1>3, <1>5, <1>6 DEF RoomCommand!Sources
<1>8. cmd'[r].wish = wish
  BY <1>4, <1>7 DEF Commands
<1>9. GoodPlan(seen, source, wish, missing)
  BY <1>3, <1>4, <1>5, <1>6, PlanOfOn
<1>10. RoomCommand!Counts /\ RoomCommand!Held(c) /\ wish[c] = capture.level[c]
  BY <1>8, <1>9 DEF GoodPlan
<1>11. taken[c] # None /\ taken[c].level = wish[c] /\ taken[c].age <= capture.age
  BY <1>4, <1>10 DEF Took
<1>12. capture.age \in Nat /\ capture.age <= MaxAge /\ taken[c].age \in Nat
  <2>1. capture \in RoomCommand!Capture
    BY <1>4, <1>10 DEF RoomCommand!TypeOK, RoomCommand!Held
  <2>2. taken[c] \in RoomCommand!Taken
    BY <1>4, <1>11 DEF RoomCommand!TypeOK
  <2> QED  BY <1>10, <2>1, <2>2, CommandConstants DEF RoomCommand!Capture, RoomCommand!Taken, RoomCommand!Counts
<1>13. last # None => last.age \in Nat /\ capture.age <= last.age + Extend
  <2> SUFFICES ASSUME last # None PROVE last.age \in Nat /\ capture.age <= last.age + Extend
    OBVIOUS
  <2>1. last.age \in Nat
    BY <1>4, CommandConstants DEF RoomCommand!TypeOK, RoomCommand!LastOn
  <2> QED  BY <1>10, <1>12, <2>1, CommandConstants DEF RoomCommand!Counts, RoomCommand!DarkSince
<1> QED  BY <1>8, <1>11, <1>12, <1>13, CommandConstants

LEMMA CapturesStay == ASSUME CommandInv, RoomCommand!Next PROVE RoomCommand!CaptureStays
<1> SUFFICES ASSUME NEW d \in RoomCommand!Devices, RoomCommand!Held(d), ~RoomCommand!Held(d)'
             PROVE  RoomCommand!BackOrAway(d) \/ ~RoomCommand!Counts \/ RoomCommand!Superseded
  BY DEF RoomCommand!CaptureStays
<1> USE CommandConstants
<1>1. RoomCommand!TypeOK /\ capture # None /\ capture \in RoomCommand!Capture /\ capture.level[d] # None
  BY DEF CommandInv, CommandTypes, RoomCommand!TypeOK, RoomCommand!Held
<1>2. d \in RoomCommand!HeldIds
  BY DEF RoomCommand!HeldIds
<1>3. capture' # capture
  BY DEF RoomCommand!Held
<1>4. ASSUME NEW r \in Requests, RoomCommand!Sources(r)
      PROVE  RoomCommand!BackOrAway(d) \/ ~RoomCommand!Counts
  <2>1. RoomCommand!Useless(cmd[r].seen)
    BY <1>3, <1>4 DEF RoomCommand!Sources
  <2>2. CASE RoomCommand!InRoom(cmd[r].seen, RoomCommand!HeldIds) = {}
    <3>1. cmd[r].seen[d] = "away"
      BY <1>2, <2>2 DEF RoomCommand!InRoom
    <3>2. "away" # None
      BY CommandAssumption
    <3> QED  BY <3>1, <3>2 DEF RoomCommand!BackOrAway
  <2> QED  BY <2>1, <2>2 DEF RoomCommand!Useless
<1>5. ASSUME NEW r \in Requests, RoomCommand!RecordOff(r) PROVE RoomCommand!Superseded
  <2>1. /\ RoomCommand!Changed(r) # {} /\ capture' = RoomCommand!Extended(r) /\ cmd[r].act = "turn_off"
    BY <1>3, <1>5 DEF RoomCommand!RecordOff
  <2>2. capture' # None
    <3>1. capture' = [level |-> capture'.level, age |-> capture'.age]
      BY <2>1 DEF RoomCommand!Extended
    <3>2. capture'.level \in [RoomCommand!Devices -> RoomCommand!Levels \cup {None}]
      <4> SUFFICES ASSUME NEW e \in RoomCommand!Devices
                   PROVE  (IF e \in RoomCommand!Changed(r) THEN cmd[r].wish[e]
                           ELSE IF capture # None /\ capture.age <= Extend THEN capture.level[e]
                           ELSE None) \in RoomCommand!Levels \cup {None}
        BY <2>1 DEF RoomCommand!Extended
      <4> QED  BY <1>1, ChangedWished DEF RoomCommand!Capture
    <3>3. capture'.age \in RoomCommand!Ages
      BY <1>1, <2>1 DEF RoomCommand!Extended, RoomCommand!Capture
    <3> QED  BY <3>1, <3>2, <3>3 DEF RoomCommand!Capture
  <2>3. capture'.level[d] = IF d \in RoomCommand!Changed(r) THEN cmd[r].wish[d]
                            ELSE IF capture.age <= Extend THEN capture.level[d] ELSE None
    BY <1>1, <2>1 DEF RoomCommand!Extended
  <2>4. capture'.level[d] = None
    BY <2>2 DEF RoomCommand!Held
  <2>5. d \in RoomCommand!Changed(r) => cmd[r].wish[d] # None
    BY DEF RoomCommand!Changed
  <2>6. ~(capture.age <= Extend) /\ capture.age \in Nat
    BY <1>1, <2>3, <2>4, <2>5 DEF RoomCommand!Capture
  <2> QED  BY <2>1, <2>6 DEF RoomCommand!Superseded
<1>6. ASSUME NEW r \in Requests, RoomCommand!RecordOn(r) PROVE RoomCommand!BackOrAway(d)
  <2>1. PICK notOn : notOn = ({e \in RoomCommand!Devices : cmd[r].wish[e] # None}
                              \ RoomCommand!Changed(r)) \cup cmd[r].missing
    OBVIOUS
  <2>2. /\ cmd[r].act = "turn_on" /\ cmd[r].step = "record" /\ cmd[r].source = "capture"
        /\ capture' = IF RoomCommand!HeldIds \cap notOn = {} THEN None
                      ELSE [capture EXCEPT !.level =
                              [e \in RoomCommand!Devices |-> IF e \in notOn THEN @[e] ELSE None]]
    BY <1>3, <1>6, <2>1 DEF RoomCommand!RecordOn, RoomCommand!Kept, RoomCommand!At
  <2>3. d \notin notOn
    <3> SUFFICES ASSUME d \in notOn PROVE FALSE
      OBVIOUS
    <3>1. capture' = [capture EXCEPT !.level =
                        [e \in RoomCommand!Devices |-> IF e \in notOn THEN @[e] ELSE None]]
      BY <1>2, <2>2
    <3>2. capture'.level[d] = capture.level[d]
      BY <1>1, <3>1 DEF RoomCommand!Capture
    <3>3. capture' \in RoomCommand!Capture \cup {None} /\ capture' \in RoomCommand!Capture
      BY <1>1, <3>1 DEF RoomCommand!Capture
    <3> QED  BY <1>1, <3>2, <3>3 DEF RoomCommand!Held
  <2>4. cmd[r].wish[d] # None \/ cmd[r].seen[d] \notin {None, "off", "gone"}
    BY <2>1, <2>2, <2>3 DEF CommandInv, Carried, Switches
  <2>5. CASE cmd[r].wish[d] # None
    <3>1. d \in RoomCommand!Changed(r)
      BY <2>1, <2>3, <2>5
    <3>2. state[d] \in RoomCommand!Levels
      BY <2>2, <3>1, ChangedWished
    <3> QED  BY <3>2 DEF RoomCommand!BackOrAway
  <2> QED  BY <2>4, <2>5 DEF RoomCommand!BackOrAway
<1>7. ~RoomCommand!Tick
  <2> SUFFICES ASSUME RoomCommand!Tick PROVE FALSE
    OBVIOUS
  <2>1. capture' = [capture EXCEPT !.age = RoomCommand!Older(@)]
    BY <1>1 DEF RoomCommand!Tick
  <2>2. capture'.level = capture.level
    BY <1>1, <2>1 DEF RoomCommand!Capture
  <2>3. capture' # None
    BY <1>1, <2>1 DEF RoomCommand!Capture, RoomCommand!Older, RoomCommand!Ages
  <2> QED  BY <1>1, <2>2, <2>3 DEF RoomCommand!Held
<1>8. ~ \E e \in RoomCommand!Devices : RoomCommand!DeviceChanges(e)
  BY <1>3 DEF RoomCommand!DeviceChanges, RoomCommand!Store
<1>9. ASSUME NEW r \in Requests
      PROVE  ~( \/ RoomCommand!Ask(r) \/ RoomCommand!TakeLock(r) \/ RoomCommand!Reply(r)
                \/ RoomCommand!Proceed(r) \/ RoomCommand!LookOff(r) \/ RoomCommand!LookOn(r)
                \/ RoomCommand!SwitchLights(r) \/ RoomCommand!SwitchAcs(r)
                \/ RoomCommand!Save(r) \/ RoomCommand!Cancel(r))
  BY <1>3 DEF RoomCommand!Ask, RoomCommand!TakeLock, RoomCommand!Reply, RoomCommand!Proceed,
     RoomCommand!LookOff, RoomCommand!LookOn, RoomCommand!SwitchLights, RoomCommand!SwitchAcs,
     RoomCommand!Switch, RoomCommand!Save, RoomCommand!Cancel, RoomCommand!Store
<1> QED  BY <1>4, <1>5, <1>6, <1>7, <1>8, <1>9 DEF RoomCommand!Next

LEMMA CommandAnswers == CommandInv => RoomCommand!TypeOK /\ RoomCommand!AnsweredOnce
BY DEF CommandInv, CommandTypes, Locked, RoomCommand!AnsweredOnce

LEMMA CommandsStart == RoomsInit => (part = "commands" => CommandInv)
BY CommandStarts DEF RoomsInit

(* A step of the composition is one of the commands, or leaves them alone. *)
LEMMA CommandsStep ==
    ASSUME [RoomsNext]_roomsVars, part = "commands"
    PROVE  part' = "commands" /\ (RoomCommand!Next \/ UNCHANGED RoomCommand!vars)
BY DEF RoomsNext, roomsVars, commandVars, RoomCommand!vars

LEMMA CommandsKept ==
    (part = "commands" => CommandInv) /\ [RoomsNext]_roomsVars => (part = "commands" => CommandInv)'
<1> SUFFICES ASSUME part = "commands" => CommandInv, [RoomsNext]_roomsVars, part' = "commands"
             PROVE  CommandInv'
  OBVIOUS
<1>1. part = "commands"
  BY DEF RoomsNext, roomsVars
<1> QED  BY <1>1, CommandsStep, CommandKept

(* For any taps and devices: whatever the two listeners do at once, and whoever *)
(* gives up, a command whose answer is stored is not carried out again.         *)
THEOREM TapsAnsweredOnce == RoomsSpec => []AnsweredOnce
<1>1. (part = "commands" => CommandInv) => AnsweredOnce
  BY CommandAnswers DEF AnsweredOnce
<1> QED  BY <1>1, CommandsStart, CommandsKept, PTL DEF RoomsSpec

(* For any taps and devices: an AC comes on only as the room's last off took it, *)
(* and what an off took stays captured until it is back or too old.              *)
THEOREM TapsRestore == RoomsSpec => TapRestores
<1>1. (part = "commands" => CommandInv) /\ [RoomsNext]_roomsVars =>
        [part = "commands" => RoomCommand!AcNotGuessed /\ RoomCommand!CaptureStays]_roomsVars
  <2> SUFFICES ASSUME CommandInv, RoomsNext, part = "commands"
               PROVE  RoomCommand!AcNotGuessed /\ RoomCommand!CaptureStays
    OBVIOUS
  <2>1. RoomCommand!Next
    BY DEF RoomsNext
  <2> QED  BY <2>1, AcsNotGuessed, CapturesStay
<1> QED  BY <1>1, CommandsStart, CommandsKept, PTL DEF RoomsSpec, TapRestores

-----------------------------------------------------------------------------
(* The registry (Registry). *)

(* Nothing is in a room, on a floor or with a tag that is gone; the mirror is   *)
(* behind for what was removed, and nobody has put that anywhere else.          *)
Homes == {Area, New, Nowhere, Unset}
HouseInv ==
    /\ floor \in {"none", "here", "gone"} /\ made \in BOOLEAN
    /\ rooms \subseteq {Area, New} /\ onFloor \subseteq rooms
    /\ onFloor # {} => floor = "here"
    /\ tags \in [Tags -> SUBSET rooms]
    /\ \A t, u \in Tags : t # u => tags[t] \cap tags[u] = {}
    /\ assigned \in [Ents -> Homes] /\ \A e \in Ents : assigned[e] \in rooms \cup {Nowhere, Unset}
    /\ mirror \in [Ents -> Homes] /\ late \subseteq Ents
    /\ \A e \in Ents : IF e \in late THEN assigned[e] = Unset ELSE mirror[e] = assigned[e]

(* No entity is two devices'. *)
Grabs(p) == p.controls \cup p.config
DevicesInv ==
    /\ devs \in [Devs -> Registry!Records \cup {None}]
    /\ \A d, o \in Devs : d # o /\ devs[d] # None /\ devs[o] # None =>
         Grabs(devs[d]) \cap Grabs(devs[o]) = {}

(* A key without a live receipt has moved nothing since it had one. *)
ReceiptsInv ==
    /\ receipt \in [Keys -> {"none", "live", "old"}] /\ moves \in [Keys -> {0, 1}]
    /\ \A k \in Keys : receipt[k] # "live" => moves[k] = 0

RegistryInv == HouseInv /\ DevicesInv /\ ReceiptsInv

LEMMA RegistryTyped ==
    RegistryInv => /\ Registry!TypeOK /\ Registry!Orderly /\ Registry!MirrorFollows
                   /\ Registry!MovedOnce
<1> SUFFICES ASSUME RegistryInv
             PROVE  /\ Registry!TypeOK /\ Registry!Orderly /\ Registry!MirrorFollows
                    /\ Registry!MovedOnce
  OBVIOUS
<1> USE DEF RegistryInv
<1>1. Registry!TypeOK
  <2>1. /\ floor \in {"none", "here", "gone"} /\ made \in BOOLEAN
        /\ rooms \subseteq Registry!Rooms /\ onFloor \subseteq Registry!Rooms
        /\ tags \in [Tags -> SUBSET Registry!Rooms] /\ late \subseteq Ents
    BY DEF HouseInv, Registry!Rooms
  <2>2. {assigned, mirror} \subseteq [Ents -> Registry!Rooms \cup {Nowhere, Unset}]
    BY DEF HouseInv, Registry!Rooms, Homes
  <2>3. \A d \in Devs : devs[d] = None \/ devs[d] \in Registry!Records
    BY DEF DevicesInv
  <2>4. receipt \in [Keys -> {"none", "live", "old"}] /\ moves \in [Keys -> 0 .. 2]
    BY DEF ReceiptsInv
  <2> QED  BY <2>1, <2>2, <2>3, <2>4 DEF Registry!TypeOK
<1>2. \A d \in Devs : devs[d] # None =>
        ~Registry!GrabbedElsewhere(d, devs[d].controls \cup devs[d].config)
  BY DEF DevicesInv, Grabs, Registry!GrabbedElsewhere
<1>3. Registry!Orderly
  BY <1>2 DEF HouseInv, Registry!Orderly
<1>4. Registry!MirrorFollows /\ Registry!MovedOnce
  BY DEF HouseInv, ReceiptsInv, Registry!MirrorFollows, Registry!MovedOnce
<1> QED  BY <1>1, <1>3, <1>4

LEMMA RegistryStarts == Registry!Init => RegistryInv
<1> SUFFICES ASSUME Registry!Init PROVE RegistryInv
  OBVIOUS
<1>1. HouseInv
  BY DEF Registry!Init, HouseInv, Homes
<1>2. DevicesInv
  BY DEF Registry!Init, DevicesInv
<1>3. ReceiptsInv
  BY DEF Registry!Init, ReceiptsInv
<1> QED  BY <1>1, <1>2, <1>3 DEF RegistryInv

(* What changes what: the house, the devices, the receipts. *)
HouseStays == UNCHANGED <<floor, rooms, made, onFloor, assigned, mirror, late, tags>>
ReceiptsStay == UNCHANGED <<receipt, moves>>

LEMMA RegistryApart ==
    /\ RegistryInv /\ HouseStays => HouseInv'
    /\ RegistryInv /\ UNCHANGED devs => DevicesInv'
    /\ RegistryInv /\ ReceiptsStay => ReceiptsInv'
<1>1. RegistryInv /\ HouseStays => HouseInv'
  BY DEF RegistryInv, HouseStays, HouseInv
<1>2. RegistryInv /\ UNCHANGED devs => DevicesInv'
  BY DEF RegistryInv, DevicesInv
<1>3. RegistryInv /\ ReceiptsStay => ReceiptsInv'
  BY DEF RegistryInv, ReceiptsStay, ReceiptsInv
<1> QED  BY <1>1, <1>2, <1>3

(* The house. *)
LEMMA FloorsKept ==
    ASSUME RegistryInv, Registry!CreateFloor \/ Registry!DeleteFloor \/ Registry!CreateRoom
                        \/ \E r \in Registry!Rooms : Registry!UpdateRoom(r)
    PROVE  RegistryInv'
<1> USE RegistryApart DEF RegistryInv, HouseInv, Registry!entities, Registry!moving, ReceiptsStay
<1>1. CASE Registry!CreateFloor
  BY <1>1 DEF Registry!CreateFloor
<1>2. CASE Registry!DeleteFloor
  BY <1>2 DEF Registry!DeleteFloor
<1>3. CASE Registry!CreateRoom
  BY <1>3 DEF Registry!CreateRoom
<1>4. CASE \E r \in Registry!Rooms : Registry!UpdateRoom(r)
  BY <1>4 DEF Registry!UpdateRoom
<1> QED  BY <1>1, <1>2, <1>3, <1>4

LEMMA TagsKept ==
    ASSUME RegistryInv, NEW t \in Tags, Registry!SetTag(t) \/ Registry!DeleteTag(t)
    PROVE  RegistryInv'
<1> USE DEF Registry!entities, Registry!moving, Registry!places
<1>1. UNCHANGED <<floor, rooms, made, onFloor, assigned, mirror, late, devs, receipt, moves>>
  BY DEF Registry!SetTag, Registry!DeleteTag
<1>2. PICK s \in SUBSET rooms : tags' \in {[u \in Tags |-> IF u = t THEN s ELSE tags[u] \ s],
                                           [tags EXCEPT ![t] = {}]}
  BY DEF Registry!SetTag, Registry!DeleteTag, RegistryInv, HouseInv
<1>3. tags' \in [Tags -> SUBSET rooms] /\ \A u, v \in Tags : u # v => tags'[u] \cap tags'[v] = {}
  <2>1. CASE tags' = [u \in Tags |-> IF u = t THEN s ELSE tags[u] \ s]
    BY <2>1 DEF RegistryInv, HouseInv
  <2>2. CASE tags' = [tags EXCEPT ![t] = {}]
    BY <2>2 DEF RegistryInv, HouseInv
  <2> QED  BY <1>2, <2>1, <2>2
<1>4. HouseInv'
  BY <1>1, <1>3 DEF RegistryInv, HouseInv
<1> QED  BY <1>1, <1>4, RegistryApart DEF RegistryInv, ReceiptsStay

LEMMA AssignmentsKept ==
    ASSUME RegistryInv, NEW e \in Ents,
           \/ Registry!Pin(e) \/ Registry!Assign(e)
           \/ Registry!RemoveAssignment(e) \/ Registry!RemovalMirrored(e)
    PROVE  RegistryInv'
<1> USE DEF Registry!moving, Registry!places, Registry!Settled
<1>1. UNCHANGED <<floor, rooms, made, onFloor, tags, devs, receipt, moves>>
  BY DEF Registry!Pin, Registry!Assign, Registry!RemoveAssignment, Registry!RemovalMirrored
<1>2. PICK p \in Homes :
        \/ /\ p \in rooms \cup {Nowhere} /\ e \notin late /\ late' = late
           /\ assigned' = [assigned EXCEPT ![e] = p] /\ mirror' = [mirror EXCEPT ![e] = p]
        \/ /\ p = Unset /\ late' = late \cup {e} /\ mirror' = mirror
           /\ assigned' = [assigned EXCEPT ![e] = p]
        \/ /\ p = Unset /\ e \in late /\ late' = late \ {e} /\ assigned' = assigned
           /\ mirror' = [mirror EXCEPT ![e] = p]
  <2>1. CASE Registry!Pin(e)
    BY <2>1 DEF Registry!Pin, Homes
  <2>2. CASE Registry!Assign(e)
    BY <2>2 DEF Registry!Assign, Homes, RegistryInv, HouseInv
  <2>3. CASE Registry!RemoveAssignment(e)
    BY <2>3 DEF Registry!RemoveAssignment, Homes
  <2>4. CASE Registry!RemovalMirrored(e)
    BY <2>4 DEF Registry!RemovalMirrored, Homes
  <2> QED  BY <2>1, <2>2, <2>3, <2>4
<1>3. /\ assigned' \in [Ents -> Homes] /\ mirror' \in [Ents -> Homes] /\ late' \subseteq Ents
      /\ \A f \in Ents : assigned'[f] \in rooms \cup {Nowhere, Unset}
      /\ \A f \in Ents : IF f \in late' THEN assigned'[f] = Unset ELSE mirror'[f] = assigned'[f]
  BY <1>2 DEF RegistryInv, HouseInv
<1>4. HouseInv'
  BY <1>1, <1>3 DEF RegistryInv, HouseInv
<1> QED  BY <1>1, <1>4, RegistryApart DEF RegistryInv, ReceiptsStay

LEMMA RoomsDeleted == ASSUME RegistryInv, Registry!DeleteRoom PROVE RegistryInv'
<1> USE DEF Registry!moving
<1>1. CASE deletion.room \notin rooms
  <2>1. HouseStays /\ UNCHANGED devs /\ ReceiptsStay
    BY <1>1 DEF Registry!DeleteRoom, HouseStays, ReceiptsStay
  <2> QED  BY <2>1, RegistryApart DEF RegistryInv
<1>2. CASE deletion.room \in rooms
  <2>1. PICK r \in rooms : r = deletion.room
    BY <1>2
  <2>2. Registry!WithoutRoom(r) /\ UNCHANGED <<floor, made, late, receipt, moves>>
    BY <1>2, <2>1 DEF Registry!DeleteRoom
  <2>3. r \in {Area, New} /\ r \notin {Unset, Nowhere}
    BY RegistryAssumption DEF RegistryInv, HouseInv
  <2>4. /\ assigned' \in [Ents -> Homes] /\ mirror' \in [Ents -> Homes]
        /\ \A e \in Ents : assigned'[e] \in rooms' \cup {Nowhere, Unset}
        /\ \A e \in Ents : IF e \in late THEN assigned'[e] = Unset ELSE mirror'[e] = assigned'[e]
    BY <2>2, <2>3 DEF Registry!WithoutRoom, Registry!Vacated, RegistryInv, HouseInv, Homes
  <2>5. /\ rooms' \subseteq {Area, New} /\ onFloor' \subseteq rooms' /\ (onFloor' # {} => floor = "here")
        /\ tags' \in [Tags -> SUBSET rooms'] /\ \A t, u \in Tags : t # u => tags'[t] \cap tags'[u] = {}
    BY <2>2 DEF Registry!WithoutRoom, RegistryInv, HouseInv
  <2>6. HouseInv'
    BY <2>2, <2>4, <2>5 DEF RegistryInv, HouseInv
  <2>7. ASSUME NEW d \in Devs, devs[d] # None
        PROVE  devs'[d] \in Registry!Records /\ Grabs(devs'[d]) = Grabs(devs[d])
    <3>1. devs[d] \in Registry!Records /\ devs'[d] = [devs[d] EXCEPT !.gang = Registry!VacatedGang(@, r)]
      BY <2>2, <2>7 DEF Registry!WithoutRoom, RegistryInv, DevicesInv
    <3>2. devs[d].gang \in Registry!Gangs \cup {None}
      BY <3>1 DEF Registry!Records
    <3>3. Registry!VacatedGang(devs[d].gang, r) \in Registry!Gangs \cup {None}
      BY <3>2 DEF Registry!VacatedGang, Registry!Gangs
    <3> QED  BY <3>1, <3>3 DEF Registry!Records, Grabs
  <2>8. \A d \in Devs : devs[d] = None => devs'[d] = None
    BY <2>2 DEF Registry!WithoutRoom
  <2>9. devs' \in [Devs -> Registry!Records \cup {None}]
    <3>1. devs' = [d \in Devs |-> devs'[d]]
      BY <2>2 DEF Registry!WithoutRoom
    <3> QED  BY <2>7, <2>8, <3>1
  <2>10. DevicesInv'
    BY <2>7, <2>8, <2>9 DEF RegistryInv, DevicesInv
  <2>11. ReceiptsInv'
    BY <2>2, RegistryApart DEF ReceiptsStay
  <2> QED  BY <2>6, <2>10, <2>11 DEF RegistryInv
<1> QED  BY <1>1, <1>2

(* A device is a record that grabs what none of the others does, or is gone. *)
LEMMA DeviceChanged ==
    ASSUME RegistryInv, NEW d \in Devs, NEW p \in Registry!Records \cup {None},
           devs' = [devs EXCEPT ![d] = p],
           p # None => \A o \in Devs \ {d} : devs[o] # None => Grabs(devs[o]) \cap Grabs(p) = {}
    PROVE  DevicesInv'
BY DEF RegistryInv, DevicesInv

LEMMA GangsTyped ==
    /\ GangPayloads \subseteq Registry!Gangs \cup {None}
    /\ Payloads \subseteq Registry!Records
    /\ None \notin Registry!Gangs /\ None \notin Registry!Records
BY RegistryAssumption DEF Registry!Gangs, Registry!Records, Registry!Rooms

LEMMA GangRetained ==
    ASSUME NEW d, NEW g \in Registry!Gangs \cup {None}
    PROVE  /\ Registry!Retained(d, g) \in Registry!Gangs \cup {None}
           /\ (g = None) <=> (Registry!Retained(d, g) = None)
           /\ g # None /\ devs[d] # None /\ devs[d].gang # None /\ devs[d].gang.own =>
                Registry!Retained(d, g).own
BY GangsTyped DEF Registry!Retained, Registry!Gangs

LEMMA DevicesKept ==
    ASSUME RegistryInv, NEW d \in Devs,
           \/ Registry!Upsert(d) \/ Registry!PatchControls(d) \/ Registry!PatchGangs(d)
           \/ Registry!SetGang(d) \/ Registry!DeleteDevice(d)
    PROVE  RegistryInv'
<1>1. UNCHANGED <<floor, rooms, made, onFloor, assigned, mirror, late, tags, receipt, moves>>
  BY DEF Registry!Upsert, Registry!PatchControls, Registry!PatchGangs, Registry!SetGang,
     Registry!DeleteDevice, Registry!places, Registry!entities, Registry!moving
<1>2. HouseInv' /\ ReceiptsInv'
  BY <1>1, RegistryApart DEF HouseStays, ReceiptsStay
<1>3. /\ devs \in [Devs -> Registry!Records \cup {None}]
      /\ \A o \in Devs \ {d} : devs[o] # None /\ devs[d] # None => Grabs(devs[o]) \cap Grabs(devs[d]) = {}
  BY DEF RegistryInv, DevicesInv
<1>4. CASE Registry!Upsert(d)
  <2>1. PICK p \in Payloads :
          /\ ~Registry!GrabbedElsewhere(d, p.controls \cup p.config)
          /\ devs' = [devs EXCEPT ![d] =
                        [p EXCEPT !.gang = Registry!Retained(d, Registry!Backed(@, p.controls))]]
    BY <1>4 DEF Registry!Upsert
  <2>2. p \in Registry!Records /\ Registry!Backed(p.gang, p.controls) \in Registry!Gangs \cup {None}
    BY GangsTyped DEF Registry!Records, Registry!Backed
  <2>3. PICK q : q = [p EXCEPT !.gang = Registry!Retained(d, Registry!Backed(@, p.controls))]
    OBVIOUS
  <2>4. q \in Registry!Records /\ Grabs(q) = Grabs(p)
    BY <2>2, <2>3, GangRetained DEF Registry!Records, Grabs
  <2>5. \A o \in Devs \ {d} : devs[o] # None => Grabs(devs[o]) \cap Grabs(q) = {}
    BY <2>1, <2>4 DEF Registry!GrabbedElsewhere, Grabs
  <2>6. DevicesInv'
    BY <2>1, <2>3, <2>4, <2>5, DeviceChanged
  <2> QED  BY <1>2, <2>6 DEF RegistryInv
<1>5. CASE Registry!PatchControls(d)
  <2>1. PICK cs \in SUBSET Ents :
          /\ ~Registry!GrabbedElsewhere(d, cs \cup devs[d].config)
          /\ devs' = [devs EXCEPT ![d] = [devs[d] EXCEPT !.controls = cs]]
    BY <1>3, <1>5 DEF Registry!PatchControls
  <2>2. devs[d] \in Registry!Records
    BY <1>3, <1>5 DEF Registry!PatchControls
  <2>3. PICK q : q = [devs[d] EXCEPT !.controls = cs]
    OBVIOUS
  <2>4. q \in Registry!Records /\ Grabs(q) = cs \cup devs[d].config
    BY <2>2, <2>3 DEF Registry!Records, Grabs
  <2>5. \A o \in Devs \ {d} : devs[o] # None => Grabs(devs[o]) \cap Grabs(q) = {}
    BY <2>1, <2>4 DEF Registry!GrabbedElsewhere, Grabs
  <2>6. DevicesInv'
    BY <2>1, <2>3, <2>4, <2>5, DeviceChanged
  <2> QED  BY <1>2, <2>6 DEF RegistryInv
<1>6. CASE Registry!PatchGangs(d) \/ Registry!SetGang(d)
  <2>1. devs[d] # None /\ devs[d] \in Registry!Records
    BY <1>3, <1>6 DEF Registry!PatchGangs, Registry!SetGang
  <2>2. PICK g \in Registry!Gangs \cup {None} : devs' = [devs EXCEPT ![d] = [devs[d] EXCEPT !.gang = g]]
    <3>1. CASE Registry!PatchGangs(d)
      <4>1. PICK g \in GangPayloads :
              devs' = [devs EXCEPT ![d].gang = Registry!Backed(Registry!Retained(d, g), devs[d].controls)]
        BY <3>1 DEF Registry!PatchGangs
      <4>2. Registry!Backed(Registry!Retained(d, g), devs[d].controls) \in Registry!Gangs \cup {None}
        BY GangsTyped, GangRetained DEF Registry!Backed
      <4> QED  BY <1>3, <4>1, <4>2
    <3>2. CASE Registry!SetGang(d)
      <4>1. devs[d].gang \in Registry!Gangs
        BY <2>1, <3>2 DEF Registry!SetGang, Registry!Records
      <4>2. PICK g : /\ \/ g = [devs[d].gang EXCEPT !.solo = ~@]
                        \/ \E r \in Registry!Rooms \cup {Nowhere} :
                             g = [devs[d].gang EXCEPT !.room = r, !.own = TRUE]
                     /\ devs' = [devs EXCEPT ![d] = [devs[d] EXCEPT !.gang = g]]
        BY <1>3, <2>1, <3>2 DEF Registry!SetGang, Registry!Records
      <4>3. g \in Registry!Gangs
        BY <4>1, <4>2 DEF Registry!Gangs
      <4> QED  BY <4>2, <4>3
    <3> QED  BY <1>6, <3>1, <3>2
  <2>3. PICK q : q = [devs[d] EXCEPT !.gang = g]
    OBVIOUS
  <2>4. q \in Registry!Records /\ Grabs(q) = Grabs(devs[d])
    BY <2>1, <2>3 DEF Registry!Records, Grabs
  <2>5. DevicesInv'
    BY <1>3, <2>1, <2>2, <2>3, <2>4, DeviceChanged
  <2> QED  BY <1>2, <2>5 DEF RegistryInv
<1>7. CASE Registry!DeleteDevice(d)
  <2>1. devs' = [devs EXCEPT ![d] = None]
    BY <1>7 DEF Registry!DeleteDevice
  <2>2. DevicesInv'
    BY <2>1, DeviceChanged
  <2> QED  BY <1>2, <2>2 DEF RegistryInv
<1> QED  BY <1>4, <1>5, <1>6, <1>7

(* A gang that is put somewhere has a place of its own from then on. *)
LEMMA GangMoved ==
    ASSUME RegistryInv, NEW d \in Devs, devs[d] # None, devs[d].gang # None,
           NEW to \in rooms \cup {Nowhere},
           devs' = [devs EXCEPT ![d].gang.room = to, ![d].gang.own = TRUE]
    PROVE  DevicesInv' /\ devs'[d].gang.own
<1>1. devs \in [Devs -> Registry!Records \cup {None}] /\ devs[d] \in Registry!Records
  BY DEF RegistryInv, DevicesInv
<1>2. devs[d].gang \in Registry!Gangs
  BY <1>1 DEF Registry!Records
<1>3. PICK g : g = [devs[d].gang EXCEPT !.room = to, !.own = TRUE]
  OBVIOUS
<1>4. g \in Registry!Gangs /\ g.own
  BY <1>2, <1>3 DEF Registry!Gangs, Registry!Rooms, RegistryInv, HouseInv
<1>5. PICK q : q = [devs[d] EXCEPT !.gang = g]
  OBVIOUS
<1>6. q \in Registry!Records /\ Grabs(q) = Grabs(devs[d]) /\ q.gang = g
  BY <1>1, <1>4, <1>5 DEF Registry!Records, Grabs
<1>7. devs' = [devs EXCEPT ![d] = q]
  BY <1>1, <1>3, <1>5 DEF Registry!Records
<1>8. \A o \in Devs \ {d} : devs[o] # None => Grabs(devs[o]) \cap Grabs(q) = {}
  BY <1>6 DEF RegistryInv, DevicesInv
<1>9. DevicesInv'
  BY <1>6, <1>7, <1>8, DeviceChanged
<1> QED  BY <1>1, <1>4, <1>6, <1>7, <1>9

LEMMA ReceiptWritten ==
    ASSUME RegistryInv, NEW k \in Keys, Registry!Move(k) PROVE ReceiptsInv'
<1>1. /\ receipt[k] # "live"
      /\ receipt' = [j \in Keys |-> IF j = k \/ j \in Registry!Remaining(k) THEN "live" ELSE "none"]
      /\ moves' = [j \in Keys |-> IF j = k THEN moves[k] + 1
                                  ELSE IF j \in Registry!Remaining(k) THEN moves[j] ELSE 0]
  BY DEF Registry!Move, Registry!WriteReceipt
<1>2. moves \in [Keys -> {0, 1}] /\ moves[k] = 0
  BY <1>1 DEF RegistryInv, ReceiptsInv
<1>3. receipt' \in [Keys -> {"none", "live", "old"}]
  BY <1>1
<1>4. moves' \in [Keys -> {0, 1}]
  BY <1>1, <1>2
<1>5. \A j \in Keys : receipt'[j] # "live" => moves'[j] = 0
  BY <1>1
<1> QED  BY <1>3, <1>4, <1>5 DEF ReceiptsInv

LEMMA MovesKept == ASSUME RegistryInv, NEW k \in Keys, Registry!Move(k) PROVE RegistryInv'
<1> USE DEF Registry!places, Registry!entities
<1>1. PICK m : m = sent[k].move
  OBVIOUS
<1>2. UNCHANGED <<floor, rooms, made, onFloor, tags>> /\ m.to \in rooms \cup {Nowhere} /\ Registry!Movable(m)
  BY <1>1 DEF Registry!Move
<1>3. CASE m.solo
  <2>1. devs' = [devs EXCEPT ![m.dev].gang.room = m.to, ![m.dev].gang.own = TRUE]
        /\ HouseStays /\ devs[m.dev] # None /\ devs[m.dev].gang # None
    BY <1>1, <1>2, <1>3 DEF Registry!Move, Registry!Movable, HouseStays
  <2>2. CASE m.dev \in Devs
    <3>1. DevicesInv'
      BY <1>2, <2>1, <2>2, GangMoved
    <3> QED  BY <2>1, <3>1, ReceiptWritten, RegistryApart DEF RegistryInv
  <2>3. CASE m.dev \notin Devs
    <3>1. UNCHANGED devs
      BY <2>1, <2>3 DEF RegistryInv, DevicesInv
    <3> QED  BY <2>1, <3>1, ReceiptWritten, RegistryApart DEF RegistryInv
  <2> QED  BY <2>2, <2>3
<1>4. CASE ~m.solo
  <2>1. PICK moved : moved = Registry!Concerns(m)
    OBVIOUS
  <2>2. /\ moved \cap late = {} /\ late' = late /\ devs' = devs
        /\ assigned' = [e \in Ents |-> IF e \in moved THEN m.to ELSE assigned[e]]
        /\ mirror' = [e \in Ents |-> IF e \in moved THEN m.to ELSE mirror[e]]
    BY <1>1, <1>4, <2>1 DEF Registry!Move, Registry!Settled
  <2>3. m.to \in Homes
    BY <1>2 DEF Homes, RegistryInv, HouseInv
  <2>4. /\ assigned' \in [Ents -> Homes] /\ mirror' \in [Ents -> Homes]
        /\ \A e \in Ents : assigned'[e] \in rooms \cup {Nowhere, Unset}
        /\ \A e \in Ents : IF e \in late THEN assigned'[e] = Unset ELSE mirror'[e] = assigned'[e]
    BY <1>2, <2>2, <2>3 DEF RegistryInv, HouseInv
  <2>5. HouseInv'
    BY <1>2, <2>2, <2>4 DEF RegistryInv, HouseInv
  <2> QED  BY <2>2, <2>5, ReceiptWritten, RegistryApart DEF RegistryInv
<1> QED  BY <1>3, <1>4

LEMMA RegistryKept == RegistryInv /\ [Registry!Next]_(Registry!vars) => RegistryInv'
<1> SUFFICES ASSUME RegistryInv, [Registry!Next]_(Registry!vars) PROVE RegistryInv'
  OBVIOUS
<1> USE DEF Registry!places, Registry!entities, Registry!moving
<1>1. CASE Registry!RoomDeleted \/ (\E r \in Registry!Rooms : Registry!DeleteAsked(r))
           \/ (\E k \in Keys, d \in Devs : Registry!Review(k, d)) \/ UNCHANGED Registry!vars
  <2>1. HouseStays /\ UNCHANGED devs /\ ReceiptsStay
    BY <1>1 DEF Registry!RoomDeleted, Registry!DeleteAsked, Registry!Review, Registry!vars,
                HouseStays, ReceiptsStay
  <2> QED  BY <2>1, RegistryApart DEF RegistryInv
<1>2. ASSUME NEW k \in Keys, Registry!ReceiptExpires(k) PROVE RegistryInv'
  <2>1. HouseStays /\ UNCHANGED devs
    BY <1>2 DEF Registry!ReceiptExpires, HouseStays
  <2>2. ReceiptsInv'
    BY <1>2 DEF Registry!ReceiptExpires, RegistryInv, ReceiptsInv
  <2> QED  BY <2>1, <2>2, RegistryApart DEF RegistryInv
<1>3. CASE Registry!Restart
  <2>1. HouseInv'
    BY <1>3 DEF Registry!Restart, RegistryInv, HouseInv
  <2>2. UNCHANGED devs /\ ReceiptsStay
    BY <1>3 DEF Registry!Restart, ReceiptsStay
  <2> QED  BY <2>1, <2>2, RegistryApart DEF RegistryInv
<1>4. CASE Registry!CreateFloor \/ Registry!DeleteFloor \/ Registry!CreateRoom
           \/ \E r \in Registry!Rooms : Registry!UpdateRoom(r)
  BY <1>4, FloorsKept
<1>5. CASE \E t \in Tags : Registry!SetTag(t) \/ Registry!DeleteTag(t)
  BY <1>5, TagsKept
<1>6. CASE \E e \in Ents : \/ Registry!Pin(e) \/ Registry!Assign(e)
                           \/ Registry!RemoveAssignment(e) \/ Registry!RemovalMirrored(e)
  BY <1>6, AssignmentsKept
<1>7. CASE \E d \in Devs : \/ Registry!Upsert(d) \/ Registry!PatchControls(d) \/ Registry!PatchGangs(d)
                           \/ Registry!SetGang(d) \/ Registry!DeleteDevice(d)
  BY <1>7, DevicesKept
<1>8. CASE Registry!DeleteRoom
  BY <1>8, RoomsDeleted
<1>9. CASE \E k \in Keys : Registry!Move(k)
  BY <1>9, MovesKept
<1> QED
  BY <1>1, <1>2, <1>3, <1>4, <1>5, <1>6, <1>7, <1>8, <1>9 DEF Registry!Next

(* No step takes the place of its own from a gang, but with the device. *)
LEMMA OverridesKept == ASSUME RegistryInv, Registry!Next PROVE Registry!OverridesStay
<1> SUFFICES ASSUME NEW d \in Devs, devs[d] # None, devs'[d] # None, devs[d].gang # None,
                    devs'[d].gang # None, devs[d].gang.own
             PROVE  devs'[d].gang.own
  BY DEF Registry!OverridesStay
<1>1. devs \in [Devs -> Registry!Records \cup {None}] /\ devs[d] \in Registry!Records
      /\ devs[d].gang \in Registry!Gangs
  BY DEF RegistryInv, DevicesInv, Registry!Records
<1>2. CASE devs'[d] = devs[d]
  BY <1>2
<1>3. CASE Registry!DeleteRoom /\ devs'[d] # devs[d]
  <2>1. devs'[d] = [devs[d] EXCEPT !.gang = Registry!VacatedGang(@, deletion.room)]
    BY <1>3 DEF Registry!DeleteRoom, Registry!WithoutRoom
  <2>2. devs'[d].gang = Registry!VacatedGang(devs[d].gang, deletion.room)
    BY <1>1, <2>1 DEF Registry!Records
  <2> QED  BY <1>1, <2>2 DEF Registry!VacatedGang, Registry!Gangs
<1>4. ASSUME Registry!Upsert(d) PROVE devs'[d].gang.own
  <2>1. PICK p \in Payloads : devs' = [devs EXCEPT ![d] =
                [p EXCEPT !.gang = Registry!Retained(d, Registry!Backed(@, p.controls))]]
    BY <1>4 DEF Registry!Upsert
  <2>2. p \in Registry!Records /\ Registry!Backed(p.gang, p.controls) \in Registry!Gangs \cup {None}
    BY GangsTyped DEF Registry!Records, Registry!Backed
  <2>3. devs'[d].gang = Registry!Retained(d, Registry!Backed(p.gang, p.controls))
    BY <1>1, <2>1, <2>2 DEF Registry!Records
  <2> QED  BY <2>2, <2>3, GangRetained
<1>5. ASSUME Registry!PatchControls(d) PROVE devs'[d].gang.own
  <2>1. PICK cs : devs' = [devs EXCEPT ![d].controls = cs]
    BY <1>5 DEF Registry!PatchControls
  <2> QED  BY <1>1, <2>1 DEF Registry!Records
<1>6. ASSUME Registry!PatchGangs(d) PROVE devs'[d].gang.own
  <2>1. PICK g \in GangPayloads :
          devs' = [devs EXCEPT ![d].gang = Registry!Backed(Registry!Retained(d, g), devs[d].controls)]
    BY <1>6 DEF Registry!PatchGangs
  <2>2. devs'[d].gang = Registry!Backed(Registry!Retained(d, g), devs[d].controls)
    BY <1>1, <2>1 DEF Registry!Records
  <2>3. devs'[d].gang = Registry!Retained(d, g)
    BY <2>2 DEF Registry!Backed
  <2> QED  BY <2>3, GangsTyped, GangRetained
<1>7. ASSUME Registry!SetGang(d) PROVE devs'[d].gang.own
  <2>1. CASE devs' = [devs EXCEPT ![d].gang.solo = ~@]
    BY <1>1, <2>1 DEF Registry!Records, Registry!Gangs
  <2>2. CASE \E r \in Registry!Rooms \cup {Nowhere} :
               devs' = [devs EXCEPT ![d].gang.room = r, ![d].gang.own = TRUE]
    BY <1>1, <2>2 DEF Registry!Records, Registry!Gangs
  <2> QED  BY <1>7, <2>1, <2>2 DEF Registry!SetGang
<1>8. ~Registry!DeleteDevice(d)
  BY <1>1 DEF Registry!DeleteDevice
<1>9. ASSUME NEW o \in Devs \ {d},
             \/ Registry!Upsert(o) \/ Registry!PatchControls(o) \/ Registry!PatchGangs(o)
             \/ Registry!SetGang(o) \/ Registry!DeleteDevice(o)
      PROVE  devs'[d] = devs[d]
  BY <1>1, <1>9 DEF Registry!Upsert, Registry!PatchControls, Registry!PatchGangs, Registry!SetGang,
     Registry!DeleteDevice
<1>10. ASSUME NEW k \in Keys, Registry!Move(k), devs'[d] # devs[d] PROVE devs'[d].gang.own
  <2>1. PICK m : m = sent[k].move
    OBVIOUS
  <2>2. devs' = [devs EXCEPT ![m.dev].gang.room = m.to, ![m.dev].gang.own = TRUE]
        /\ m.to \in rooms \cup {Nowhere}
    BY <1>10, <2>1 DEF Registry!Move
  <2>3. d = m.dev
    BY <1>1, <1>10, <2>2
  <2> QED  BY <2>2, <2>3, GangMoved
<1>11. ASSUME \/ Registry!CreateFloor \/ Registry!DeleteFloor \/ Registry!CreateRoom \/ Registry!RoomDeleted
              \/ \E r \in Registry!Rooms : Registry!UpdateRoom(r) \/ Registry!DeleteAsked(r)
              \/ \E t \in Tags : Registry!SetTag(t) \/ Registry!DeleteTag(t)
              \/ \E e \in Ents : \/ Registry!Pin(e) \/ Registry!Assign(e)
                                 \/ Registry!RemoveAssignment(e) \/ Registry!RemovalMirrored(e)
              \/ \E o \in Devs, k \in Keys : Registry!Review(k, o)
              \/ \E k \in Keys : Registry!ReceiptExpires(k)
              \/ Registry!Restart
       PROVE  devs' = devs
  BY <1>11 DEF Registry!CreateFloor, Registry!DeleteFloor, Registry!CreateRoom, Registry!RoomDeleted,
     Registry!UpdateRoom, Registry!DeleteAsked, Registry!SetTag, Registry!DeleteTag, Registry!Pin,
     Registry!Assign, Registry!RemoveAssignment, Registry!RemovalMirrored, Registry!Review,
     Registry!ReceiptExpires, Registry!Restart
<1> QED
  BY <1>2, <1>3, <1>4, <1>5, <1>6, <1>7, <1>8, <1>9, <1>10, <1>11 DEF Registry!Next

LEMMA RegistriesStart == RoomsInit => (part = "registry" => RegistryInv)
BY RegistryStarts DEF RoomsInit

LEMMA RegistriesKept ==
    (part = "registry" => RegistryInv) /\ [RoomsNext]_roomsVars => (part = "registry" => RegistryInv)'
<1> SUFFICES ASSUME part = "registry" => RegistryInv, [RoomsNext]_roomsVars, part' = "registry"
             PROVE  RegistryInv'
  OBVIOUS
<1>1. part = "registry"
  BY DEF RoomsNext, roomsVars
<1>2. Registry!Next \/ UNCHANGED Registry!vars
  BY <1>1 DEF RoomsNext, roomsVars, registryVars, Registry!vars, Registry!places, Registry!entities,
              Registry!moving
<1> QED  BY <1>1, <1>2, RegistryKept

(* For any rooms, entities, devices and tags: whatever is deleted while it is *)
(* being placed, nothing is left behind, and the mirror follows.              *)
THEOREM RegistryOrderly == RoomsSpec => []Orderly
<1>1. (part = "registry" => RegistryInv) => Orderly
  BY RegistryTyped DEF Orderly
<1> QED  BY <1>1, RegistriesStart, RegistriesKept, PTL DEF RoomsSpec

(* For any keys, payloads and gangs: a move is done once while its receipt is *)
(* kept, and no app takes a gang's own place away.                            *)
THEOREM PlacesAlwaysStay == RoomsSpec => PlacesStay
<1>1. (part = "registry" => RegistryInv) => (part = "registry" => Registry!MovedOnce)
  BY RegistryTyped
<1>2. (part = "registry" => RegistryInv) /\ [RoomsNext]_roomsVars =>
        [part = "registry" => Registry!OverridesStay]_roomsVars
  <2> SUFFICES ASSUME RegistryInv, RoomsNext, part = "registry" PROVE Registry!OverridesStay
    OBVIOUS
  <2>1. Registry!Next
    BY DEF RoomsNext
  <2> QED  BY <2>1, OverridesKept
<1> QED  BY <1>1, <1>2, RegistriesStart, RegistriesKept, PTL DEF RoomsSpec, PlacesStay

-----------------------------------------------------------------------------
(* What the rooms log and learn (RoomIntel). *)

Days == DOMAIN Year
Ramadans == {Year[d] : d \in Days} \ {0}
ModelKeys == [day : Days, reset : Nat, blocked : SUBSET Days]
LogModels == [key : ModelKeys, rows : SUBSET RoomIntel!Rows]

(* The calls, by the steps they take. *)
Flushes == {"flush", "stop", "model", "maintain"}
IntelKinds == Flushes \cup {"read", "forget", "clear"}
IntelSteps == {"idle", "stop", "lock", "locked", "write", "pending", "delete", "hlock", "learner",
               "keep", "build", "save"}
KindsAt(step) ==
    CASE step = "write" -> Flushes
      [] step = "pending" -> {"read"}
      [] step = "delete" -> {"forget"}
      [] step = "learner" -> {"forget", "clear"}
      [] step = "hlock" -> {"forget", "clear", "model", "maintain"}
      [] step = "keep" -> {"model", "maintain"}
      [] step \in {"build", "save"} -> {"model"}
      [] step \in {"lock", "locked"} -> IntelKinds
      [] OTHER -> {None}
IntelTasks == [kind : {None} \cup IntelKinds, step : IntelSteps, who : {None} \cup Members,
               rows : SUBSET RoomIntel!Rows, on : {None} \cup 0 .. MaxSets \cup ModelKeys]

IntelTypes ==
    /\ today \in Days /\ buffer \subseteq RoomIntel!Rows /\ table \subseteq RoomIntel!Rows
    /\ context \subseteq Members /\ here \subseteq Members /\ stopped \in BOOLEAN
    /\ mem \in 0 .. MaxSets /\ dirty \in BOOLEAN /\ onDisk \in 0 .. MaxSets
    /\ settings \in [status : {"learning", "paused", "off"}, blocked : SUBSET Days, reset : Nat]
    /\ model \in {None} \cup LogModels /\ saved \in {None} \cup LogModels
    /\ kept \in [Ramadans -> {None} \cup SUBSET RoomIntel!Rows]
    /\ job \in [Jobs -> IntelTasks]
    /\ rlock \in {None} \cup Jobs /\ hlock \in {None} \cup Jobs
    /\ rows \in 0 .. MaxRows /\ forgotten \subseteq Members /\ wiped \in BOOLEAN

(* The recorder's lock is for who reads, writes or clears the log, and the    *)
(* learner's for who learns or forgets what was learned.                      *)
Locks(j) ==
    /\ job[j].kind \in KindsAt(job[j].step)
    /\ job[j].step \in {"locked", "write", "pending", "delete"} => rlock = j
    /\ job[j].kind \in {"model", "maintain"} /\ job[j].step # "hlock" => hlock = j
    /\ job[j].step = "learner" => hlock = j
    /\ job[j].kind = "forget" => job[j].who \in Members
    /\ job[j].step \notin {"write", "pending", "save"} => job[j].rows = {}
    /\ job[j].step = "write" => job[j].on \in {None} \cup 0 .. MaxSets
    /\ job[j].step = "save" => job[j].on \in ModelKeys

CallsHeld == IntelTypes /\ \A j \in Jobs : Locks(j)

(* A row is buffered, about to be written, or written. *)
LogKeeps ==
    /\ \A r \in buffer \cup table : r.id < rows
    /\ buffer \cap table = {}
    /\ \A j \in Jobs :
         /\ job[j].step \in {"write", "pending"} =>
              /\ \A r \in job[j].rows : r.id < rows
              /\ job[j].rows \cap buffer = {}
         /\ job[j].step = "pending" => table \subseteq job[j].rows

(* The last-on set: a write under way is of the newest, unless that is due. *)
Resets(j) == job[j].step = "stop" \/ (job[j].kind = "clear" /\ job[j].step \in {"lock", "locked"})
SetKept ==
    /\ \A j \in Jobs : job[j].step = "write" /\ job[j].on # None =>
         dirty \/ job[j].on = mem
    /\ \/ dirty \/ mem = onDisk
       \/ \E j \in Jobs : job[j].step = "write" /\ job[j].on = mem
       \/ \E j \in Jobs : Resets(j)

(* What is learned is of dates on which learning was on. *)
Learnable(r) == r.day < today /\ r.day \notin settings.blocked /\ settings.reset < r.day
InHabits(r) ==
    \/ \E y \in Ramadans : kept[y] # None /\ r \in kept[y]
    \/ model # None /\ r \in model.rows
    \/ saved # None /\ r \in saved.rows
    \/ \E j \in Jobs : job[j].step = "save" /\ r \in job[j].rows
HabitsHonest == \A r \in RoomIntel!Rows : InHabits(r) => Learnable(r)

(* How far a member's rows are gone. *)
Unbuffered(m) == m \notin here \cup context /\ \A r \in buffer : r.who # m
Unwritten(m) ==
    /\ Unbuffered(m) /\ \A r \in table : r.who # m
    /\ \A j \in Jobs : job[j].step = "write" => \A r \in job[j].rows : r.who # m
Unlearned(m) == Unwritten(m) /\ \A r \in RoomIntel!Rows : InHabits(r) => r.who # m
Forgetting(t) ==
    t.kind = "forget" =>
      /\ t.who \notin here
      /\ t.step = "delete" => Unbuffered(t.who)
      /\ t.step \in {"hlock", "learner"} => Unwritten(t.who)
MembersForgotten ==
    /\ \A j \in Jobs : Forgetting(job[j])
    /\ \A m \in forgotten : Unlearned(m)

(* How far a factory reset is. *)
LogCleared ==
    /\ stopped /\ buffer = {} /\ table = {} /\ mem = 0 /\ ~dirty /\ onDisk = 0
    /\ \A j \in Jobs : job[j].step = "write" => job[j].rows = {} /\ job[j].on = None
Clearing(t) ==
    t.kind = "clear" => stopped /\ (t.step \in {"hlock", "learner"} => LogCleared)
HubCleared ==
    /\ \A j \in Jobs : Clearing(job[j])
    /\ wiped => LogCleared /\ \A r \in RoomIntel!Rows : ~InHabits(r)

IntelInv == CallsHeld /\ LogKeeps /\ SetKept /\ HabitsHonest /\ MembersForgotten /\ HubCleared

(* How a call goes on, ends, and begins. *)
Moved(j) == /\ job' \in [Jobs -> IntelTasks]
            /\ \A k \in Jobs \ {j} : job'[k] = job[k]

LEMMA IntelSets ==
    ASSUME IntelTypes, NEW j \in Jobs, NEW task \in IntelTasks,
           job' = [job EXCEPT ![j] = task]
    PROVE  Moved(j) /\ job'[j] = task
BY DEF IntelTypes, Moved

LEMMA IntelGoes ==
    ASSUME IntelTypes, NEW j \in Jobs, NEW step \in IntelSteps, RoomIntel!Goes(j, step)
    PROVE  /\ Moved(j) /\ job'[j].step = step /\ job'[j].kind = job[j].kind
           /\ job'[j].who = job[j].who /\ job'[j].rows = job[j].rows
           /\ job'[j].on = job[j].on
<1> DEFINE task == [job[j] EXCEPT !.step = step]
<1>1. job \in [Jobs -> IntelTasks] /\ job[j] \in IntelTasks
  BY DEF IntelTypes
<1>2. /\ task \in IntelTasks /\ task.step = step /\ task.kind = job[j].kind
      /\ task.who = job[j].who /\ task.rows = job[j].rows /\ task.on = job[j].on
  BY <1>1 DEF IntelTasks
<1>3. job' = [job EXCEPT ![j] = task]
  BY <1>1 DEF RoomIntel!Goes
<1> HIDE DEF task
<1> QED  BY <1>2, <1>3, IntelSets

LEMMA IntelIdle ==
    /\ RoomIntel!Idle \in IntelTasks /\ RoomIntel!Idle.step = "idle" /\ RoomIntel!Idle.kind = None
    /\ RoomIntel!Idle.rows = {} /\ RoomIntel!Idle.on = None
BY DEF RoomIntel!Idle, IntelTasks, IntelSteps

LEMMA IntelEnds ==
    ASSUME IntelTypes, NEW j \in Jobs, RoomIntel!Ends(j)
    PROVE  /\ Moved(j) /\ job'[j].step = "idle" /\ job'[j].kind = None
           /\ job'[j].rows = {} /\ job'[j].on = None
<1>1. Moved(j) /\ job'[j] = RoomIntel!Idle
  BY IntelIdle, IntelSets DEF RoomIntel!Ends
<1> QED  BY <1>1, IntelIdle

(* What the calls' steps do to the calls. *)
LEMMA CallMoves ==
    ASSUME IntelTypes, NEW j \in Jobs
    PROVE  /\ \A kind \in {"flush", "read"} : RoomIntel!Call(j, kind) =>
                /\ Moved(j) /\ job[j].step = "idle" /\ job'[j].step = "lock"
                /\ job'[j].kind = kind /\ job'[j].rows = {}
           /\ \A kind \in {"model", "maintain"} : RoomIntel!AskModel(j, kind) =>
                /\ Moved(j) /\ job[j].step = "idle" /\ job'[j].step = "hlock"
                /\ job'[j].kind = kind /\ job'[j].rows = {}
           /\ \A m \in Members : RoomIntel!Leave(j, m) =>
                /\ Moved(j) /\ job[j].step = "idle" /\ job'[j].step = "lock"
                /\ job'[j].kind = "forget" /\ job'[j].who = m /\ job'[j].rows = {}
           /\ RoomIntel!Stop(j) =>
                /\ Moved(j) /\ job[j].step = "idle" /\ job'[j].step = "lock"
                /\ job'[j].kind = "stop" /\ job'[j].rows = {}
           /\ RoomIntel!Wipe(j) =>
                /\ Moved(j) /\ job[j].step = "idle" /\ job'[j].step = "stop"
                /\ job'[j].kind = None /\ job'[j].rows = {}
<1>1. RoomIntel!Idle \in IntelTasks /\ RoomIntel!Idle.step = "idle" /\ RoomIntel!Idle.kind = None
      /\ RoomIntel!Idle.rows = {} /\ RoomIntel!Idle.who = None
  BY IntelIdle DEF RoomIntel!Idle
<1>2. ASSUME NEW kind \in {"flush", "read"}, RoomIntel!Call(j, kind)
      PROVE  /\ Moved(j) /\ job[j].step = "idle" /\ job'[j].step = "lock"
             /\ job'[j].kind = kind /\ job'[j].rows = {}
  <2> DEFINE task == [RoomIntel!Idle EXCEPT !.kind = kind, !.step = "lock"]
  <2>1. task \in IntelTasks /\ task.step = "lock" /\ task.kind = kind /\ task.rows = {}
    BY DEF RoomIntel!Idle, IntelTasks, IntelSteps, IntelKinds, Flushes
  <2>2. job' = [job EXCEPT ![j] = task] /\ job[j] = RoomIntel!Idle
    BY <1>2 DEF RoomIntel!Call
  <2> HIDE DEF task
  <2> QED  BY <1>1, <2>1, <2>2, IntelSets
<1>3. ASSUME NEW kind \in {"model", "maintain"}, RoomIntel!AskModel(j, kind)
      PROVE  /\ Moved(j) /\ job[j].step = "idle" /\ job'[j].step = "hlock"
             /\ job'[j].kind = kind /\ job'[j].rows = {}
  <2> DEFINE task == [RoomIntel!Idle EXCEPT !.kind = kind, !.step = "hlock"]
  <2>1. task \in IntelTasks /\ task.step = "hlock" /\ task.kind = kind /\ task.rows = {}
    BY DEF RoomIntel!Idle, IntelTasks, IntelSteps, IntelKinds, Flushes
  <2>2. job' = [job EXCEPT ![j] = task] /\ job[j] = RoomIntel!Idle
    BY <1>3 DEF RoomIntel!AskModel
  <2> HIDE DEF task
  <2> QED  BY <1>1, <2>1, <2>2, IntelSets
<1>4. ASSUME NEW m \in Members, RoomIntel!Leave(j, m)
      PROVE  /\ Moved(j) /\ job[j].step = "idle" /\ job'[j].step = "lock"
             /\ job'[j].kind = "forget" /\ job'[j].who = m /\ job'[j].rows = {}
  <2> DEFINE task == [RoomIntel!Idle EXCEPT !.kind = "forget", !.step = "lock", !.who = m]
  <2>1. task \in IntelTasks /\ task.step = "lock" /\ task.kind = "forget" /\ task.who = m /\ task.rows = {}
    BY DEF RoomIntel!Idle, IntelTasks, IntelSteps, IntelKinds, Flushes
  <2>2. job' = [job EXCEPT ![j] = task] /\ job[j] = RoomIntel!Idle
    BY <1>4 DEF RoomIntel!Leave
  <2> HIDE DEF task
  <2> QED  BY <1>1, <2>1, <2>2, IntelSets
<1>5. ASSUME RoomIntel!Stop(j)
      PROVE  /\ Moved(j) /\ job[j].step = "idle" /\ job'[j].step = "lock"
             /\ job'[j].kind = "stop" /\ job'[j].rows = {}
  <2> DEFINE task == [RoomIntel!Idle EXCEPT !.kind = "stop", !.step = "lock"]
  <2>1. task \in IntelTasks /\ task.step = "lock" /\ task.kind = "stop" /\ task.rows = {}
    BY DEF RoomIntel!Idle, IntelTasks, IntelSteps, IntelKinds, Flushes
  <2>2. job' = [job EXCEPT ![j] = task] /\ job[j] = RoomIntel!Idle
    BY <1>5 DEF RoomIntel!Stop
  <2> HIDE DEF task
  <2> QED  BY <1>1, <2>1, <2>2, IntelSets
<1>6. ASSUME RoomIntel!Wipe(j)
      PROVE  /\ Moved(j) /\ job[j].step = "idle" /\ job'[j].step = "stop"
             /\ job'[j].kind = None /\ job'[j].rows = {}
  <2>1. RoomIntel!Goes(j, "stop") /\ job[j] = RoomIntel!Idle
    BY <1>6 DEF RoomIntel!Wipe
  <2> QED  BY <1>1, <2>1, IntelGoes DEF IntelSteps
<1> QED  BY <1>2, <1>3, <1>4, <1>5, <1>6

LEMMA RecorderMoves ==
    ASSUME IntelTypes, NEW j \in Jobs
    PROVE  /\ RoomIntel!Drain(j) =>
                /\ Moved(j) /\ job'[j].step = "write" /\ job'[j].kind = job[j].kind
                /\ job'[j].rows = buffer /\ job'[j].on = IF dirty THEN mem ELSE None
           /\ RoomIntel!Write(j) =>
                /\ Moved(j) /\ job'[j].rows = {} /\ job'[j].on = None
                /\ \/ job[j].kind \in {"flush", "stop"} /\ job'[j].step = "idle" /\ job'[j].kind = None
                   \/ /\ job[j].kind \notin {"flush", "stop"} /\ job'[j].step = "keep"
                      /\ job'[j].kind = job[j].kind
           /\ RoomIntel!ReadTable(j) =>
                /\ Moved(j) /\ job'[j].step = "pending" /\ job'[j].kind = "read"
                /\ job'[j].rows = table
           /\ RoomIntel!StopListening(j) =>
                /\ Moved(j) /\ job'[j].step = "lock" /\ job'[j].kind = "clear"
                /\ job'[j].rows = job[j].rows
           /\ RoomIntel!Build(j) =>
                /\ Moved(j) /\ job'[j].step = "save" /\ job'[j].kind = "model"
                /\ job'[j].on = RoomIntel!Key
                /\ job'[j].rows = IF RoomIntel!RowsOf(saved, RoomIntel!Key) = None
                                       THEN RoomIntel!Learned ELSE saved.rows
<1>1. /\ job \in [Jobs -> IntelTasks] /\ job[j] \in IntelTasks
      /\ buffer \subseteq RoomIntel!Rows /\ table \subseteq RoomIntel!Rows /\ mem \in 0 .. MaxSets
  BY DEF IntelTypes
<1>2. ASSUME RoomIntel!Drain(j)
      PROVE  /\ Moved(j) /\ job'[j].step = "write" /\ job'[j].kind = job[j].kind
             /\ job'[j].rows = buffer /\ job'[j].on = IF dirty THEN mem ELSE None
  <2> DEFINE task == [job[j] EXCEPT !.step = "write", !.rows = buffer, !.on = IF dirty THEN mem ELSE None]
  <2>1. /\ task \in IntelTasks /\ task.step = "write" /\ task.kind = job[j].kind
        /\ task.rows = buffer /\ task.on = IF dirty THEN mem ELSE None
    BY <1>1 DEF IntelTasks, IntelSteps
  <2>2. job' = [job EXCEPT ![j] = task]
    BY <1>1, <1>2 DEF RoomIntel!Drain
  <2> HIDE DEF task
  <2> QED  BY <2>1, <2>2, IntelSets
<1>3. ASSUME RoomIntel!Write(j)
      PROVE  /\ Moved(j) /\ job'[j].rows = {} /\ job'[j].on = None
             /\ \/ job[j].kind \in {"flush", "stop"} /\ job'[j].step = "idle" /\ job'[j].kind = None
                \/ /\ job[j].kind \notin {"flush", "stop"} /\ job'[j].step = "keep"
                   /\ job'[j].kind = job[j].kind
  <2> DEFINE task == IF job[j].kind \in {"flush", "stop"} THEN RoomIntel!Idle
                     ELSE [job[j] EXCEPT !.step = "keep", !.rows = {}, !.on = None]
  <2>1. /\ task \in IntelTasks /\ task.rows = {} /\ task.on = None
        /\ \/ job[j].kind \in {"flush", "stop"} /\ task.step = "idle" /\ task.kind = None
           \/ job[j].kind \notin {"flush", "stop"} /\ task.step = "keep" /\ task.kind = job[j].kind
    BY <1>1, IntelIdle DEF IntelTasks, IntelSteps
  <2>2. job' = [job EXCEPT ![j] = task]
    BY <1>1, <1>3 DEF RoomIntel!Write
  <2> HIDE DEF task
  <2> QED  BY <2>1, <2>2, IntelSets
<1>4. ASSUME RoomIntel!ReadTable(j)
      PROVE  /\ Moved(j) /\ job'[j].step = "pending" /\ job'[j].kind = "read"
             /\ job'[j].rows = table
  <2> DEFINE task == [job[j] EXCEPT !.step = "pending", !.rows = table]
  <2>1. task \in IntelTasks /\ task.step = "pending" /\ task.kind = job[j].kind /\ task.rows = table
    BY <1>1 DEF IntelTasks, IntelSteps
  <2>2. job' = [job EXCEPT ![j] = task] /\ job[j].kind = "read"
    BY <1>1, <1>4 DEF RoomIntel!ReadTable, RoomIntel!At
  <2> HIDE DEF task
  <2> QED  BY <2>1, <2>2, IntelSets
<1>5. ASSUME RoomIntel!StopListening(j)
      PROVE  /\ Moved(j) /\ job'[j].step = "lock" /\ job'[j].kind = "clear"
             /\ job'[j].rows = job[j].rows
  <2> DEFINE task == [job[j] EXCEPT !.kind = "clear", !.step = "lock"]
  <2>1. task \in IntelTasks /\ task.step = "lock" /\ task.kind = "clear" /\ task.rows = job[j].rows
    BY <1>1 DEF IntelTasks, IntelSteps, IntelKinds, Flushes
  <2>2. job' = [job EXCEPT ![j] = task]
    BY <1>1, <1>5 DEF RoomIntel!StopListening
  <2> HIDE DEF task
  <2> QED  BY <2>1, <2>2, IntelSets
<1>6. ASSUME RoomIntel!Build(j)
      PROVE  /\ Moved(j) /\ job'[j].step = "save" /\ job'[j].kind = "model"
             /\ job'[j].on = RoomIntel!Key
             /\ job'[j].rows = IF RoomIntel!RowsOf(saved, RoomIntel!Key) = None
                                    THEN RoomIntel!Learned ELSE saved.rows
  <2> DEFINE drawn == IF RoomIntel!RowsOf(saved, RoomIntel!Key) = None THEN RoomIntel!Learned ELSE saved.rows
             task == [job[j] EXCEPT !.step = "save", !.on = RoomIntel!Key, !.rows = drawn]
  <2>1. RoomIntel!Key \in ModelKeys
    BY DEF IntelTypes, RoomIntel!Key, ModelKeys
  <2>2. RoomIntel!Learned \subseteq RoomIntel!Rows
    BY DEF IntelTypes, RoomIntel!Learned
  <2>3. saved # None => saved.rows \subseteq RoomIntel!Rows
    BY DEF IntelTypes, LogModels
  <2>4. drawn \in SUBSET RoomIntel!Rows
    BY <2>2, <2>3 DEF RoomIntel!RowsOf
  <2> HIDE DEF drawn
  <2>5. /\ task \in IntelTasks /\ task.step = "save" /\ task.kind = job[j].kind
        /\ task.on = RoomIntel!Key /\ task.rows = drawn
    BY <1>1, <2>1, <2>4 DEF IntelTasks, IntelSteps
  <2>6. job' = [job EXCEPT ![j] = task] /\ job[j].kind = "model"
    BY <1>1, <1>6 DEF RoomIntel!Build, RoomIntel!At, drawn
  <2> HIDE DEF task
  <2> QED  BY <2>5, <2>6, IntelSets DEF drawn
<1> QED  BY <1>2, <1>3, <1>4, <1>5, <1>6

LEMMA LockMoves ==
    ASSUME IntelTypes, NEW j \in Jobs
    PROVE  /\ RoomIntel!Lock(j) =>
                /\ Moved(j) /\ job'[j].step = "locked" /\ job'[j].kind = job[j].kind
                /\ job'[j].who = job[j].who /\ job'[j].rows = job[j].rows
           /\ RoomIntel!HLock(j) =>
                /\ Moved(j) /\ job'[j].kind = job[j].kind
                /\ job'[j].step = IF job[j].kind \in {"model", "maintain"} THEN "lock" ELSE "learner"
                /\ job'[j].who = job[j].who /\ job'[j].rows = job[j].rows
           /\ RoomIntel!ForgetBuffered(j) =>
                /\ Moved(j) /\ job'[j].step = "delete" /\ job'[j].kind = job[j].kind
                /\ job'[j].who = job[j].who /\ job'[j].rows = job[j].rows
           /\ RoomIntel!ForgetWritten(j) \/ RoomIntel!ClearLog(j) =>
                /\ Moved(j) /\ job'[j].step = "hlock" /\ job'[j].kind = job[j].kind
                /\ job'[j].who = job[j].who /\ job'[j].rows = job[j].rows
           /\ RoomIntel!Keep(j) =>
                /\ Moved(j)
                /\ \/ /\ job[j].kind = "maintain" /\ hlock' = None /\ job'[j].step = "idle"
                      /\ job'[j].kind = None /\ job'[j].rows = {}
                   \/ /\ job[j].kind = "model" /\ hlock' = hlock /\ job'[j].step = "build"
                      /\ job'[j].kind = "model" /\ job'[j].rows = job[j].rows
           /\ RoomIntel!ReadPending(j) \/ RoomIntel!ForgetHabits(j) \/ RoomIntel!ClearHabits(j) \/ RoomIntel!Save(j) =>
                /\ Moved(j) /\ job'[j].step = "idle" /\ job'[j].kind = None
                /\ job'[j].rows = {}
<1>1. {"locked", "lock", "learner", "delete", "hlock", "build"} \subseteq IntelSteps
  BY DEF IntelSteps
<1>2. ASSUME RoomIntel!HLock(j)
      PROVE  /\ Moved(j) /\ job'[j].kind = job[j].kind
             /\ job'[j].step = IF job[j].kind \in {"model", "maintain"} THEN "lock" ELSE "learner"
             /\ job'[j].who = job[j].who /\ job'[j].rows = job[j].rows
  <2>1. PICK step \in IntelSteps : /\ step = IF job[j].kind \in {"model", "maintain"} THEN "lock" ELSE "learner"
                                   /\ RoomIntel!Goes(j, step)
    BY <1>1, <1>2 DEF RoomIntel!HLock
  <2> QED  BY <2>1, IntelGoes
<1>3. ASSUME RoomIntel!Keep(j)
      PROVE  /\ Moved(j)
             /\ \/ /\ job[j].kind = "maintain" /\ hlock' = None /\ job'[j].step = "idle"
                   /\ job'[j].kind = None /\ job'[j].rows = {}
                \/ /\ job[j].kind = "model" /\ hlock' = hlock /\ job'[j].step = "build"
                   /\ job'[j].kind = "model" /\ job'[j].rows = job[j].rows
  BY <1>1, <1>3, IntelGoes, IntelEnds DEF RoomIntel!Keep
<1>4. RoomIntel!Lock(j) => RoomIntel!Goes(j, "locked")
  BY DEF RoomIntel!Lock
<1>5. RoomIntel!ForgetBuffered(j) => RoomIntel!Goes(j, "delete")
  BY DEF RoomIntel!ForgetBuffered
<1>6. RoomIntel!ForgetWritten(j) \/ RoomIntel!ClearLog(j) => RoomIntel!Goes(j, "hlock")
  BY DEF RoomIntel!ForgetWritten, RoomIntel!ClearLog
<1>7. RoomIntel!ReadPending(j) \/ RoomIntel!ForgetHabits(j) \/ RoomIntel!ClearHabits(j) \/ RoomIntel!Save(j)
        => RoomIntel!Ends(j)
  BY DEF RoomIntel!ReadPending, RoomIntel!ForgetHabits, RoomIntel!ClearHabits, RoomIntel!Save
<1> QED  BY <1>1, <1>2, <1>3, <1>4, <1>5, <1>6, <1>7, IntelGoes, IntelEnds

LEMMA IntelConstants ==
    /\ Days = 1 .. Len(Year) /\ Len(Year) \in Nat /\ 1 \in Days /\ Days \subseteq Nat
    /\ None \notin Jobs /\ None \notin Members /\ None \notin Nat
    /\ RoomIntel!Dates = Days /\ 0 \in 0 .. MaxSets /\ 0 \in 0 .. MaxRows
    /\ None \notin IntelKinds
BY IntelAssumption DEF Days, RoomIntel!Dates, IntelKinds, Flushes

LEMMA KindsAre ==
    /\ KindsAt("write") = Flushes /\ KindsAt("pending") = {"read"} /\ KindsAt("delete") = {"forget"}
    /\ KindsAt("learner") = {"forget", "clear"}
    /\ KindsAt("hlock") = {"forget", "clear", "model", "maintain"}
    /\ KindsAt("keep") = {"model", "maintain"} /\ KindsAt("build") = {"model"} /\ KindsAt("save") = {"model"}
    /\ KindsAt("lock") = IntelKinds /\ KindsAt("locked") = IntelKinds
    /\ KindsAt("idle") = {None} /\ KindsAt("stop") = {None}
BY DEF KindsAt

LEMMA CallsStart == RoomIntel!Init => CallsHeld
<1> SUFFICES ASSUME RoomIntel!Init PROVE CallsHeld
  OBVIOUS
<1> USE IntelConstants, IntelIdle, IntelAssumption
<1>1. /\ today = 1 /\ buffer = {} /\ table = {} /\ context = {} /\ here = Members /\ stopped = FALSE
      /\ mem = 0 /\ dirty = FALSE /\ onDisk = 0 /\ model = None /\ saved = None /\ rlock = None /\ hlock = None
      /\ rows = 0 /\ forgotten = {} /\ wiped = FALSE
  BY DEF RoomIntel!Init
<1>2. settings \in [status : {"learning", "paused", "off"}, blocked : SUBSET Days, reset : Nat]
  BY DEF RoomIntel!Init, RoomIntel!Learning
<1>3. kept \in [Ramadans -> {None} \cup SUBSET RoomIntel!Rows]
  BY DEF RoomIntel!Init, Ramadans
<1>4. job \in [Jobs -> IntelTasks] /\ \A j \in Jobs : job[j] = RoomIntel!Idle
  BY DEF RoomIntel!Init
<1>5. IntelTypes
  BY <1>1, <1>2, <1>3, <1>4 DEF IntelTypes
<1>6. \A j \in Jobs : Locks(j)
  <2>1. \A j \in Jobs : job[j].step = "idle" /\ job[j].kind = None /\ job[j].rows = {}
    BY <1>4
  <2> SUFFICES ASSUME NEW j \in Jobs PROVE Locks(j)
    OBVIOUS
  <2> QED  BY <1>1, <2>1, KindsAre, IntelConstants DEF Locks, IntelKinds, Flushes
<1> QED  BY <1>5, <1>6 DEF CallsHeld

(* A call that is given a lock, or gives back one that it has. *)
LEMMA LocksMove ==
    ASSUME CallsHeld, NEW j \in Jobs, Moved(j), Locks(j)',
           rlock' = rlock \/ rlock \in {None, j}, hlock' = hlock \/ hlock \in {None, j}
    PROVE  \A k \in Jobs : Locks(k)'
<1> SUFFICES ASSUME NEW k \in Jobs \ {j} PROVE Locks(k)'
  OBVIOUS
<1>1. job'[k] = job[k] /\ Locks(k) /\ k # None
  BY IntelConstants DEF CallsHeld, Moved
<1> QED  BY <1>1 DEF Locks

(* What changes no call. *)
LEMMA NoCallHolds ==
    ASSUME CallsHeld,
           \/ \E m \in Members : RoomIntel!Command(m)
           \/ \E m \in Members \cup {None} : RoomIntel!Change(m)
           \/ RoomIntel!WentDark \/ RoomIntel!Prune \/ RoomIntel!ResetHabits \/ RoomIntel!Midnight
           \/ \E status \in {"learning", "paused", "off"} : RoomIntel!SetLearning(status)
    PROVE  CallsHeld' /\ UNCHANGED <<job, rlock, hlock>>
<1> USE IntelConstants, IntelAssumption
<1> USE DEF RoomIntel!log, RoomIntel!lastOn, RoomIntel!habits, RoomIntel!locks, RoomIntel!history
<1>1. IntelTypes /\ \A k \in Jobs : Locks(k)
  BY DEF CallsHeld
<1>2. UNCHANGED <<job, rlock, hlock>>
  BY DEF RoomIntel!Command, RoomIntel!Change, RoomIntel!WentDark, RoomIntel!Prune, RoomIntel!ResetHabits,
         RoomIntel!Midnight, RoomIntel!SetLearning
<1>3. IntelTypes'
  <2>1. CASE \E m \in Members : RoomIntel!Command(m)
    BY <1>1, <1>2, <2>1 DEF IntelTypes, RoomIntel!Command
  <2>2. ASSUME NEW m \in Members \cup {None}, RoomIntel!Change(m) PROVE IntelTypes'
    <3>1. [id |-> rows, who |-> m, day |-> today] \in RoomIntel!Rows /\ rows' \in 0 .. MaxRows
      BY <1>1, <2>2 DEF IntelTypes, RoomIntel!Change, RoomIntel!Rows
    <3> QED  BY <1>1, <1>2, <2>2, <3>1 DEF IntelTypes, RoomIntel!Change
  <2>3. CASE RoomIntel!WentDark
    BY <1>1, <1>2, <2>3 DEF IntelTypes, RoomIntel!WentDark
  <2>4. CASE RoomIntel!Prune
    BY <1>1, <1>2, <2>4 DEF IntelTypes, RoomIntel!Prune
  <2>5. CASE RoomIntel!ResetHabits
    <3>1. kept' \in [Ramadans -> {None} \cup SUBSET RoomIntel!Rows]
      BY <1>1, <2>5 DEF IntelTypes, RoomIntel!ResetHabits, RoomIntel!NoCopies
    <3>2. settings' \in [status : {"learning", "paused", "off"}, blocked : SUBSET Days, reset : Nat]
      BY <1>1, <2>5 DEF IntelTypes, RoomIntel!ResetHabits
    <3> QED  BY <1>1, <1>2, <2>5, <3>1, <3>2 DEF IntelTypes, RoomIntel!ResetHabits
  <2>6. CASE RoomIntel!Midnight
    <3>1. settings' \in [status : {"learning", "paused", "off"}, blocked : SUBSET Days, reset : Nat]
      BY <1>1, <2>6 DEF IntelTypes, RoomIntel!Midnight
    <3> QED  BY <1>1, <1>2, <2>6, <3>1 DEF IntelTypes, RoomIntel!Midnight
  <2>7. ASSUME NEW status \in {"learning", "paused", "off"}, RoomIntel!SetLearning(status) PROVE IntelTypes'
    <3> DEFINE touched == IF RoomIntel!Open(status) \/ RoomIntel!Open(settings.status) THEN {today} ELSE {}
    <3>1. touched \subseteq Days
      BY <1>1 DEF IntelTypes
    <3>2. /\ settings' = [settings EXCEPT !.status = status, !.blocked = @ \cup touched]
          /\ model' \in {None, model} /\ saved' \in {None, saved}
          /\ UNCHANGED <<today, buffer, table, context, stopped, rows, here, mem, dirty, onDisk, kept,
                         forgotten, wiped>>
      BY <2>7 DEF RoomIntel!SetLearning
    <3> HIDE DEF touched
    <3>3. settings' \in [status : {"learning", "paused", "off"}, blocked : SUBSET Days, reset : Nat]
      BY <1>1, <3>1, <3>2 DEF IntelTypes
    <3> QED  BY <1>1, <1>2, <3>2, <3>3 DEF IntelTypes
  <2> QED  BY <2>1, <2>2, <2>3, <2>4, <2>5, <2>6, <2>7
<1> QED  BY <1>1, <1>2, <1>3 DEF CallsHeld, Locks

(* Calls begin. *)
LEMMA BeginsHold ==
    ASSUME CallsHeld, NEW j \in Jobs,
           \/ \E kind \in {"flush", "read"} : RoomIntel!Call(j, kind)
           \/ \E kind \in {"model", "maintain"} : RoomIntel!AskModel(j, kind)
           \/ \E m \in Members : RoomIntel!Leave(j, m)
           \/ RoomIntel!Stop(j) \/ RoomIntel!Wipe(j) \/ RoomIntel!StopListening(j)
    PROVE  CallsHeld'
<1> USE DEF RoomIntel!log, RoomIntel!lastOn, RoomIntel!habits, RoomIntel!locks, RoomIntel!history
<1>1. IntelTypes /\ Locks(j)
  BY DEF CallsHeld
<1>2. UNCHANGED <<rlock, hlock>>
  BY DEF RoomIntel!Call, RoomIntel!AskModel, RoomIntel!Leave, RoomIntel!Stop, RoomIntel!Wipe, RoomIntel!StopListening
<1>3. Moved(j) /\ Locks(j)'
  <2> USE KindsAre, IntelConstants DEF Locks, IntelKinds, Flushes
  <2>1. CASE \E kind \in {"flush", "read"} : RoomIntel!Call(j, kind)
    BY <1>1, <2>1, CallMoves
  <2>2. CASE \E kind \in {"model", "maintain"} : RoomIntel!AskModel(j, kind)
    BY <1>1, <2>2, CallMoves
  <2>3. CASE \E m \in Members : RoomIntel!Leave(j, m)
    BY <1>1, <2>3, CallMoves
  <2>4. CASE RoomIntel!Stop(j)
    BY <1>1, <2>4, CallMoves
  <2>5. CASE RoomIntel!Wipe(j)
    BY <1>1, <2>5, CallMoves, IntelConstants
  <2>6. CASE RoomIntel!StopListening(j)
    BY <1>1, <2>6, RecorderMoves DEF RoomIntel!StopListening, RoomIntel!At
  <2> QED  BY <2>1, <2>2, <2>3, <2>4, <2>5, <2>6
<1>4. IntelTypes'
  <2>1. CASE \/ \E kind \in {"flush", "read"} : RoomIntel!Call(j, kind)
             \/ \E kind \in {"model", "maintain"} : RoomIntel!AskModel(j, kind)
    BY <1>1, <1>3, <2>1 DEF IntelTypes, Moved, RoomIntel!Call, RoomIntel!AskModel
  <2>2. CASE \E m \in Members : RoomIntel!Leave(j, m)
    BY <1>1, <1>3, <2>2 DEF IntelTypes, Moved, RoomIntel!Leave
  <2>3. CASE RoomIntel!Stop(j) \/ RoomIntel!StopListening(j)
    BY <1>1, <1>3, <2>3 DEF IntelTypes, Moved, RoomIntel!Stop, RoomIntel!StopListening, RoomIntel!StopsListening
  <2>4. CASE RoomIntel!Wipe(j)
    <3>1. kept' \in [Ramadans -> {None} \cup SUBSET RoomIntel!Rows]
      BY <1>1, <2>4 DEF IntelTypes, RoomIntel!Wipe, RoomIntel!NoCopies
    <3> QED  BY <1>1, <1>3, <2>4, <3>1, IntelAssumption DEF IntelTypes, Moved, RoomIntel!Wipe
  <2> QED  BY <2>1, <2>2, <2>3, <2>4
<1> QED  BY <1>2, <1>3, <1>4, LocksMove DEF CallsHeld

(* The recorder's calls. *)
LEMMA RecorderHolds ==
    ASSUME CallsHeld, NEW j \in Jobs,
           \/ RoomIntel!Lock(j) \/ RoomIntel!Drain(j) \/ RoomIntel!Write(j) \/ RoomIntel!ReadTable(j)
           \/ RoomIntel!ReadPending(j) \/ RoomIntel!ForgetBuffered(j) \/ RoomIntel!ForgetWritten(j)
           \/ RoomIntel!ClearLog(j)
    PROVE  CallsHeld'
<1> USE DEF RoomIntel!log, RoomIntel!lastOn, RoomIntel!habits, RoomIntel!locks, RoomIntel!history, RoomIntel!At
<1>1. IntelTypes /\ Locks(j) /\ j # None
  BY IntelConstants DEF CallsHeld
<1>2. Moved(j) /\ Locks(j)' /\ hlock' = hlock /\ (rlock' = rlock \/ rlock \in {None, j}) /\ rlock' \in {rlock, None, j}
  <2> USE KindsAre, IntelConstants DEF Locks, IntelKinds, Flushes
  <2>1. CASE RoomIntel!Lock(j)
    BY <1>1, <2>1, LockMoves DEF RoomIntel!Lock, RoomIntel!LockFree
  <2>2. CASE RoomIntel!Drain(j)
    <3>1. /\ Moved(j) /\ job'[j].step = "write" /\ job'[j].kind = job[j].kind
          /\ job'[j].on = IF dirty THEN mem ELSE None
      BY <1>1, <2>2, RecorderMoves
    <3>2. mem \in 0 .. MaxSets
      BY <1>1 DEF IntelTypes
    <3>3. /\ job[j].step = "locked" /\ job[j].kind \in Flushes /\ UNCHANGED <<rlock, hlock>>
      BY <2>2 DEF RoomIntel!Drain
    <3>4. job'[j].on \in {None} \cup 0 .. MaxSets
      BY <3>1, <3>2
    <3> QED  BY <1>1, <3>1, <3>3, <3>4
  <2>3. CASE RoomIntel!Write(j)
    <3>1. /\ Moved(j) /\ job'[j].rows = {} /\ rlock = j /\ rlock' = None /\ hlock' = hlock
          /\ job[j].step = "write" /\ job[j].kind \in Flushes
      BY <1>1, <2>3, RecorderMoves DEF RoomIntel!Write
    <3>2. CASE job'[j].step = "idle" /\ job'[j].kind = None
      BY <1>1, <3>1, <3>2
    <3>3. CASE /\ job[j].kind \notin {"flush", "stop"} /\ job'[j].step = "keep"
               /\ job'[j].kind = job[j].kind
      BY <1>1, <3>1, <3>3
    <3> QED  BY <1>1, <2>3, <3>2, <3>3, RecorderMoves
  <2>4. CASE RoomIntel!ReadTable(j)
    BY <1>1, <2>4, RecorderMoves DEF RoomIntel!ReadTable
  <2>5. CASE RoomIntel!ReadPending(j)
    BY <1>1, <2>5, LockMoves, IntelConstants DEF RoomIntel!ReadPending
  <2>6. CASE RoomIntel!ForgetBuffered(j)
    BY <1>1, <2>6, LockMoves DEF RoomIntel!ForgetBuffered
  <2>7. CASE RoomIntel!ForgetWritten(j)
    BY <1>1, <2>7, LockMoves DEF RoomIntel!ForgetWritten
  <2>8. CASE RoomIntel!ClearLog(j)
    BY <1>1, <2>8, LockMoves DEF RoomIntel!ClearLog
  <2> QED  BY <2>1, <2>2, <2>3, <2>4, <2>5, <2>6, <2>7, <2>8
<1>3. IntelTypes'
  <2>1. CASE RoomIntel!Lock(j) \/ RoomIntel!ReadTable(j) \/ RoomIntel!ReadPending(j)
    BY <1>1, <1>2, <2>1 DEF IntelTypes, Moved, RoomIntel!Lock, RoomIntel!ReadTable, RoomIntel!ReadPending
  <2>2. CASE RoomIntel!Drain(j)
    BY <1>1, <1>2, <2>2 DEF IntelTypes, Moved, RoomIntel!Drain
  <2>3. CASE RoomIntel!Write(j)
    <3>1. job[j].rows \subseteq RoomIntel!Rows /\ job[j].on \in {None} \cup 0 .. MaxSets
      BY <1>1, <2>3 DEF IntelTypes, IntelTasks, Locks, RoomIntel!Write
    <3>2. table' \subseteq RoomIntel!Rows /\ onDisk' \in 0 .. MaxSets /\ dirty' \in BOOLEAN
      BY <1>1, <2>3, <3>1 DEF IntelTypes, RoomIntel!Write
    <3> QED  BY <1>1, <1>2, <2>3, <3>2 DEF IntelTypes, Moved, RoomIntel!Write
  <2>4. CASE RoomIntel!ForgetBuffered(j) \/ RoomIntel!ForgetWritten(j)
    BY <1>1, <1>2, <2>4 DEF IntelTypes, Moved, RoomIntel!ForgetBuffered, RoomIntel!ForgetWritten, RoomIntel!Without
  <2>5. CASE RoomIntel!ClearLog(j)
    BY <1>1, <1>2, <2>5, IntelConstants DEF IntelTypes, Moved, RoomIntel!ClearLog
  <2> QED  BY <2>1, <2>2, <2>3, <2>4, <2>5
<1> QED  BY <1>2, <1>3, LocksMove DEF CallsHeld

(* The learner's. *)
LEMMA LearnerHolds ==
    ASSUME CallsHeld, NEW j \in Jobs,
           \/ RoomIntel!HLock(j) \/ RoomIntel!ForgetHabits(j) \/ RoomIntel!ClearHabits(j)
           \/ RoomIntel!Keep(j) \/ RoomIntel!Build(j) \/ RoomIntel!Save(j)
    PROVE  CallsHeld'
<1> USE DEF RoomIntel!log, RoomIntel!lastOn, RoomIntel!habits, RoomIntel!locks, RoomIntel!history, RoomIntel!At
<1>1. IntelTypes /\ Locks(j) /\ j # None
  BY IntelConstants DEF CallsHeld
<1>2. Moved(j) /\ Locks(j)' /\ rlock' = rlock /\ (hlock' = hlock \/ hlock \in {None, j}) /\ hlock' \in {hlock, None, j}
  <2> USE KindsAre, IntelConstants DEF Locks, IntelKinds, Flushes
  <2>1. CASE RoomIntel!HLock(j)
    BY <1>1, <2>1, LockMoves DEF RoomIntel!HLock
  <2>2. CASE RoomIntel!ForgetHabits(j)
    BY <1>1, <2>2, LockMoves, IntelConstants DEF RoomIntel!ForgetHabits
  <2>3. CASE RoomIntel!ClearHabits(j)
    BY <1>1, <2>3, LockMoves, IntelConstants DEF RoomIntel!ClearHabits
  <2>4. CASE RoomIntel!Keep(j)
    BY <1>1, <2>4, LockMoves, IntelConstants DEF RoomIntel!Keep
  <2>5. CASE RoomIntel!Build(j)
    <3>1. RoomIntel!Key \in ModelKeys
      BY <1>1 DEF IntelTypes, RoomIntel!Key, ModelKeys
    <3> QED  BY <1>1, <2>5, <3>1, RecorderMoves DEF RoomIntel!Build
  <2>6. CASE RoomIntel!Save(j)
    BY <1>1, <2>6, LockMoves, IntelConstants DEF RoomIntel!Save
  <2> QED  BY <2>1, <2>2, <2>3, <2>4, <2>5, <2>6
<1>3. IntelTypes'
  <2>1. CASE RoomIntel!HLock(j) \/ RoomIntel!Build(j)
    BY <1>1, <1>2, <2>1 DEF IntelTypes, Moved, RoomIntel!HLock, RoomIntel!Build
  <2>2. CASE RoomIntel!ForgetHabits(j)
    <3>1. job[j].who \in Members
      BY <1>1, <2>2 DEF Locks, RoomIntel!ForgetHabits
    <3>2. kept' \in [Ramadans -> {None} \cup SUBSET RoomIntel!Rows]
      BY <1>1, <2>2 DEF IntelTypes, RoomIntel!ForgetHabits, RoomIntel!Without
    <3> QED  BY <1>1, <1>2, <2>2, <3>1, <3>2 DEF IntelTypes, Moved, RoomIntel!ForgetHabits
  <2>3. CASE RoomIntel!ClearHabits(j)
    <3>1. kept' \in [Ramadans -> {None} \cup SUBSET RoomIntel!Rows]
      BY <1>1, <2>3 DEF IntelTypes, RoomIntel!ClearHabits, RoomIntel!NoCopies
    <3>2. settings' \in [status : {"learning", "paused", "off"}, blocked : SUBSET Days, reset : Nat]
      BY <2>3 DEF RoomIntel!ClearHabits, RoomIntel!Learning
    <3> QED  BY <1>1, <1>2, <2>3, <3>1, <3>2 DEF IntelTypes, Moved, RoomIntel!ClearHabits
  <2>4. CASE RoomIntel!Keep(j)
    <3>1. \A y : RoomIntel!Copy(y) \subseteq RoomIntel!Rows
      BY <1>1 DEF IntelTypes, RoomIntel!Copy
    <3>2. kept' \in [Ramadans -> {None} \cup SUBSET RoomIntel!Rows]
      BY <1>1, <2>4, <3>1 DEF IntelTypes, RoomIntel!Keep
    <3> QED  BY <1>1, <1>2, <2>4, <3>2 DEF IntelTypes, Moved, RoomIntel!Keep
  <2>5. CASE RoomIntel!Save(j)
    <3>1. job[j].rows \subseteq RoomIntel!Rows /\ job[j].on \in ModelKeys
      BY <1>1, <2>5 DEF IntelTypes, IntelTasks, Locks, RoomIntel!Save
    <3>2. saved' \in LogModels /\ model' = saved'
      BY <2>5, <3>1 DEF RoomIntel!Save, LogModels
    <3> QED  BY <1>1, <1>2, <2>5, <3>2 DEF IntelTypes, Moved, RoomIntel!Save
  <2> QED  BY <2>1, <2>2, <2>3, <2>4, <2>5
<1> QED  BY <1>2, <1>3, LocksMove DEF CallsHeld

LEMMA StartHolds ==
    ASSUME CallsHeld, RoomIntel!Start
    PROVE  CallsHeld' /\ \A j \in Jobs : job'[j].step = "idle" /\ job'[j].kind = None /\ job'[j].rows = {}
<1>1. IntelTypes /\ rlock' = None /\ hlock' = None
  BY DEF CallsHeld, RoomIntel!Start
<1>2. job' \in [Jobs -> IntelTasks] /\ \A j \in Jobs : job'[j] = RoomIntel!Idle
  BY IntelIdle DEF RoomIntel!Start
<1>3. \A j \in Jobs : job'[j].step = "idle" /\ job'[j].kind = None /\ job'[j].rows = {}
  BY <1>2, IntelIdle
<1>4. IntelTypes'
  BY <1>1, <1>2 DEF IntelTypes, RoomIntel!Start
<1>5. \A j \in Jobs : Locks(j)'
  <2> SUFFICES ASSUME NEW j \in Jobs PROVE Locks(j)'
    OBVIOUS
  <2>1. job'[j].step = "idle" /\ job'[j].kind = None /\ job'[j].rows = {} /\ None \notin Members
    BY <1>3, IntelConstants
  <2> QED  BY <2>1, KindsAre, IntelConstants DEF Locks, IntelKinds, Flushes
<1> QED  BY <1>3, <1>4, <1>5 DEF CallsHeld

LEMMA CallsKept == CallsHeld /\ [RoomIntel!Next]_(RoomIntel!vars) => CallsHeld'
<1> SUFFICES ASSUME CallsHeld, [RoomIntel!Next]_(RoomIntel!vars) PROVE CallsHeld'
  OBVIOUS
<1>1. CASE UNCHANGED RoomIntel!vars
  <2>1. UNCHANGED intelVars
    BY <1>1 DEF RoomIntel!vars, RoomIntel!log, RoomIntel!lastOn, RoomIntel!habits, RoomIntel!locks,
                RoomIntel!history, intelVars
  <2> QED  BY <2>1 DEF intelVars, CallsHeld, IntelTypes, Locks
<1> QED  BY <1>1, NoCallHolds, BeginsHold, RecorderHolds, LearnerHolds, StartHolds DEF RoomIntel!Next

-----------------------------------------------------------------------------
(* The rows of the log. *)

LEMMA LogStays ==
    ASSUME CallsHeld, LogKeeps, NEW j \in Jobs, Moved(j), job'[j].step \notin {"write", "pending"},
           buffer' \subseteq buffer, table' \subseteq table, rows' = rows
    PROVE  LogKeeps'
<1>1. \A k \in Jobs : job'[k].step \in {"write", "pending"} => job'[k] = job[k]
  BY DEF Moved
<1> QED  BY <1>1 DEF LogKeeps

LEMMA BeginsKeepLog ==
    ASSUME CallsHeld, LogKeeps, NEW j \in Jobs,
           \/ \E kind \in {"flush", "read"} : RoomIntel!Call(j, kind)
           \/ \E kind \in {"model", "maintain"} : RoomIntel!AskModel(j, kind)
           \/ \E m \in Members : RoomIntel!Leave(j, m)
           \/ RoomIntel!Stop(j) \/ RoomIntel!Wipe(j) \/ RoomIntel!StopListening(j)
    PROVE  LogKeeps'
<1> USE DEF RoomIntel!log
<1>1. IntelTypes
  BY DEF CallsHeld
<1>2. Moved(j) /\ job'[j].step \notin {"write", "pending"}
  BY <1>1, CallMoves, RecorderMoves
<1>3. buffer' \subseteq buffer /\ table' \subseteq table /\ rows' = rows
  BY DEF RoomIntel!Call, RoomIntel!AskModel, RoomIntel!Leave, RoomIntel!Stop, RoomIntel!Wipe, RoomIntel!StopListening
<1> QED  BY <1>2, <1>3, LogStays

LEMMA LearnerKeepsLog ==
    ASSUME CallsHeld, LogKeeps, NEW j \in Jobs,
           \/ RoomIntel!HLock(j) \/ RoomIntel!ForgetHabits(j) \/ RoomIntel!ClearHabits(j)
           \/ RoomIntel!Keep(j) \/ RoomIntel!Build(j) \/ RoomIntel!Save(j)
    PROVE  LogKeeps'
<1> USE DEF RoomIntel!log
<1>1. IntelTypes
  BY DEF CallsHeld
<1>2. Moved(j) /\ job'[j].step \notin {"write", "pending"}
  BY <1>1, LockMoves, RecorderMoves
<1>3. buffer' \subseteq buffer /\ table' \subseteq table /\ rows' = rows
  BY DEF RoomIntel!HLock, RoomIntel!ForgetHabits, RoomIntel!ClearHabits, RoomIntel!Keep, RoomIntel!Build, RoomIntel!Save
<1> QED  BY <1>2, <1>3, LogStays

(* Under the recorder's lock. *)
LEMMA RecorderKeepsLog ==
    ASSUME CallsHeld, LogKeeps, NEW j \in Jobs,
           \/ RoomIntel!Lock(j) \/ RoomIntel!Drain(j) \/ RoomIntel!Write(j) \/ RoomIntel!ReadTable(j)
           \/ RoomIntel!ReadPending(j) \/ RoomIntel!ForgetBuffered(j) \/ RoomIntel!ForgetWritten(j)
           \/ RoomIntel!ClearLog(j)
    PROVE  LogKeeps'
<1> USE DEF RoomIntel!log, RoomIntel!At
<1>1. IntelTypes /\ Locks(j)
  BY DEF CallsHeld
<1>2. CASE \/ RoomIntel!Lock(j) \/ RoomIntel!ReadPending(j) \/ RoomIntel!ForgetBuffered(j)
           \/ RoomIntel!ForgetWritten(j) \/ RoomIntel!ClearLog(j)
  <2>1. Moved(j) /\ job'[j].step \notin {"write", "pending"}
    BY <1>1, <1>2, LockMoves
  <2>2. buffer' \subseteq buffer /\ table' \subseteq table /\ rows' = rows
    BY <1>2 DEF RoomIntel!Lock, RoomIntel!ReadPending, RoomIntel!ForgetBuffered, RoomIntel!ForgetWritten,
                RoomIntel!ClearLog, RoomIntel!Without
  <2> QED  BY <2>1, <2>2, LogStays
<1>3. CASE RoomIntel!Drain(j)
  <2>1. Moved(j) /\ job'[j].step = "write" /\ job'[j].rows = buffer
    BY <1>1, <1>3, RecorderMoves
  <2>2. buffer' = {} /\ table' = table /\ rows' = rows
    BY <1>3 DEF RoomIntel!Drain
  <2> QED  BY <2>1, <2>2 DEF LogKeeps, Moved
<1>4. CASE RoomIntel!Write(j)
  <2>1. Moved(j) /\ job'[j].step \notin {"write", "pending"}
    BY <1>1, <1>4, RecorderMoves
  <2>2. /\ job[j].step = "write" /\ buffer' = buffer /\ rows' = rows
        /\ table' \subseteq table \cup job[j].rows
    BY <1>4 DEF RoomIntel!Write
  <2>3. \A k \in Jobs : job[k].step # "pending"
    BY <2>2 DEF CallsHeld, Locks
  <2>4. \A k \in Jobs : job'[k].step \in {"write", "pending"} => job'[k] = job[k]
    BY <2>1 DEF Moved
  <2>5. (\A r \in job[j].rows : r.id < rows) /\ job[j].rows \cap buffer = {}
    BY <2>2 DEF LogKeeps
  <2> QED  BY <2>2, <2>3, <2>4, <2>5 DEF LogKeeps
<1>5. CASE RoomIntel!ReadTable(j)
  <2>1. Moved(j) /\ job'[j].step = "pending" /\ job'[j].rows = table
    BY <1>1, <1>5, RecorderMoves
  <2>2. buffer' = buffer /\ table' = table /\ rows' = rows
    BY <1>5 DEF RoomIntel!ReadTable
  <2> QED  BY <2>1, <2>2 DEF LogKeeps, Moved
<1> QED  BY <1>2, <1>3, <1>4, <1>5

LEMMA OthersKeepLog ==
    ASSUME CallsHeld, LogKeeps,
           \/ \E m \in Members : RoomIntel!Command(m)
           \/ \E m \in Members \cup {None} : RoomIntel!Change(m)
           \/ RoomIntel!WentDark \/ RoomIntel!Prune \/ RoomIntel!ResetHabits \/ RoomIntel!Midnight
           \/ \E status \in {"learning", "paused", "off"} : RoomIntel!SetLearning(status)
    PROVE  LogKeeps'
<1> USE DEF RoomIntel!log
<1>1. job' = job
  BY NoCallHolds
<1>2. ASSUME NEW m \in Members \cup {None}, RoomIntel!Change(m) PROVE LogKeeps'
  <2> DEFINE r == [id |-> rows, who |-> m, day |-> today]
  <2>1. /\ r.id = rows /\ buffer' = buffer \cup {r} /\ table' = table /\ rows' = rows + 1 /\ rows \in Nat
    BY <1>2 DEF RoomIntel!Change, CallsHeld, IntelTypes
  <2>2. /\ \A q \in buffer \cup table : q.id \in Nat /\ q.id < rows
        /\ \A k \in Jobs : \A q \in job[k].rows : q.id \in Nat
    BY DEF CallsHeld, IntelTypes, IntelTasks, LogKeeps, RoomIntel!Rows
  <2> HIDE DEF r
  <2>3. (\A q \in buffer' \cup table' : q.id < rows') /\ buffer' \cap table' = {}
    BY <2>1, <2>2 DEF LogKeeps
  <2>4. ASSUME NEW k \in Jobs, job[k].step \in {"write", "pending"}
        PROVE  /\ \A q \in job[k].rows : q.id < rows'
               /\ job[k].rows \cap buffer' = {}
    BY <2>1, <2>2, <2>4 DEF LogKeeps
  <2> QED  BY <1>1, <2>1, <2>3, <2>4 DEF LogKeeps
<1>3. CASE \/ \E m \in Members : RoomIntel!Command(m)
           \/ RoomIntel!WentDark \/ RoomIntel!Prune \/ RoomIntel!ResetHabits \/ RoomIntel!Midnight
           \/ \E status \in {"learning", "paused", "off"} : RoomIntel!SetLearning(status)
  <2>1. buffer' = buffer /\ table' \subseteq table /\ rows' = rows
    BY <1>3 DEF RoomIntel!Command, RoomIntel!WentDark, RoomIntel!Prune, RoomIntel!ResetHabits,
                RoomIntel!Midnight, RoomIntel!SetLearning
  <2> QED  BY <1>1, <2>1 DEF LogKeeps
<1> QED  BY <1>2, <1>3

LEMMA LogStep == CallsHeld /\ LogKeeps /\ [RoomIntel!Next]_(RoomIntel!vars) => LogKeeps'
<1> SUFFICES ASSUME CallsHeld, LogKeeps, [RoomIntel!Next]_(RoomIntel!vars) PROVE LogKeeps'
  OBVIOUS
<1>1. CASE RoomIntel!Start
  <2>1. /\ \A j \in Jobs : job'[j].step = "idle"
        /\ buffer' = {} /\ table' = table /\ rows' = rows
    BY <1>1, StartHolds DEF RoomIntel!Start
  <2> QED  BY <2>1 DEF LogKeeps
<1>2. CASE UNCHANGED RoomIntel!vars
  BY <1>2 DEF RoomIntel!vars, RoomIntel!log, LogKeeps
<1> QED  BY <1>1, <1>2, BeginsKeepLog, LearnerKeepsLog, RecorderKeepsLog, OthersKeepLog DEF RoomIntel!Next

-----------------------------------------------------------------------------
(* The last-on set. *)

LEMMA SetStays ==
    ASSUME CallsHeld, SetKept, NEW j \in Jobs, Moved(j), UNCHANGED <<mem, dirty, onDisk>>,
           job[j].step # "write", job'[j].step # "write", Resets(j) => Resets(j)'
    PROVE  SetKept'
<1>1. \A k \in Jobs \ {j} : job'[k] = job[k]
  BY DEF Moved
<1> QED  BY <1>1 DEF SetKept, Resets

LEMMA CallsKeepSet ==
    ASSUME CallsHeld, SetKept, NEW j \in Jobs,
           \/ \E kind \in {"flush", "read"} : RoomIntel!Call(j, kind)
           \/ \E kind \in {"model", "maintain"} : RoomIntel!AskModel(j, kind)
           \/ \E m \in Members : RoomIntel!Leave(j, m)
           \/ RoomIntel!Stop(j) \/ RoomIntel!StopListening(j)
           \/ RoomIntel!Lock(j) \/ RoomIntel!ReadTable(j) \/ RoomIntel!ReadPending(j)
           \/ RoomIntel!ForgetBuffered(j) \/ RoomIntel!ForgetWritten(j)
           \/ RoomIntel!HLock(j) \/ RoomIntel!ForgetHabits(j) \/ RoomIntel!ClearHabits(j)
           \/ RoomIntel!Keep(j) \/ RoomIntel!Build(j) \/ RoomIntel!Save(j)
    PROVE  SetKept'
<1> USE DEF RoomIntel!lastOn, RoomIntel!At
<1>1. IntelTypes /\ Locks(j)
  BY DEF CallsHeld
<1>2. CASE \/ \E kind \in {"flush", "read"} : RoomIntel!Call(j, kind)
           \/ \E kind \in {"model", "maintain"} : RoomIntel!AskModel(j, kind)
           \/ \E m \in Members : RoomIntel!Leave(j, m)
           \/ RoomIntel!Stop(j) \/ RoomIntel!StopListening(j)
  <2>1. Moved(j) /\ job'[j].step # "write"
    BY <1>1, <1>2, CallMoves, RecorderMoves
  <2>2. job[j].step \in {"idle", "stop"} /\ (job[j].step = "stop" => Resets(j)')
    BY <1>1, <1>2, CallMoves, RecorderMoves DEF RoomIntel!StopListening, Resets
  <2>3. UNCHANGED <<mem, dirty, onDisk>>
    BY <1>2 DEF RoomIntel!Call, RoomIntel!AskModel, RoomIntel!Leave, RoomIntel!Stop, RoomIntel!StopListening
  <2> QED  BY <2>1, <2>2, <2>3, SetStays DEF Resets
<1>3. CASE \/ RoomIntel!Lock(j) \/ RoomIntel!ReadTable(j) \/ RoomIntel!ReadPending(j)
           \/ RoomIntel!ForgetBuffered(j) \/ RoomIntel!ForgetWritten(j)
           \/ RoomIntel!HLock(j) \/ RoomIntel!ForgetHabits(j) \/ RoomIntel!ClearHabits(j)
           \/ RoomIntel!Keep(j) \/ RoomIntel!Build(j) \/ RoomIntel!Save(j)
  <2>1. Moved(j) /\ job'[j].step # "write"
    BY <1>1, <1>3, LockMoves, RecorderMoves
  <2>2. job[j].step # "write" /\ (Resets(j) => RoomIntel!Lock(j))
    BY <1>3 DEF Resets, RoomIntel!Lock, RoomIntel!ReadTable, RoomIntel!ReadPending, RoomIntel!ForgetBuffered,
                RoomIntel!ForgetWritten, RoomIntel!HLock, RoomIntel!ForgetHabits, RoomIntel!ClearHabits,
                RoomIntel!Keep, RoomIntel!Build, RoomIntel!Save
  <2>3. RoomIntel!Lock(j) /\ Resets(j) => Resets(j)'
    BY <1>1, LockMoves DEF RoomIntel!Lock, Resets
  <2>4. UNCHANGED <<mem, dirty, onDisk>>
    BY <1>3 DEF RoomIntel!Lock, RoomIntel!ReadTable, RoomIntel!ReadPending, RoomIntel!ForgetBuffered,
                RoomIntel!ForgetWritten, RoomIntel!HLock, RoomIntel!ForgetHabits, RoomIntel!ClearHabits,
                RoomIntel!Keep, RoomIntel!Build, RoomIntel!Save
  <2> QED  BY <2>1, <2>2, <2>3, <2>4, SetStays
<1> QED  BY <1>2, <1>3

(* It is drained and written, wiped and cleared. *)
LEMMA WritesKeepSet ==
    ASSUME CallsHeld, SetKept, NEW j \in Jobs,
           RoomIntel!Drain(j) \/ RoomIntel!Write(j) \/ RoomIntel!Wipe(j) \/ RoomIntel!ClearLog(j)
    PROVE  SetKept'
<1> USE DEF RoomIntel!lastOn, RoomIntel!At
<1>1. IntelTypes /\ Locks(j) /\ mem \in Nat /\ None \notin Nat
  BY IntelConstants DEF CallsHeld, IntelTypes
<1>2. CASE RoomIntel!Drain(j)
  <2>1. /\ Moved(j) /\ job'[j].step = "write" /\ job'[j].on = IF dirty THEN mem ELSE None
        /\ job'[j].kind = job[j].kind
    BY <1>1, <1>2, RecorderMoves
  <2>2. /\ job[j].step = "locked" /\ job[j].kind # "clear"
        /\ mem' = mem /\ dirty' = FALSE /\ onDisk' = onDisk
    BY <1>2 DEF RoomIntel!Drain
  <2>3. \A k \in Jobs \ {j} : job'[k] = job[k]
    BY <2>1 DEF Moved
  <2>4. \A k \in Jobs \ {j} : job[k].step # "write"
    BY <2>2 DEF CallsHeld, Locks
  <2>5. ~Resets(j)
    BY <2>2 DEF Resets
  <2>6. CASE dirty
    BY <2>1, <2>2, <2>3, <2>4, <2>6 DEF SetKept, Resets
  <2>7. CASE ~dirty
    <3>1. \/ mem = onDisk
          \/ \E k \in Jobs \ {j} : Resets(k)
      BY <2>2, <2>4, <2>5, <2>7 DEF SetKept
    <3> QED  BY <2>1, <2>2, <2>3, <2>4, <2>7, <3>1 DEF SetKept, Resets
  <2> QED  BY <2>6, <2>7 DEF IntelTypes
<1>3. CASE RoomIntel!Write(j)
  <2>1. Moved(j) /\ job'[j].step \notin {"write", "stop", "lock", "locked"}
    BY <1>1, <1>3, RecorderMoves
  <2>2. /\ job[j].step = "write" /\ mem' = mem
        /\ \/ job[j].on = None /\ onDisk' = onDisk /\ dirty' = dirty
           \/ job[j].on # None /\ onDisk' = job[j].on /\ dirty' = dirty
           \/ dirty' = TRUE
    BY <1>3 DEF RoomIntel!Write
  <2>3. \A k \in Jobs \ {j} : job'[k] = job[k] /\ job[k].step # "write"
    BY <2>1, <2>2 DEF CallsHeld, Locks, Moved
  <2>4. (\A k \in Jobs : job'[k].step # "write") /\ \A k \in Jobs \ {j} : Resets(k) => Resets(k)'
    BY <2>1, <2>3 DEF Resets
  <2>5. ~Resets(j)
    <3>1. job[j].step \notin {"stop", "lock", "locked"}
      BY <2>2
    <3> QED  BY <3>1 DEF Resets
  <2>6. CASE job[j].on = None /\ onDisk' = onDisk /\ dirty' = dirty
    <3>1. dirty \/ mem = onDisk \/ \E k \in Jobs \ {j} : Resets(k)
      BY <1>1, <2>3, <2>5, <2>6 DEF SetKept
    <3> QED  BY <2>2, <2>4, <2>6, <3>1 DEF SetKept
  <2>7. CASE job[j].on # None /\ onDisk' = job[j].on /\ dirty' = dirty
    <3>1. dirty \/ job[j].on = mem
      BY <2>2, <2>7 DEF SetKept
    <3> QED  BY <2>2, <2>4, <2>7, <3>1 DEF SetKept
  <2>8. CASE dirty' = TRUE
    BY <2>4, <2>8 DEF SetKept
  <2> QED  BY <2>2, <2>6, <2>7, <2>8
<1>4. CASE RoomIntel!Wipe(j)
  <2>1. Moved(j) /\ job'[j].step = "stop" /\ mem' = mem /\ dirty' = dirty
    BY <1>1, <1>4, CallMoves DEF RoomIntel!Wipe
  <2> QED  BY <2>1 DEF SetKept, Resets, Moved
<1>5. CASE RoomIntel!ClearLog(j)
  <2>1. /\ Moved(j) /\ job'[j].step = "hlock" /\ job[j].step = "locked"
        /\ mem' = 0 /\ dirty' = FALSE /\ onDisk' = 0
    BY <1>1, <1>5, LockMoves DEF RoomIntel!ClearLog
  <2>2. \A k \in Jobs \ {j} : job[k].step # "write"
    BY <2>1 DEF CallsHeld, Locks
  <2> QED  BY <2>1, <2>2 DEF SetKept, Moved
<1> QED  BY <1>2, <1>3, <1>4, <1>5

LEMMA SetStep == CallsHeld /\ SetKept /\ [RoomIntel!Next]_(RoomIntel!vars) => SetKept'
<1> SUFFICES ASSUME CallsHeld, SetKept, [RoomIntel!Next]_(RoomIntel!vars) PROVE SetKept'
  OBVIOUS
<1> USE DEF RoomIntel!lastOn
<1>1. CASE RoomIntel!Start
  <2>1. /\ \A j \in Jobs : job'[j].step = "idle"
        /\ mem' = onDisk' /\ dirty' = FALSE
    BY <1>1, StartHolds DEF RoomIntel!Start
  <2> QED  BY <2>1 DEF SetKept
<1>2. CASE \/ \E m \in Members : RoomIntel!Command(m)
           \/ \E m \in Members \cup {None} : RoomIntel!Change(m)
           \/ RoomIntel!WentDark \/ RoomIntel!Prune \/ RoomIntel!ResetHabits \/ RoomIntel!Midnight
           \/ \E status \in {"learning", "paused", "off"} : RoomIntel!SetLearning(status)
  <2>1. job' = job
    BY <1>2, NoCallHolds
  <2>2. UNCHANGED <<mem, dirty, onDisk>> \/ dirty' = TRUE
    BY <1>2 DEF RoomIntel!Command, RoomIntel!Change, RoomIntel!WentDark, RoomIntel!Prune, RoomIntel!ResetHabits,
                RoomIntel!Midnight, RoomIntel!SetLearning
  <2> QED  BY <2>1, <2>2 DEF SetKept, Resets
<1>3. CASE UNCHANGED RoomIntel!vars
  BY <1>3 DEF RoomIntel!vars, SetKept, Resets
<1> QED  BY <1>1, <1>2, <1>3, CallsKeepSet, WritesKeepSet DEF RoomIntel!Next

-----------------------------------------------------------------------------
(* What is learned. *)
Learns == \A r \in RoomIntel!Rows : InHabits(r)' => InHabits(r) \/ (r \in table /\ Learnable(r))
NothingLeft == \A r \in RoomIntel!Rows : ~InHabits(r)'

LEMMA HabitsShrink ==
    ASSUME CallsHeld, NEW j \in Jobs, Moved(j), job'[j].step # "save",
           kept' = kept, model' \in {None, model}, saved' \in {None, saved}
    PROVE  Learns
<1>1. \A k \in Jobs : job'[k].step = "save" => job'[k] = job[k]
  BY DEF Moved
<1> QED  BY <1>1 DEF Learns, InHabits

(* The learner's lock: nobody else is about to save a model. *)
LEMMA SavesAlone ==
    ASSUME CallsHeld, NEW j \in Jobs, hlock \in {None, j}
    PROVE  \A k \in Jobs \ {j} : job[k].step # "save"
<1> SUFFICES ASSUME NEW k \in Jobs \ {j}, job[k].step = "save" PROVE FALSE
  OBVIOUS
<1>1. Locks(k) /\ job[k].kind \in {"model"}
  BY KindsAre DEF CallsHeld, Locks
<1>2. hlock = k
  BY <1>1 DEF Locks
<1> QED  BY <1>2, IntelConstants

LEMMA KeepLearns == ASSUME CallsHeld, NEW j \in Jobs, RoomIntel!Keep(j)  PROVE  Learns
<1>1. IntelTypes
  BY DEF CallsHeld
<1>2. \A k \in Jobs : job'[k].step = "save" => job'[k] = job[k]
  BY <1>1, LockMoves DEF Moved
<1>3. /\ kept' = [y \in DOMAIN kept |-> IF kept[y] = None /\ RoomIntel!Finished(y) THEN RoomIntel!Copy(y) ELSE kept[y]]
      /\ UNCHANGED <<model, saved>>
  BY DEF RoomIntel!Keep
<1>4. ASSUME NEW r \in RoomIntel!Rows, NEW y \in Ramadans, RoomIntel!Finished(y), r \in RoomIntel!Copy(y)
      PROVE  r \in table /\ Learnable(r)
  BY <1>1, <1>4 DEF RoomIntel!Finished, RoomIntel!Dates, RoomIntel!Copy, RoomIntel!Unblocked, RoomIntel!Rows, Learnable
<1>5. DOMAIN kept = Ramadans
  BY <1>1 DEF IntelTypes
<1> SUFFICES ASSUME NEW r \in RoomIntel!Rows, InHabits(r)'
             PROVE  InHabits(r) \/ (r \in table /\ Learnable(r))
  BY DEF Learns
<1>6. CASE \E y \in Ramadans : kept'[y] # None /\ r \in kept'[y]
  <2>1. PICK y \in Ramadans : kept'[y] # None /\ r \in kept'[y]
    BY <1>6
  <2>2. CASE kept[y] = None /\ RoomIntel!Finished(y)
    BY <1>3, <1>4, <1>5, <2>1, <2>2
  <2>3. CASE ~(kept[y] = None /\ RoomIntel!Finished(y))
    BY <1>3, <1>5, <2>1, <2>3 DEF InHabits
  <2> QED  BY <2>2, <2>3
<1>7. CASE ~\E y \in Ramadans : kept'[y] # None /\ r \in kept'[y]
  BY <1>2, <1>3, <1>7 DEF InHabits
<1> QED  BY <1>6, <1>7

LEMMA BuildLearns == ASSUME CallsHeld, NEW j \in Jobs, RoomIntel!Build(j)  PROVE  Learns
<1> USE DEF RoomIntel!habits
<1>1. IntelTypes
  BY DEF CallsHeld
<1>2. /\ UNCHANGED <<model, saved, kept>> /\ \A k \in Jobs \ {j} : job'[k] = job[k]
      /\ job'[j].rows = IF RoomIntel!RowsOf(saved, RoomIntel!Key) = None THEN RoomIntel!Learned ELSE saved.rows
  BY <1>1, RecorderMoves DEF RoomIntel!Build, Moved
<1>3. RoomIntel!RowsOf(saved, RoomIntel!Key) # None => saved # None
  BY DEF RoomIntel!RowsOf
<1>4. DOMAIN kept = Ramadans
  BY <1>1 DEF IntelTypes
<1>5. \A r \in RoomIntel!Learned : InHabits(r) \/ (r \in table /\ Learnable(r))
  BY <1>4 DEF RoomIntel!Learned, RoomIntel!Usable, Learnable, InHabits
<1> SUFFICES ASSUME NEW r \in RoomIntel!Rows, InHabits(r)'
             PROVE  InHabits(r) \/ (r \in table /\ Learnable(r))
  BY DEF Learns
<1>6. CASE r \in job'[j].rows
  BY <1>2, <1>3, <1>5, <1>6 DEF InHabits
<1>7. CASE r \notin job'[j].rows
  BY <1>2, <1>7 DEF InHabits
<1> QED  BY <1>6, <1>7

LEMMA SaveLearns == ASSUME CallsHeld, NEW j \in Jobs, RoomIntel!Save(j)  PROVE  Learns
<1>1. IntelTypes
  BY DEF CallsHeld
<1>2. /\ job[j].step = "save" /\ kept' = kept
      /\ saved'.rows = job[j].rows /\ model' = saved'
  BY DEF RoomIntel!Save, RoomIntel!At
<1>3. \A k \in Jobs : job'[k].step = "save" => job'[k] = job[k]
  BY <1>1, LockMoves DEF Moved
<1> QED  BY <1>2, <1>3 DEF Learns, InHabits

LEMMA ForgetLearns ==
    ASSUME CallsHeld, NEW j \in Jobs, RoomIntel!ForgetHabits(j)
    PROVE  Learns /\ \A r \in RoomIntel!Rows : InHabits(r)' => r.who # job[j].who
<1> USE DEF RoomIntel!At
<1>1. IntelTypes /\ Locks(j)
  BY DEF CallsHeld
<1>2. /\ model' = None /\ saved' = None /\ hlock = j
      /\ kept' = [y \in DOMAIN kept |-> IF kept[y] = None THEN None ELSE RoomIntel!Without(kept[y], job[j].who)]
  BY <1>1 DEF RoomIntel!ForgetHabits, Locks
<1>3. \A k \in Jobs : job'[k].step # "save"
  <2>1. Moved(j) /\ job'[j].step = "idle"
    BY <1>1, LockMoves
  <2> QED  BY <1>2, <2>1, SavesAlone DEF Moved
<1>4. DOMAIN kept = Ramadans
  BY <1>1 DEF IntelTypes
<1> SUFFICES ASSUME NEW r \in RoomIntel!Rows, InHabits(r)'
             PROVE  InHabits(r) /\ r.who # job[j].who
  BY DEF Learns
<1>5. PICK y \in Ramadans : kept'[y] # None /\ r \in kept'[y]
  BY <1>2, <1>3 DEF InHabits
<1>6. kept[y] # None /\ r \in kept[y] /\ r.who # job[j].who
  BY <1>2, <1>4, <1>5 DEF RoomIntel!Without
<1> QED  BY <1>6 DEF InHabits

LEMMA ClearLearns == ASSUME CallsHeld, NEW j \in Jobs, RoomIntel!ClearHabits(j)  PROVE  NothingLeft
<1>1. IntelTypes /\ Locks(j)
  BY DEF CallsHeld
<1>2. model' = None /\ saved' = None /\ hlock = j /\ kept' = RoomIntel!NoCopies
  BY <1>1 DEF RoomIntel!ClearHabits, RoomIntel!At, Locks
<1>3. \A k \in Jobs : job'[k].step # "save"
  <2>1. Moved(j) /\ job'[j].step = "idle"
    BY <1>1, LockMoves
  <2> QED  BY <1>2, <2>1, SavesAlone DEF Moved
<1>4. \A y \in Ramadans : kept'[y] = None
  BY <1>1, <1>2 DEF IntelTypes, RoomIntel!NoCopies
<1> QED  BY <1>2, <1>3, <1>4 DEF NothingLeft, InHabits

LEMMA ResetLearns == ASSUME CallsHeld, RoomIntel!ResetHabits  PROVE  NothingLeft
<1>1. IntelTypes /\ hlock = None /\ job' = job
  BY NoCallHolds DEF CallsHeld, RoomIntel!ResetHabits
<1>2. model' = None /\ saved' = None /\ kept' = RoomIntel!NoCopies
  BY DEF RoomIntel!ResetHabits
<1>3. \A k \in Jobs : job'[k].step # "save"
  <2> SUFFICES ASSUME NEW k \in Jobs, job[k].step = "save" PROVE FALSE
    BY <1>1
  <2>1. Locks(k) /\ job[k].kind \in {"model"}
    BY KindsAre DEF CallsHeld, Locks
  <2> QED  BY <1>1, <2>1, IntelConstants DEF Locks
<1>4. \A y \in Ramadans : kept'[y] = None
  BY <1>1, <1>2 DEF IntelTypes, RoomIntel!NoCopies
<1> QED  BY <1>2, <1>3, <1>4 DEF NothingLeft, InHabits

(* Whatever happens, what is learned was known or is a row that may be. *)
LEMMA HabitsGrow == CallsHeld /\ [RoomIntel!Next]_(RoomIntel!vars) => Learns
<1> SUFFICES ASSUME CallsHeld, [RoomIntel!Next]_(RoomIntel!vars) PROVE Learns
  OBVIOUS
<1> USE DEF RoomIntel!habits
<1>1. IntelTypes
  BY DEF CallsHeld
<1>2. ASSUME NEW j \in Jobs,
             \/ \E kind \in {"flush", "read"} : RoomIntel!Call(j, kind)
             \/ \E kind \in {"model", "maintain"} : RoomIntel!AskModel(j, kind)
             \/ \E m \in Members : RoomIntel!Leave(j, m)
             \/ RoomIntel!Stop(j) \/ RoomIntel!StopListening(j)
             \/ RoomIntel!Lock(j) \/ RoomIntel!Drain(j) \/ RoomIntel!Write(j) \/ RoomIntel!ReadTable(j)
             \/ RoomIntel!ReadPending(j) \/ RoomIntel!ForgetBuffered(j) \/ RoomIntel!ForgetWritten(j)
             \/ RoomIntel!ClearLog(j) \/ RoomIntel!HLock(j)
      PROVE  Learns
  <2>1. Moved(j) /\ job'[j].step # "save"
    BY <1>1, <1>2, CallMoves, RecorderMoves, LockMoves
  <2>2. UNCHANGED <<model, saved, kept>>
    BY <1>2 DEF RoomIntel!Call, RoomIntel!AskModel, RoomIntel!Leave, RoomIntel!Stop, RoomIntel!StopListening,
                RoomIntel!Lock, RoomIntel!Drain, RoomIntel!Write, RoomIntel!ReadTable, RoomIntel!ReadPending,
                RoomIntel!ForgetBuffered, RoomIntel!ForgetWritten, RoomIntel!ClearLog, RoomIntel!HLock
  <2> QED  BY <2>1, <2>2, HabitsShrink
<1>3. ASSUME NEW j \in Jobs, RoomIntel!Wipe(j) PROVE Learns
  <2>1. \A k \in Jobs : job'[k].step = "save" => job'[k] = job[k]
    BY <1>1, <1>3, CallMoves DEF Moved
  <2>2. model' = model /\ saved' = None /\ \A y \in Ramadans : kept'[y] = None
    BY <1>1, <1>3 DEF RoomIntel!Wipe, RoomIntel!NoCopies, IntelTypes
  <2> QED  BY <2>1, <2>2 DEF Learns, InHabits
<1>4. CASE \/ \E m \in Members : RoomIntel!Command(m)
           \/ \E m \in Members \cup {None} : RoomIntel!Change(m)
           \/ RoomIntel!WentDark \/ RoomIntel!Prune \/ RoomIntel!Midnight
           \/ \E status \in {"learning", "paused", "off"} : RoomIntel!SetLearning(status)
  <2>1. job' = job
    BY <1>4, NoCallHolds
  <2>2. kept' = kept /\ model' \in {None, model} /\ saved' \in {None, saved}
    BY <1>4 DEF RoomIntel!Command, RoomIntel!Change, RoomIntel!WentDark, RoomIntel!Prune,
                RoomIntel!Midnight, RoomIntel!SetLearning
  <2> QED  BY <2>1, <2>2 DEF Learns, InHabits
<1>5. CASE RoomIntel!ResetHabits
  BY <1>5, ResetLearns DEF NothingLeft, Learns
<1>6. CASE RoomIntel!Start
  <2>1. \A j \in Jobs : job'[j].step = "idle"
    BY <1>6, StartHolds
  <2>2. kept' = kept /\ model' = None /\ saved' = saved
    BY <1>6 DEF RoomIntel!Start
  <2> QED  BY <2>1, <2>2 DEF Learns, InHabits
<1>7. ASSUME NEW j \in Jobs, RoomIntel!ClearHabits(j) PROVE Learns
  BY <1>7, ClearLearns DEF NothingLeft, Learns
<1>8. CASE UNCHANGED RoomIntel!vars
  BY <1>8 DEF RoomIntel!vars, Learns, InHabits
<1> QED  BY <1>2, <1>3, <1>4, <1>5, <1>6, <1>7, <1>8, KeepLearns, BuildLearns, SaveLearns, ForgetLearns DEF RoomIntel!Next

LEMMA HonestStep == CallsHeld /\ HabitsHonest /\ [RoomIntel!Next]_(RoomIntel!vars) => HabitsHonest'
<1> SUFFICES ASSUME CallsHeld, HabitsHonest, [RoomIntel!Next]_(RoomIntel!vars) PROVE HabitsHonest'
  OBVIOUS
<1> USE DEF RoomIntel!habits
<1>1. IntelTypes /\ Learns
  BY HabitsGrow DEF CallsHeld
<1>2. \A r \in RoomIntel!Rows : InHabits(r)' => Learnable(r)
  BY <1>1 DEF Learns, HabitsHonest
<1>3. CASE UNCHANGED <<today, settings>>
  BY <1>2, <1>3 DEF HabitsHonest, Learnable
<1>4. \A r \in RoomIntel!Rows : r.day \in Nat
  BY IntelAssumption DEF RoomIntel!Rows, RoomIntel!Dates
<1>5. today \in Nat /\ settings.blocked \subseteq Days /\ settings.reset \in Nat
      /\ settings \in [status : {"learning", "paused", "off"}, blocked : SUBSET Days, reset : Nat]
  BY <1>1, IntelAssumption DEF IntelTypes, Days
<1>6. CASE RoomIntel!Midnight
  <2>1. /\ today' = today + 1 /\ settings'.reset = settings.reset
        /\ settings'.blocked \subseteq settings.blocked \cup {today + 1}
    BY <1>5, <1>6 DEF RoomIntel!Midnight
  <2> QED  BY <1>2, <1>4, <1>5, <2>1 DEF HabitsHonest, Learnable
<1>7. ASSUME NEW status \in {"learning", "paused", "off"}, RoomIntel!SetLearning(status) PROVE HabitsHonest'
  <2>1. /\ today' = today /\ settings'.reset = settings.reset
        /\ settings'.blocked \subseteq settings.blocked \cup {today}
    BY <1>5, <1>7 DEF RoomIntel!SetLearning
  <2> QED  BY <1>2, <1>4, <1>5, <2>1 DEF HabitsHonest, Learnable
<1>8. CASE RoomIntel!ResetHabits \/ \E j \in Jobs : RoomIntel!ClearHabits(j)
  BY <1>8, ResetLearns, ClearLearns DEF NothingLeft, HabitsHonest
<1>9. CASE \/ \E m \in Members : RoomIntel!Command(m)
           \/ \E m \in Members \cup {None} : RoomIntel!Change(m)
           \/ RoomIntel!WentDark \/ RoomIntel!Prune \/ RoomIntel!Start
  <2>1. UNCHANGED <<today, settings>>
    BY <1>9 DEF RoomIntel!Command, RoomIntel!Change, RoomIntel!WentDark, RoomIntel!Prune, RoomIntel!Start
  <2> QED  BY <1>3, <2>1
<1>10. ASSUME NEW j \in Jobs,
              \/ \E kind \in {"flush", "read"} : RoomIntel!Call(j, kind)
              \/ \E kind \in {"model", "maintain"} : RoomIntel!AskModel(j, kind)
              \/ \E m \in Members : RoomIntel!Leave(j, m)
              \/ RoomIntel!Stop(j) \/ RoomIntel!Wipe(j) \/ RoomIntel!StopListening(j)
              \/ RoomIntel!Lock(j) \/ RoomIntel!Drain(j) \/ RoomIntel!Write(j) \/ RoomIntel!ReadTable(j)
              \/ RoomIntel!ReadPending(j) \/ RoomIntel!ForgetBuffered(j) \/ RoomIntel!ForgetWritten(j)
              \/ RoomIntel!ClearLog(j) \/ RoomIntel!HLock(j) \/ RoomIntel!ForgetHabits(j)
              \/ RoomIntel!Keep(j) \/ RoomIntel!Build(j) \/ RoomIntel!Save(j)
       PROVE  HabitsHonest'
  <2>1. UNCHANGED <<today, settings>>
    BY <1>10 DEF RoomIntel!Call, RoomIntel!AskModel, RoomIntel!Leave, RoomIntel!Stop, RoomIntel!Wipe,
                 RoomIntel!StopListening, RoomIntel!Lock, RoomIntel!Drain, RoomIntel!Write, RoomIntel!ReadTable,
                 RoomIntel!ReadPending, RoomIntel!ForgetBuffered, RoomIntel!ForgetWritten, RoomIntel!ClearLog,
                 RoomIntel!HLock, RoomIntel!ForgetHabits, RoomIntel!Keep, RoomIntel!Build, RoomIntel!Save
  <2> QED  BY <1>3, <2>1
<1>11. CASE UNCHANGED RoomIntel!vars
  BY <1>3, <1>11 DEF RoomIntel!vars
<1> QED  BY <1>6, <1>7, <1>8, <1>9, <1>10, <1>11 DEF RoomIntel!Next

-----------------------------------------------------------------------------
(* Where a member's rows come from: nobody comes back, who has no command     *)
(* under way is in no new row, and what is written was buffered.              *)
Spreads ==
    /\ here' \subseteq here /\ context' \subseteq context \cup here
    /\ \A r \in buffer' : r \in buffer \/ r.who = None \/ r.who \in context
    /\ \A r \in table' : r \in table \/ \E k \in Jobs : job[k].step = "write" /\ r \in job[k].rows
    /\ \A k \in Jobs : job'[k].step = "write" => \A r \in job'[k].rows :
         r \in buffer \/ (job[k].step = "write" /\ r \in job[k].rows)

LEMMA CallSpreads ==
    ASSUME CallsHeld, NEW j \in Jobs, Moved(j), job'[j].step # "write",
           here' \subseteq here, context' \subseteq context, buffer' \subseteq buffer, table' \subseteq table
    PROVE  Spreads
<1>1. \A k \in Jobs : job'[k].step = "write" => job'[k] = job[k]
  BY DEF Moved
<1> QED  BY <1>1 DEF Spreads

LEMMA RowsSpread == CallsHeld /\ [RoomIntel!Next]_(RoomIntel!vars) => Spreads
<1> SUFFICES ASSUME CallsHeld, [RoomIntel!Next]_(RoomIntel!vars) PROVE Spreads
  OBVIOUS
<1> USE DEF RoomIntel!log
<1>1. IntelTypes
  BY DEF CallsHeld
<1>2. ASSUME NEW j \in Jobs,
             \/ \E kind \in {"flush", "read"} : RoomIntel!Call(j, kind)
             \/ \E kind \in {"model", "maintain"} : RoomIntel!AskModel(j, kind)
             \/ \E m \in Members : RoomIntel!Leave(j, m)
             \/ RoomIntel!Stop(j) \/ RoomIntel!Wipe(j) \/ RoomIntel!StopListening(j)
      PROVE  Spreads
  <2>1. Moved(j) /\ job'[j].step # "write"
    BY <1>1, <1>2, CallMoves, RecorderMoves
  <2>2. /\ here' \subseteq here /\ context' \subseteq context /\ buffer' \subseteq buffer /\ table' \subseteq table
    BY <1>2 DEF RoomIntel!Call, RoomIntel!AskModel, RoomIntel!Leave, RoomIntel!Stop, RoomIntel!Wipe,
                RoomIntel!StopListening
  <2> QED  BY <2>1, <2>2, CallSpreads
<1>3. ASSUME NEW j \in Jobs,
             \/ RoomIntel!Lock(j) \/ RoomIntel!ReadTable(j) \/ RoomIntel!ReadPending(j)
             \/ RoomIntel!ForgetBuffered(j) \/ RoomIntel!ForgetWritten(j) \/ RoomIntel!ClearLog(j)
             \/ RoomIntel!HLock(j) \/ RoomIntel!ForgetHabits(j) \/ RoomIntel!ClearHabits(j)
             \/ RoomIntel!Keep(j) \/ RoomIntel!Build(j) \/ RoomIntel!Save(j)
      PROVE  Spreads
  <2>1. Moved(j) /\ job'[j].step # "write"
    BY <1>1, <1>3, LockMoves, RecorderMoves
  <2>2. /\ here' \subseteq here /\ context' \subseteq context /\ buffer' \subseteq buffer /\ table' \subseteq table
    BY <1>3 DEF RoomIntel!Lock, RoomIntel!ReadTable, RoomIntel!ReadPending, RoomIntel!ForgetBuffered,
                RoomIntel!ForgetWritten, RoomIntel!ClearLog, RoomIntel!HLock, RoomIntel!ForgetHabits,
                RoomIntel!ClearHabits, RoomIntel!Keep, RoomIntel!Build, RoomIntel!Save, RoomIntel!Without
  <2> QED  BY <2>1, <2>2, CallSpreads
<1>4. ASSUME NEW j \in Jobs, RoomIntel!Drain(j) PROVE Spreads
  <2>1. Moved(j) /\ job'[j].rows = buffer
    BY <1>1, <1>4, RecorderMoves
  <2>2. /\ here' = here /\ context' = context /\ buffer' = {} /\ table' = table
    BY <1>4 DEF RoomIntel!Drain
  <2> QED  BY <2>1, <2>2 DEF Spreads, Moved
<1>5. ASSUME NEW j \in Jobs, RoomIntel!Write(j) PROVE Spreads
  <2>1. Moved(j) /\ job'[j].step # "write"
    BY <1>1, <1>5, RecorderMoves
  <2>2. /\ here' = here /\ context' = context /\ buffer' = buffer /\ table' \subseteq table \cup job[j].rows
        /\ job[j].step = "write"
    BY <1>5 DEF RoomIntel!Write
  <2>3. \A k \in Jobs : job'[k].step = "write" => job'[k] = job[k]
    BY <2>1 DEF Moved
  <2> QED  BY <2>2, <2>3 DEF Spreads
<1>6. CASE \/ \E m \in Members : RoomIntel!Command(m)
           \/ RoomIntel!WentDark \/ RoomIntel!Prune \/ RoomIntel!ResetHabits \/ RoomIntel!Midnight
           \/ \E status \in {"learning", "paused", "off"} : RoomIntel!SetLearning(status)
  <2>1. job' = job
    BY <1>6, NoCallHolds
  <2>2. /\ here' = here /\ context' \subseteq context \cup here /\ buffer' = buffer /\ table' \subseteq table
    BY <1>6 DEF RoomIntel!Command, RoomIntel!WentDark, RoomIntel!Prune, RoomIntel!ResetHabits,
                RoomIntel!Midnight, RoomIntel!SetLearning
  <2> QED  BY <2>1, <2>2 DEF Spreads
<1>7. ASSUME NEW m \in Members \cup {None}, RoomIntel!Change(m) PROVE Spreads
  <2>1. job' = job
    BY <1>7, NoCallHolds
  <2>2. /\ here' = here /\ context' \subseteq context /\ table' = table /\ (m = None \/ m \in context)
        /\ \A r \in buffer' : r \in buffer \/ r.who = m
    BY <1>7 DEF RoomIntel!Change
  <2> QED  BY <2>1, <2>2 DEF Spreads
<1>8. CASE RoomIntel!Start
  <2>1. \A j \in Jobs : job'[j].step = "idle"
    BY <1>8, StartHolds
  <2>2. /\ here' = here /\ context' = {} /\ buffer' = {} /\ table' = table
    BY <1>8 DEF RoomIntel!Start
  <2> QED  BY <2>1, <2>2 DEF Spreads
<1>9. CASE UNCHANGED RoomIntel!vars
  BY <1>9 DEF RoomIntel!vars, Spreads
<1> QED  BY <1>2, <1>3, <1>4, <1>5, <1>6, <1>7, <1>8, <1>9 DEF RoomIntel!Next

(* Nothing of a member comes back. *)
LEMMA MembersFade ==
    ASSUME CallsHeld, [RoomIntel!Next]_(RoomIntel!vars), NEW m \in Members
    PROVE  /\ m \notin here => m \notin here'
           /\ Unbuffered(m) => Unbuffered(m)'
           /\ Unwritten(m) => Unwritten(m)'
           /\ Unlearned(m) => Unlearned(m)'
<1>1. Spreads /\ Learns /\ m # None
  BY RowsSpread, HabitsGrow, IntelConstants
<1>2. m \notin here => m \notin here'
  BY <1>1 DEF Spreads
<1>3. Unbuffered(m) => Unbuffered(m)'
  BY <1>1 DEF Spreads, Unbuffered
<1>4. Unwritten(m) => Unwritten(m)'
  BY <1>1, <1>3 DEF Spreads, Unwritten, Unbuffered
<1>5. Unlearned(m) => Unlearned(m)'
  BY <1>1, <1>4 DEF Learns, Unlearned, Unwritten
<1> QED  BY <1>2, <1>3, <1>4, <1>5

(* What a call that forgets has done so far. *)
LEMMA OthersForget ==
    ASSUME CallsHeld, MembersForgotten, [RoomIntel!Next]_(RoomIntel!vars), NEW j \in Jobs, Moved(j),
           Forgetting(job[j])', forgotten' = forgotten
    PROVE  MembersForgotten'
<1>1. ASSUME NEW k \in Jobs \ {j} PROVE Forgetting(job[k])'
  <2>1. job'[k] = job[k] /\ Forgetting(job[k])
    BY DEF Moved, MembersForgotten
  <2>2. job[k].kind = "forget" => job[k].who \in Members
    BY DEF CallsHeld, Locks
  <2>3. PICK t : t = job[k]
    OBVIOUS
  <2>4. t.kind = "forget" => t.who \in Members
    BY <2>2, <2>3
  <2>5. Forgetting(t) => Forgetting(t)'
    <3> SUFFICES ASSUME t.kind = "forget", Forgetting(t) PROVE Forgetting(t)'
      BY DEF Forgetting
    <3>1. PICK m \in Members : m = t.who
      BY <2>4
    <3> QED  BY <3>1, MembersFade DEF Forgetting
  <2> QED  BY <2>1, <2>3, <2>5
<1>2. forgotten \subseteq Members
  BY DEF CallsHeld, IntelTypes
<1> QED  BY <1>1, <1>2, MembersFade DEF MembersForgotten

LEMMA NobodyForgets ==
    ASSUME CallsHeld, MembersForgotten, [RoomIntel!Next]_(RoomIntel!vars), UNCHANGED <<job, forgotten>>
    PROVE  MembersForgotten'
<1>1. ASSUME NEW k \in Jobs PROVE Forgetting(job[k])'
  <2>1. job'[k] = job[k] /\ Forgetting(job[k])
    BY DEF MembersForgotten
  <2>2. job[k].kind = "forget" => job[k].who \in Members
    BY DEF CallsHeld, Locks
  <2>3. PICK t : t = job[k]
    OBVIOUS
  <2>4. Forgetting(t) => Forgetting(t)'
    <3> SUFFICES ASSUME t.kind = "forget", Forgetting(t) PROVE Forgetting(t)'
      BY DEF Forgetting
    <3>1. PICK m \in Members : m = t.who
      BY <2>2, <2>3
    <3> QED  BY <3>1, MembersFade DEF Forgetting
  <2> QED  BY <2>1, <2>3, <2>4
<1>2. forgotten \subseteq Members
  BY DEF CallsHeld, IntelTypes
<1> QED  BY <1>1, <1>2, MembersFade DEF MembersForgotten

(* The steps of a call that forgets. *)
LEMMA ForgetsOn ==
    ASSUME CallsHeld, LogKeeps, MembersForgotten, NEW j \in Jobs,
           [RoomIntel!Next]_(RoomIntel!vars), job[j].kind = "forget",
           RoomIntel!Lock(j) \/ RoomIntel!HLock(j) \/ RoomIntel!ForgetBuffered(j) \/ RoomIntel!ForgetWritten(j)
    PROVE  Moved(j) /\ forgotten' = forgotten /\ Forgetting(job[j])'
<1> USE DEF RoomIntel!history, RoomIntel!log, RoomIntel!At
<1>1. IntelTypes /\ Locks(j) /\ Forgetting(job[j]) /\ job[j].who \in Members
  BY DEF CallsHeld, MembersForgotten, Locks
<1>2. Moved(j) /\ job'[j].who = job[j].who
  BY <1>1, LockMoves
<1>3. forgotten' = forgotten
  BY DEF RoomIntel!Lock, RoomIntel!HLock, RoomIntel!ForgetBuffered, RoomIntel!ForgetWritten
<1>4. PICK m \in Members : m = job[j].who
  BY <1>1
<1>5. /\ m \notin here /\ m \notin here' /\ (Unbuffered(m) => Unbuffered(m)') /\ (Unwritten(m) => Unwritten(m)')
  BY <1>1, <1>4, MembersFade DEF Forgetting
<1> USE <1>1, <1>2, <1>4
<1>6. PICK t : t = job'[j] /\ t.who = m
  OBVIOUS
<1>7. Forgetting(t)' => Forgetting(job[j])'
  BY <1>6
<1>8. CASE RoomIntel!Lock(j)
  BY <1>3, <1>5, <1>8, LockMoves DEF Forgetting, RoomIntel!Lock
<1>9. CASE RoomIntel!HLock(j)
  <2>1. job[j].step = "hlock" /\ job'[j].step = "learner"
    BY <1>1, <1>9, LockMoves DEF RoomIntel!HLock
  <2>2. Unwritten(m)'
    BY <1>1, <1>4, <1>5, <2>1 DEF Forgetting
  <2> QED  BY <1>3, <1>5, <1>6, <1>7, <2>1, <2>2 DEF Forgetting, Unbuffered, Unwritten
<1>10. CASE RoomIntel!ForgetBuffered(j)
  <2>1. job'[j].step = "delete"
    BY <1>1, <1>10, LockMoves
  <2>2. Unbuffered(m)'
    BY <1>4, <1>5, <1>10 DEF Unbuffered, RoomIntel!ForgetBuffered, RoomIntel!Without
  <2> QED  BY <1>3, <1>5, <1>6, <1>7, <2>1, <2>2 DEF Forgetting, Unbuffered, Unwritten
<1>11. CASE RoomIntel!ForgetWritten(j)
  <2>1. job[j].step = "delete" /\ job'[j].step = "hlock"
    BY <1>1, <1>11, LockMoves DEF RoomIntel!ForgetWritten
  <2>2. \A r \in table' : r.who # m
    BY <1>4, <1>11 DEF RoomIntel!ForgetWritten, RoomIntel!Without
  <2>3. \A k \in Jobs : job'[k].step # "write"
    BY <1>2, <2>1 DEF CallsHeld, Locks, Moved
  <2>4. Unbuffered(m)'
    BY <1>1, <1>4, <1>5, <2>1 DEF Forgetting
  <2>5. Unwritten(m)'
    BY <2>2, <2>3, <2>4 DEF Unwritten
  <2> QED  BY <1>3, <1>5, <1>6, <1>7, <2>1, <2>5 DEF Forgetting, Unbuffered, Unwritten
<1> QED  BY <1>2, <1>3, <1>8, <1>9, <1>10, <1>11

LEMMA HabitsForget ==
    ASSUME CallsHeld, MembersForgotten, NEW j \in Jobs,
           [RoomIntel!Next]_(RoomIntel!vars), RoomIntel!ForgetHabits(j)
    PROVE  MembersForgotten'
<1> USE DEF RoomIntel!At
<1>1. IntelTypes /\ job[j].who \in Members /\ forgotten \subseteq Members
  BY DEF CallsHeld, IntelTypes, Locks, RoomIntel!ForgetHabits
<1>2. PICK m \in Members : m = job[j].who
  BY <1>1
<1>3. Unwritten(m)
  BY <1>2 DEF MembersForgotten, Forgetting, RoomIntel!ForgetHabits
<1>4. Unlearned(m)'
  BY <1>2, <1>3, MembersFade, ForgetLearns DEF Unlearned
<1>5. /\ Moved(j) /\ job'[j].kind = None /\ None # "forget"
  BY <1>1, LockMoves, IntelConstants DEF IntelKinds
<1>6. ASSUME NEW k \in Jobs PROVE Forgetting(job[k])'
  <2>1. CASE k = j
    BY <1>5, <2>1 DEF Forgetting
  <2>2. CASE k # j
    <3>1. job'[k] = job[k] /\ Forgetting(job[k])
      BY <1>5, <2>2 DEF Moved, MembersForgotten
    <3>2. job[k].kind = "forget" => job[k].who \in Members
      BY DEF CallsHeld, Locks
    <3>3. PICK t : t = job[k]
      OBVIOUS
    <3>4. Forgetting(t) => Forgetting(t)'
      <4> SUFFICES ASSUME t.kind = "forget", Forgetting(t) PROVE Forgetting(t)'
        BY DEF Forgetting
      <4>1. PICK n \in Members : n = t.who
        BY <3>2, <3>3
      <4> QED  BY <4>1, MembersFade DEF Forgetting
    <3> QED  BY <3>1, <3>3, <3>4
  <2> QED  BY <2>1, <2>2
<1>7. forgotten' = forgotten \cup {m}
  BY <1>2 DEF RoomIntel!ForgetHabits
<1> QED  BY <1>1, <1>4, <1>6, <1>7, MembersFade DEF MembersForgotten

LEMMA ForgetStep ==
    CallsHeld /\ LogKeeps /\ MembersForgotten /\ [RoomIntel!Next]_(RoomIntel!vars) => MembersForgotten'
<1> SUFFICES ASSUME CallsHeld, LogKeeps, MembersForgotten, [RoomIntel!Next]_(RoomIntel!vars)
             PROVE  MembersForgotten'
  OBVIOUS
<1> USE DEF RoomIntel!history
<1>1. IntelTypes /\ None # "forget"
  BY IntelConstants DEF CallsHeld, IntelKinds
<1>2. ASSUME NEW j \in Jobs,
             \/ \E kind \in {"flush", "read"} : RoomIntel!Call(j, kind)
             \/ \E kind \in {"model", "maintain"} : RoomIntel!AskModel(j, kind)
             \/ RoomIntel!Stop(j) \/ RoomIntel!Wipe(j) \/ RoomIntel!StopListening(j)
             \/ RoomIntel!Drain(j) \/ RoomIntel!Write(j) \/ RoomIntel!ReadTable(j) \/ RoomIntel!ReadPending(j)
             \/ RoomIntel!ClearLog(j) \/ RoomIntel!Keep(j) \/ RoomIntel!Build(j) \/ RoomIntel!Save(j)
      PROVE  MembersForgotten'
  <2>1. Moved(j) /\ job'[j].kind # "forget"
    BY <1>1, <1>2, CallMoves, RecorderMoves, LockMoves DEF RoomIntel!Drain, RoomIntel!Write, RoomIntel!ClearLog,
       RoomIntel!At, CallsHeld, Locks, KindsAt, Flushes
  <2>2. forgotten' = forgotten
    BY <1>2 DEF RoomIntel!Call, RoomIntel!AskModel, RoomIntel!Stop, RoomIntel!Wipe, RoomIntel!StopListening,
                RoomIntel!Drain, RoomIntel!Write, RoomIntel!ReadTable, RoomIntel!ReadPending,
                RoomIntel!ClearLog, RoomIntel!Keep, RoomIntel!Build, RoomIntel!Save
  <2> QED  BY <2>1, <2>2, OthersForget DEF Forgetting
<1>3. ASSUME NEW j \in Jobs, NEW m \in Members, RoomIntel!Leave(j, m) PROVE MembersForgotten'
  <2>1. Moved(j) /\ job'[j].who = m /\ job'[j].step = "lock"
    BY <1>1, <1>3, CallMoves
  <2>2. m \notin here' /\ forgotten' = forgotten
    BY <1>3 DEF RoomIntel!Leave
  <2> QED  BY <2>1, <2>2, OthersForget DEF Forgetting
<1>4. ASSUME NEW j \in Jobs,
             RoomIntel!Lock(j) \/ RoomIntel!HLock(j) \/ RoomIntel!ForgetBuffered(j) \/ RoomIntel!ForgetWritten(j)
      PROVE  MembersForgotten'
  <2>1. CASE job[j].kind = "forget"
    BY <1>4, <2>1, ForgetsOn, OthersForget
  <2>2. CASE job[j].kind # "forget"
    <3>1. Moved(j) /\ job'[j].kind # "forget"
      BY <1>1, <1>4, <2>2, LockMoves
    <3>2. forgotten' = forgotten
      BY <1>4 DEF RoomIntel!Lock, RoomIntel!HLock, RoomIntel!ForgetBuffered, RoomIntel!ForgetWritten
    <3> QED  BY <3>1, <3>2, OthersForget DEF Forgetting
  <2> QED  BY <2>1, <2>2
<1>5. ASSUME NEW j \in Jobs, RoomIntel!ClearHabits(j) PROVE MembersForgotten'
  <2>1. Moved(j) /\ job'[j].kind # "forget" /\ forgotten' = forgotten
    BY <1>1, <1>5, LockMoves DEF RoomIntel!ClearHabits
  <2> QED  BY <2>1, OthersForget DEF Forgetting
<1>6. CASE \/ \E m \in Members : RoomIntel!Command(m)
           \/ \E m \in Members \cup {None} : RoomIntel!Change(m)
           \/ RoomIntel!WentDark \/ RoomIntel!Prune \/ RoomIntel!ResetHabits \/ RoomIntel!Midnight
           \/ \E status \in {"learning", "paused", "off"} : RoomIntel!SetLearning(status)
  <2>1. job' = job
    BY <1>6, NoCallHolds
  <2>2. forgotten' = forgotten
    BY <1>6 DEF RoomIntel!Command, RoomIntel!Change, RoomIntel!WentDark, RoomIntel!Prune, RoomIntel!ResetHabits,
                RoomIntel!Midnight, RoomIntel!SetLearning
  <2> QED  BY <2>1, <2>2, NobodyForgets
<1>7. CASE RoomIntel!Start
  <2>1. \A j \in Jobs : job'[j].kind = None
    BY <1>7, StartHolds
  <2>2. forgotten' = forgotten /\ forgotten \subseteq Members
    BY <1>1, <1>7 DEF RoomIntel!Start, IntelTypes
  <2> QED  BY <1>1, <2>1, <2>2, MembersFade DEF MembersForgotten, Forgetting
<1>8. CASE UNCHANGED RoomIntel!vars
  BY <1>8, NobodyForgets DEF RoomIntel!vars
<1> QED  BY <1>2, <1>3, <1>4, <1>5, <1>6, <1>7, <1>8, HabitsForget DEF RoomIntel!Next

-----------------------------------------------------------------------------
(* A hub that does not listen. *)

LEMMA StaysStopped ==
    ASSUME CallsHeld, [RoomIntel!Next]_(RoomIntel!vars), ~RoomIntel!Start, stopped
    PROVE  stopped'
<1> USE DEF RoomIntel!log
<1>1. CASE UNCHANGED RoomIntel!vars
  BY <1>1 DEF RoomIntel!vars
<1>2. CASE \/ \E m \in Members : RoomIntel!Command(m)
           \/ \E m \in Members \cup {None} : RoomIntel!Change(m)
           \/ RoomIntel!WentDark \/ RoomIntel!Prune \/ RoomIntel!ResetHabits \/ RoomIntel!Midnight
           \/ \E status \in {"learning", "paused", "off"} : RoomIntel!SetLearning(status)
  BY <1>2 DEF RoomIntel!Command, RoomIntel!Change, RoomIntel!WentDark, RoomIntel!Prune, RoomIntel!ResetHabits,
              RoomIntel!Midnight, RoomIntel!SetLearning
<1>3. CASE \E j \in Jobs :
             \/ \E kind \in {"flush", "read"} : RoomIntel!Call(j, kind)
             \/ \E m \in Members : RoomIntel!Leave(j, m)
             \/ \E kind \in {"model", "maintain"} : RoomIntel!AskModel(j, kind)
             \/ RoomIntel!Lock(j) \/ RoomIntel!HLock(j) \/ RoomIntel!Drain(j) \/ RoomIntel!Write(j)
             \/ RoomIntel!ReadTable(j) \/ RoomIntel!ReadPending(j)
             \/ RoomIntel!ForgetBuffered(j) \/ RoomIntel!ForgetWritten(j) \/ RoomIntel!ForgetHabits(j)
             \/ RoomIntel!Wipe(j) \/ RoomIntel!StopListening(j) \/ RoomIntel!ClearLog(j) \/ RoomIntel!ClearHabits(j)
             \/ RoomIntel!Keep(j) \/ RoomIntel!Build(j) \/ RoomIntel!Save(j) \/ RoomIntel!Stop(j)
  BY <1>3 DEF RoomIntel!Call, RoomIntel!Leave, RoomIntel!AskModel, RoomIntel!Lock, RoomIntel!HLock, RoomIntel!Drain,
              RoomIntel!Write, RoomIntel!ReadTable, RoomIntel!ReadPending, RoomIntel!ForgetBuffered,
              RoomIntel!ForgetWritten, RoomIntel!ForgetHabits, RoomIntel!Wipe, RoomIntel!StopListening,
              RoomIntel!StopsListening, RoomIntel!ClearLog, RoomIntel!ClearHabits, RoomIntel!Keep, RoomIntel!Build,
              RoomIntel!Save, RoomIntel!Stop
<1> QED  BY <1>1, <1>2, <1>3 DEF RoomIntel!Next

LEMMA ClearedStays ==
    ASSUME CallsHeld, NEW j \in Jobs, Moved(j), LogCleared, job'[j].step # "write", stopped',
           buffer' \subseteq buffer, table' \subseteq table, UNCHANGED <<mem, dirty, onDisk>>
    PROVE  LogCleared'
<1>1. \A k \in Jobs : job'[k].step = "write" => job'[k] = job[k]
  BY DEF Moved
<1> QED  BY <1>1 DEF LogCleared

(* A cleared log stays so until the hub starts anew. *)
LEMMA ClearedLasts ==
    ASSUME CallsHeld, [RoomIntel!Next]_(RoomIntel!vars), ~RoomIntel!Start, LogCleared
    PROVE  LogCleared'
<1> USE DEF RoomIntel!log, RoomIntel!lastOn
<1>1. IntelTypes /\ stopped /\ stopped'
  BY StaysStopped DEF CallsHeld, LogCleared
<1>2. ASSUME NEW j \in Jobs,
             \/ \E kind \in {"flush", "read"} : RoomIntel!Call(j, kind)
             \/ \E kind \in {"model", "maintain"} : RoomIntel!AskModel(j, kind)
             \/ \E m \in Members : RoomIntel!Leave(j, m)
             \/ RoomIntel!StopListening(j)
      PROVE  LogCleared'
  <2>1. Moved(j) /\ job'[j].step # "write"
    BY <1>1, <1>2, CallMoves, RecorderMoves
  <2>2. buffer' \subseteq buffer /\ table' \subseteq table /\ UNCHANGED <<mem, dirty, onDisk>>
    BY <1>2 DEF RoomIntel!Call, RoomIntel!AskModel, RoomIntel!Leave, RoomIntel!StopListening
  <2> QED  BY <1>1, <2>1, <2>2, ClearedStays
<1>3. ASSUME NEW j \in Jobs,
             \/ RoomIntel!Lock(j) \/ RoomIntel!ReadTable(j) \/ RoomIntel!ReadPending(j)
             \/ RoomIntel!ForgetBuffered(j) \/ RoomIntel!ForgetWritten(j)
             \/ RoomIntel!HLock(j) \/ RoomIntel!ForgetHabits(j) \/ RoomIntel!ClearHabits(j)
             \/ RoomIntel!Keep(j) \/ RoomIntel!Build(j) \/ RoomIntel!Save(j)
      PROVE  LogCleared'
  <2>1. Moved(j) /\ job'[j].step # "write"
    BY <1>1, <1>3, LockMoves, RecorderMoves
  <2>2. buffer' \subseteq buffer /\ table' \subseteq table /\ UNCHANGED <<mem, dirty, onDisk>>
    BY <1>3 DEF RoomIntel!Lock, RoomIntel!ReadTable, RoomIntel!ReadPending, RoomIntel!ForgetBuffered,
                RoomIntel!ForgetWritten, RoomIntel!HLock, RoomIntel!ForgetHabits,
                RoomIntel!ClearHabits, RoomIntel!Keep, RoomIntel!Build, RoomIntel!Save, RoomIntel!Without
  <2> QED  BY <1>1, <2>1, <2>2, ClearedStays
<1>4. ASSUME NEW j \in Jobs, RoomIntel!Drain(j) PROVE LogCleared'
  <2>1. Moved(j) /\ job'[j].rows = buffer /\ job'[j].on = IF dirty THEN mem ELSE None
    BY <1>1, <1>4, RecorderMoves
  <2>2. buffer' = {} /\ dirty' = FALSE /\ UNCHANGED <<table, mem, onDisk>>
    BY <1>4 DEF RoomIntel!Drain
  <2> QED  BY <1>1, <2>1, <2>2 DEF LogCleared, Moved
<1>5. ASSUME NEW j \in Jobs, RoomIntel!Write(j) PROVE LogCleared'
  <2>1. Moved(j) /\ job'[j].step # "write"
    BY <1>1, <1>5, RecorderMoves
  <2>2. job[j].rows = {} /\ job[j].on = None
    BY <1>5 DEF LogCleared, RoomIntel!Write
  <2>3. buffer' = buffer /\ table' \subseteq table /\ UNCHANGED <<mem, dirty, onDisk>>
    BY <1>5, <2>2 DEF RoomIntel!Write
  <2> QED  BY <1>1, <2>1, <2>3, ClearedStays
<1>6. ASSUME NEW j \in Jobs, RoomIntel!ClearLog(j) PROVE LogCleared'
  <2>1. Moved(j) /\ job'[j].step # "write"
    BY <1>1, <1>6, LockMoves
  <2>2. buffer' = {} /\ table' = {} /\ mem' = 0 /\ dirty' = FALSE /\ onDisk' = 0
    BY <1>6 DEF RoomIntel!ClearLog
  <2>3. \A k \in Jobs : job'[k].step = "write" => job'[k] = job[k]
    BY <2>1 DEF Moved
  <2> QED  BY <1>1, <2>2, <2>3 DEF LogCleared
<1>7. CASE \/ \E m \in Members : RoomIntel!Command(m)
           \/ RoomIntel!Prune \/ RoomIntel!ResetHabits \/ RoomIntel!Midnight
           \/ \E status \in {"learning", "paused", "off"} : RoomIntel!SetLearning(status)
  <2>1. job' = job
    BY <1>7, NoCallHolds
  <2>2. buffer' = buffer /\ table' \subseteq table /\ UNCHANGED <<mem, dirty, onDisk>>
    BY <1>7 DEF RoomIntel!Command, RoomIntel!Prune, RoomIntel!ResetHabits, RoomIntel!Midnight, RoomIntel!SetLearning
  <2> QED  BY <1>1, <2>1, <2>2 DEF LogCleared
<1>8. CASE \/ \E m \in Members \cup {None} : RoomIntel!Change(m)
           \/ RoomIntel!WentDark \/ \E j \in Jobs : RoomIntel!Wipe(j) \/ RoomIntel!Stop(j)
  BY <1>1, <1>8 DEF RoomIntel!Change, RoomIntel!WentDark, RoomIntel!Wipe, RoomIntel!Stop
<1>9. CASE UNCHANGED RoomIntel!vars
  BY <1>9 DEF RoomIntel!vars, LogCleared
<1> QED  BY <1>2, <1>3, <1>4, <1>5, <1>6, <1>7, <1>8, <1>9 DEF RoomIntel!Next

(* What a factory reset has cleared so far. *)
LEMMA OthersClear ==
    ASSUME CallsHeld, HubCleared, [RoomIntel!Next]_(RoomIntel!vars), ~RoomIntel!Start,
           NEW k \in Jobs, job'[k] = job[k]
    PROVE  Clearing(job[k])'
<1>1. Clearing(job[k])
  BY DEF HubCleared
<1> QED  BY <1>1, StaysStopped, ClearedLasts DEF Clearing

LEMMA WipedLasts ==
    ASSUME CallsHeld, HubCleared, [RoomIntel!Next]_(RoomIntel!vars), ~RoomIntel!Start, wiped
    PROVE  LogCleared' /\ \A r \in RoomIntel!Rows : ~InHabits(r)'
<1>1. LogCleared /\ LogCleared' /\ table = {}
  BY ClearedLasts DEF HubCleared, LogCleared
<1> QED  BY <1>1, HabitsGrow DEF HubCleared, Learns

LEMMA CallsClear ==
    ASSUME CallsHeld, HubCleared, [RoomIntel!Next]_(RoomIntel!vars), ~RoomIntel!Start,
           NEW j \in Jobs, Moved(j), Clearing(job[j])', wiped' = wiped
    PROVE  HubCleared'
<1>1. \A k \in Jobs \ {j} : job'[k] = job[k]
  BY DEF Moved
<1> QED  BY <1>1, OthersClear, WipedLasts DEF HubCleared

LEMMA ClearStep == CallsHeld /\ HubCleared /\ [RoomIntel!Next]_(RoomIntel!vars) => HubCleared'
<1> SUFFICES ASSUME CallsHeld, HubCleared, [RoomIntel!Next]_(RoomIntel!vars) PROVE HubCleared'
  OBVIOUS
<1> USE DEF RoomIntel!history, RoomIntel!At
<1>1. IntelTypes /\ None # "clear" /\ \A k \in Jobs : Locks(k)
  BY IntelConstants DEF CallsHeld, IntelKinds
<1>2. ASSUME RoomIntel!Start PROVE HubCleared'
  <2>1. wiped' = FALSE /\ \A k \in Jobs : job'[k].kind = None
    BY <1>2, StartHolds DEF RoomIntel!Start
  <2> QED  BY <1>1, <2>1 DEF HubCleared, Clearing
<1> SUFFICES ASSUME ~RoomIntel!Start PROVE HubCleared'
  BY <1>2
<1>3. ASSUME NEW j \in Jobs,
             \/ \E kind \in {"flush", "read"} : RoomIntel!Call(j, kind)
             \/ \E kind \in {"model", "maintain"} : RoomIntel!AskModel(j, kind)
             \/ \E m \in Members : RoomIntel!Leave(j, m)
             \/ RoomIntel!Stop(j) \/ RoomIntel!Wipe(j) \/ RoomIntel!Drain(j) \/ RoomIntel!Write(j)
             \/ RoomIntel!ReadTable(j) \/ RoomIntel!ReadPending(j)
             \/ RoomIntel!ForgetBuffered(j) \/ RoomIntel!ForgetWritten(j) \/ RoomIntel!ForgetHabits(j)
             \/ RoomIntel!Keep(j) \/ RoomIntel!Build(j) \/ RoomIntel!Save(j)
      PROVE  HubCleared'
  <2>1. Moved(j) /\ job'[j].kind # "clear"
    <3>1. RoomIntel!Drain(j) \/ RoomIntel!Write(j) => job[j].kind # "clear"
      BY <1>1, KindsAre DEF RoomIntel!Drain, RoomIntel!Write, Locks, Flushes
    <3>2. RoomIntel!ForgetBuffered(j) \/ RoomIntel!ForgetWritten(j) => job[j].kind = "forget"
      BY DEF RoomIntel!ForgetBuffered, RoomIntel!ForgetWritten
    <3>3. CASE RoomIntel!Drain(j) \/ RoomIntel!Write(j) \/ RoomIntel!ReadTable(j) \/ RoomIntel!Build(j)
      BY <1>1, <3>1, <3>3, RecorderMoves
    <3>4. CASE \/ RoomIntel!ReadPending(j) \/ RoomIntel!ForgetBuffered(j) \/ RoomIntel!ForgetWritten(j)
               \/ RoomIntel!ForgetHabits(j) \/ RoomIntel!Keep(j) \/ RoomIntel!Save(j)
      BY <1>1, <3>2, <3>4, LockMoves
    <3> QED  BY <1>1, <1>3, <3>3, <3>4, CallMoves
  <2>2. wiped' = wiped
    BY <1>3 DEF RoomIntel!Call, RoomIntel!AskModel, RoomIntel!Leave, RoomIntel!Stop, RoomIntel!Wipe,
                RoomIntel!Drain, RoomIntel!Write, RoomIntel!ReadTable, RoomIntel!ReadPending,
                RoomIntel!ForgetBuffered, RoomIntel!ForgetWritten, RoomIntel!ForgetHabits,
                RoomIntel!Keep, RoomIntel!Build, RoomIntel!Save
  <2>3. Clearing(job[j])'
    BY <2>1 DEF Clearing
  <2> QED  BY <2>1, <2>2, <2>3, CallsClear
<1>4. ASSUME NEW j \in Jobs, RoomIntel!StopListening(j) PROVE HubCleared'
  <2>1. Moved(j) /\ job'[j].step = "lock" /\ stopped' /\ wiped' = wiped
    BY <1>1, <1>4, RecorderMoves DEF RoomIntel!StopListening, RoomIntel!StopsListening
  <2>2. Clearing(job[j])'
    BY <2>1 DEF Clearing
  <2> QED  BY <2>1, <2>2, CallsClear
<1>5. ASSUME NEW j \in Jobs, RoomIntel!Lock(j) \/ RoomIntel!HLock(j) PROVE HubCleared'
  <2>1. Moved(j) /\ job'[j].kind = job[j].kind /\ wiped' = wiped
    BY <1>1, <1>5, LockMoves DEF RoomIntel!Lock, RoomIntel!HLock
  <2>2. CASE RoomIntel!Lock(j)
    <3>1. job'[j].step = "locked" /\ Clearing(job[j])
      BY <1>1, <2>2, LockMoves DEF HubCleared
    <3>2. Clearing(job[j])'
      BY <2>1, <3>1, StaysStopped DEF Clearing
    <3> QED  BY <2>1, <3>2, CallsClear
  <2>3. CASE RoomIntel!HLock(j)
    <3>1. job[j].step = "hlock" /\ Clearing(job[j])
      BY <2>3 DEF HubCleared, RoomIntel!HLock
    <3>2. Clearing(job[j])'
      BY <2>1, <3>1, StaysStopped, ClearedLasts DEF Clearing
    <3> QED  BY <2>1, <3>2, CallsClear
  <2> QED  BY <1>5, <2>2, <2>3
<1>6. ASSUME NEW j \in Jobs, RoomIntel!ClearLog(j) PROVE HubCleared'
  <2>1. Moved(j) /\ job'[j].step = "hlock" /\ wiped' = wiped /\ rlock = j
    BY <1>1, <1>6, LockMoves DEF RoomIntel!ClearLog, Locks
  <2>2. stopped'
    BY <1>6, StaysStopped DEF HubCleared, Clearing, RoomIntel!ClearLog
  <2>3. \A k \in Jobs : job'[k].step # "write"
    BY <1>1, <2>1 DEF Locks, Moved
  <2>4. LogCleared'
    BY <1>6, <2>2, <2>3 DEF LogCleared, RoomIntel!ClearLog
  <2>5. Clearing(job[j])'
    BY <2>2, <2>4 DEF Clearing
  <2> QED  BY <2>1, <2>5, CallsClear
<1>7. ASSUME NEW j \in Jobs, RoomIntel!ClearHabits(j) PROVE HubCleared'
  <2>1. Moved(j) /\ job'[j].kind # "clear"
    BY <1>1, <1>7, LockMoves
  <2>2. LogCleared'
    <3>1. LogCleared
      BY <1>7 DEF HubCleared, Clearing, RoomIntel!ClearHabits
    <3> QED  BY <3>1, ClearedLasts
  <2>3. \A r \in RoomIntel!Rows : ~InHabits(r)'
    BY <1>7, ClearLearns DEF NothingLeft
  <2>4. \A k \in Jobs \ {j} : job'[k] = job[k]
    BY <2>1 DEF Moved
  <2>5. Clearing(job[j])'
    BY <2>1 DEF Clearing
  <2> QED  BY <2>2, <2>3, <2>4, <2>5, OthersClear DEF HubCleared
<1>8. CASE \/ \E m \in Members : RoomIntel!Command(m)
           \/ \E m \in Members \cup {None} : RoomIntel!Change(m)
           \/ RoomIntel!WentDark \/ RoomIntel!Prune \/ RoomIntel!ResetHabits \/ RoomIntel!Midnight
           \/ \E status \in {"learning", "paused", "off"} : RoomIntel!SetLearning(status)
           \/ UNCHANGED RoomIntel!vars
  <2>1. job' = job
    BY <1>8, NoCallHolds DEF RoomIntel!vars
  <2>2. wiped' = wiped
    BY <1>8 DEF RoomIntel!Command, RoomIntel!Change, RoomIntel!WentDark, RoomIntel!Prune, RoomIntel!ResetHabits,
                RoomIntel!Midnight, RoomIntel!SetLearning, RoomIntel!vars
  <2> QED  BY <2>1, <2>2, OthersClear, WipedLasts DEF HubCleared
<1> QED  BY <1>3, <1>4, <1>5, <1>6, <1>7, <1>8 DEF RoomIntel!Next

-----------------------------------------------------------------------------
(* All of it. *)

LEMMA IntelStarts == RoomIntel!Init => IntelInv
<1> SUFFICES ASSUME RoomIntel!Init PROVE IntelInv
  OBVIOUS
<1>1. CallsHeld /\ \A j \in Jobs : job[j] = RoomIntel!Idle
  BY CallsStart DEF RoomIntel!Init
<1>2. \A j \in Jobs : job[j].step = "idle" /\ job[j].kind = None
  BY <1>1, IntelIdle
<1>3. /\ buffer = {} /\ table = {} /\ mem = 0 /\ onDisk = 0 /\ model = None /\ saved = None
      /\ forgotten = {} /\ wiped = FALSE /\ \A y \in Ramadans : kept[y] = None
  BY DEF RoomIntel!Init, Ramadans, RoomIntel!Dates, Days
<1>4. LogKeeps /\ SetKept
  BY <1>2, <1>3 DEF LogKeeps, SetKept
<1>5. \A r \in RoomIntel!Rows : ~InHabits(r)
  BY <1>2, <1>3 DEF InHabits
<1>6. \A j \in Jobs : Forgetting(job[j]) /\ Clearing(job[j])
  BY <1>2, IntelConstants DEF Forgetting, Clearing, IntelKinds
<1> QED  BY <1>1, <1>3, <1>4, <1>5, <1>6 DEF IntelInv, HabitsHonest, MembersForgotten, HubCleared

LEMMA IntelKept == IntelInv /\ [RoomIntel!Next]_(RoomIntel!vars) => IntelInv'
BY CallsKept, LogStep, SetStep, HonestStep, ForgetStep, ClearStep DEF IntelInv

(* The rows of the models, the copies and the calls under way. *)
LEMMA HabitRows ==
    ASSUME CallsHeld
    PROVE  /\ \A r \in RoomIntel!Docs \cup RoomIntel!Models : r \in RoomIntel!Rows /\ InHabits(r)
           /\ \A r \in RoomIntel!InFlight : r \in RoomIntel!Rows /\
                (InHabits(r) \/ \E j \in Jobs : job[j].step = "write" /\ r \in job[j].rows)
<1>1. IntelTypes /\ DOMAIN kept = Ramadans
  BY DEF CallsHeld, IntelTypes
<1>2. \A r \in RoomIntel!Docs : r \in RoomIntel!Rows /\ InHabits(r)
  BY <1>1 DEF RoomIntel!Docs, IntelTypes, InHabits
<1>3. \A r \in RoomIntel!Models : r \in RoomIntel!Rows /\ InHabits(r)
  <2> SUFFICES ASSUME NEW m \in {model, saved}, m # None, NEW r \in m.rows
               PROVE  r \in RoomIntel!Rows /\ InHabits(r)
    BY DEF RoomIntel!Models
  <2>1. m \in LogModels
    BY <1>1 DEF IntelTypes
  <2> QED  BY <2>1 DEF LogModels, InHabits
<1>4. ASSUME NEW j \in Jobs, job[j].kind # "read", NEW r \in job[j].rows
      PROVE  r \in RoomIntel!Rows /\ (InHabits(r) \/ job[j].step = "write")
  <2>1. job[j].rows \subseteq RoomIntel!Rows
    BY <1>1 DEF IntelTypes, IntelTasks
  <2>2. Locks(j)
    BY DEF CallsHeld
  <2>3. job[j].step \in {"write", "save"}
    <3>1. job[j].step \in {"write", "pending", "save"}
      BY <1>4, <2>2 DEF Locks
    <3>2. job[j].step # "pending"
      BY <1>4, <2>2, KindsAre DEF Locks
    <3> QED  BY <3>1, <3>2
  <2> QED  BY <1>4, <2>1, <2>3 DEF InHabits
<1> QED  BY <1>2, <1>3, <1>4 DEF RoomIntel!InFlight

LEMMA IntelForgets == IntelInv => RoomIntel!LogForgets
<1> SUFFICES ASSUME IntelInv PROVE RoomIntel!LogForgets
  OBVIOUS
<1>1. CallsHeld /\ IntelTypes /\ MembersForgotten /\ HubCleared
  BY DEF IntelInv, CallsHeld
<1>2. \A r \in RoomIntel!Everything :
        r \in RoomIntel!Rows /\ (r \in buffer \/ r \in table \/ InHabits(r)
           \/ \E j \in Jobs : job[j].step = "write" /\ r \in job[j].rows)
  BY <1>1, HabitRows DEF RoomIntel!Everything, IntelTypes
<1>3. \A r \in RoomIntel!Everything : r.who \notin forgotten
  BY <1>1, <1>2 DEF MembersForgotten, Unlearned, Unwritten, Unbuffered
<1>4. wiped => RoomIntel!Everything = {} /\ onDisk = 0
  BY <1>1, <1>2 DEF HubCleared, LogCleared
<1> QED  BY <1>3, <1>4 DEF RoomIntel!LogForgets

LEMMA IntelHonest == IntelInv => RoomIntel!LogHonest
<1> SUFFICES ASSUME IntelInv PROVE RoomIntel!LogHonest
  OBVIOUS
<1>1. CallsHeld /\ IntelTypes /\ LogKeeps /\ SetKept /\ HabitsHonest
  BY DEF IntelInv, CallsHeld
<1>2. ASSUME NEW j \in Jobs, RoomIntel!At(j, "read", "pending")
      PROVE  /\ buffer \cup table \cup RoomIntel!Writing \subseteq job[j].rows \cup buffer
             /\ buffer \cap job[j].rows = {}
  <2>1. job[j].step = "pending"
    BY <1>2 DEF RoomIntel!At
  <2>2. \A k \in Jobs : job[k].step # "write"
    BY <1>1, <2>1 DEF CallsHeld, Locks
  <2>3. RoomIntel!Writing = {}
    BY <2>2 DEF RoomIntel!Writing
  <2> QED  BY <1>1, <2>1, <2>3 DEF LogKeeps
<1>3. \/ dirty \/ mem = onDisk \/ (\E j \in Jobs : job[j].step = "write" /\ job[j].on = mem)
      \/ \E j \in Jobs : job[j].step \in {"stop", "lock", "locked"} /\ job[j].kind \in {None, "clear"}
  <2>1. ASSUME NEW j \in Jobs, Resets(j)
        PROVE  job[j].step \in {"stop", "lock", "locked"} /\ job[j].kind \in {None, "clear"}
    BY <1>1, <2>1, KindsAre DEF CallsHeld, Locks, Resets
  <2> QED  BY <1>1, <2>1 DEF SetKept
<1>4. \A r \in RoomIntel!Docs \cup RoomIntel!Models : r.day \notin settings.blocked /\ settings.reset < r.day
  BY <1>1, HabitRows DEF HabitsHonest, Learnable
<1> QED  BY <1>2, <1>3, <1>4 DEF RoomIntel!LogHonest

LEMMA IntelTyped == IntelInv => RoomIntel!TypeOK /\ RoomIntel!LogForgets /\ RoomIntel!LogHonest
<1>1. IntelInv => RoomIntel!TypeOK
  BY IntelConstants DEF IntelInv, CallsHeld, IntelTypes, RoomIntel!TypeOK
<1> QED  BY <1>1, IntelForgets, IntelHonest

(* For any members, days and calls: nobody who was forgotten is in the log again *)
(* or in what was learned, and nothing is learned from days the log did not keep. *)
THEOREM LogAlwaysKept == RoomsSpec => []LogKept
<1>1. RoomsInit => (part = "intel" => IntelInv)
  BY IntelStarts DEF RoomsInit
<1>2. (part = "intel" => IntelInv) /\ [RoomsNext]_roomsVars => (part = "intel" => IntelInv)'
  <2> SUFFICES ASSUME part = "intel" => IntelInv, [RoomsNext]_roomsVars, part' = "intel"
               PROVE  IntelInv'
    OBVIOUS
  <2>1. part = "intel"
    BY DEF RoomsNext, roomsVars
  <2>2. RoomIntel!Next \/ UNCHANGED intelVars
    BY <2>1 DEF RoomsNext, roomsVars
  <2>3. [RoomIntel!Next]_(RoomIntel!vars)
    BY <2>2 DEF intelVars, RoomIntel!vars, RoomIntel!log, RoomIntel!lastOn, RoomIntel!habits, RoomIntel!locks,
                RoomIntel!history
  <2> QED  BY <2>1, <2>3, IntelKept
<1>3. (part = "intel" => IntelInv) => LogKept
  BY IntelTyped DEF LogKept
<1> QED  BY <1>1, <1>2, <1>3, PTL DEF RoomsSpec
=============================================================================
