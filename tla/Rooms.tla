-------------------------------- MODULE Rooms --------------------------------
(***************************************************************************)
(* The commands of a room, the registry of rooms, and what the rooms log   *)
(* and learn.  A command reads the registry only for which devices are the *)
(* room's, which RoomCommand lets change at any time, and the log only     *)
(* hears of states.  They share nothing else, so a behaviour runs one part *)
(* and the others' variables are None throughout.                          *)
(***************************************************************************)
EXTENDS Naturals, FiniteSets, Sequences

CONSTANTS
    None,
    Requests, Lights, Acs, Modes, Fresh, Taps,           \* RoomCommand
    StartProfile, Extend, MaxAge,
    Unset, Nowhere, Area, New, Ents, HaArea, GangEnt,    \* Registry
    Devs, Tags, Keys, Payloads, GangPayloads, MaxReceipts,
    Members, Jobs, Year, Retention, MaxRows, MaxSets     \* RoomIntel

(* An installer chooses lights (one_tap.py); None is no request, no state, no *)
(* source and no stored record.                                               *)
ASSUME CommandAssumption ==
    /\ {Extend, MaxAge} \subseteq Nat
    /\ StartProfile \subseteq Lights /\ Lights \cap Acs = {}
    /\ Taps \subseteq {"turn_off", "turn_on"} \X {tap[2] : tap \in Taps}
    /\ Modes \cap {"on", "off", "gone", "away"} = {}
    /\ None \notin Requests \cup Modes \cup {"on", "off", "gone", "away"}
    /\ None \notin {"capture", "last_on", "start_profile"}
    /\ None \notin [level : [Lights \cup Acs -> Modes \cup {"on", None}], age : Nat]
    /\ None \notin [ids : SUBSET Lights, age : Nat] \cup [level : Modes, age : Nat]

(* Rooms are none of the marks of an assignment, and apps send devices. *)
ASSUME RegistryAssumption ==
    /\ Unset # Nowhere /\ {Unset, Nowhere} \cap {Area, New} = {}
    /\ LET gangs == [solo : BOOLEAN, room : {Area, New, Nowhere}, own : BOOLEAN]
           records == [controls : SUBSET Ents, config : SUBSET Ents, gang : gangs \cup {None}]
       IN  /\ Payloads \subseteq records /\ GangPayloads \subseteq gangs \cup {None}
           /\ None \notin gangs \cup records

(* There is a first date; None is no member, no call and no last-on set. *)
ASSUME IntelAssumption ==
    /\ {Retention, MaxRows, MaxSets} \subseteq Nat
    /\ Year \in Seq(Nat) /\ Len(Year) > 0
    /\ None \notin Members \cup Jobs \cup Nat
    /\ None \notin {"flush", "stop", "read", "model", "maintain", "forget", "clear"}

VARIABLES part,
    state, capture, last, answers, lock, cmd, taken,
    floor, rooms, made, onFloor, assigned, mirror, late, devs, tags, deletion,
    sent, receipt, moves,
    today, buffer, table, context, here, stopped, mem, dirty, onDisk, settings,
    model, saved, kept, job, rlock, hlock, rows, forgotten, wiped

RoomCommand == INSTANCE RoomCommand WITH QuitsWhileWriting <- FALSE
Registry == INSTANCE Registry WITH MirrorGap <- FALSE
RoomIntel == INSTANCE RoomIntel

commandVars == <<state, capture, last, answers, lock, cmd, taken>>
registryVars == <<floor, rooms, made, onFloor, assigned, mirror, late, devs, tags, deletion,
                  sent, receipt, moves>>
intelVars == <<today, buffer, table, context, here, stopped, mem, dirty, onDisk, settings,
               model, saved, kept, job, rlock, hlock, rows, forgotten, wiped>>
roomsVars == <<part, commandVars, registryVars, intelVars>>

NoCommand ==
    /\ state = None /\ capture = None /\ last = None /\ answers = None
    /\ lock = None /\ cmd = None /\ taken = None
NoRegistry ==
    /\ floor = None /\ rooms = None /\ made = None /\ onFloor = None
    /\ assigned = None /\ mirror = None /\ late = None /\ devs = None
    /\ tags = None /\ deletion = None /\ sent = None /\ receipt = None
    /\ moves = None
NoIntel ==
    /\ today = None /\ buffer = None /\ table = None /\ context = None
    /\ here = None /\ stopped = None /\ mem = None /\ dirty = None
    /\ onDisk = None /\ settings = None /\ model = None /\ saved = None
    /\ kept = None /\ job = None /\ rlock = None /\ hlock = None
    /\ rows = None /\ forgotten = None /\ wiped = None

RoomsInit ==
    /\ part \in {"commands", "registry", "intel"}
    /\ IF part = "commands" THEN RoomCommand!Init ELSE NoCommand
    /\ IF part = "registry" THEN Registry!Init ELSE NoRegistry
    /\ IF part = "intel" THEN RoomIntel!Init ELSE NoIntel

RoomsNext ==
    /\ UNCHANGED part
    /\ \/ /\ part = "commands" /\ RoomCommand!Next
          /\ UNCHANGED <<registryVars, intelVars>>
       \/ /\ part = "registry" /\ Registry!Next
          /\ UNCHANGED <<commandVars, intelVars>>
       \/ /\ part = "intel" /\ RoomIntel!Next
          /\ UNCHANGED <<commandVars, registryVars>>

RoomsSpec == RoomsInit /\ [][RoomsNext]_roomsVars

(* As the modules state them, each with its module's types, since a behaviour *)
(* runs one part.                                                             *)

(* A retry gets the stored answer and is not carried out (now_api.py). *)
AnsweredOnce == part = "commands" => RoomCommand!TypeOK /\ RoomCommand!AnsweredOnce

(* One tap on puts back what the room's off took, all of that and no more     *)
(* (one_tap.py, now_data.py).                                                 *)
TapRestores ==
    [][part = "commands" => RoomCommand!AcNotGuessed /\ RoomCommand!CaptureStays]_roomsVars

(* Nothing is left in a room, on a floor or with a tag that is gone, and the  *)
(* mirror follows every removal (registry.py).                                *)
Orderly == part = "registry" =>
    Registry!TypeOK /\ Registry!Orderly /\ Registry!MirrorFollows

(* Where a person put an entity it stays: a move that is sent again is not    *)
(* done again, and no app that does not know of a gang's place takes it away  *)
(* (registry.py).                                                             *)
PlacesStay ==
    /\ [](part = "registry" => Registry!MovedOnce)
    /\ [][part = "registry" => Registry!OverridesStay]_roomsVars

(* What was forgotten is in no row and no model, and the log, the last-on sets *)
(* and the habits are what was recorded (recorder.py, learner.py).             *)
LogKept == part = "intel" => RoomIntel!TypeOK /\ RoomIntel!LogForgets /\ RoomIntel!LogHonest
=============================================================================
