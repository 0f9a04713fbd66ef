------------------------------ MODULE Registry ------------------------------
(* The registry (registry.py) and the requests that write it (registry_api.py). *)
(* A call of the engine holds its lock from the first read to the last write,   *)
(* so it is one step; a request of several calls is several.  Names, icons,     *)
(* colours, sort orders and the room a device's card is shown in are left out;  *)
(* the scopes a deleted room is cut from are AuthEngine's.                      *)
EXTENDS Naturals, FiniteSets

CONSTANTS
    None,
    Unset,           \* an entity with no record: Home Assistant's area counts
    Nowhere,         \* explicitly in no room
    Area, New,       \* a room imported from an area, and one made in the app
    Ents, HaArea,    \* entities, and the area Home Assistant has each in
    GangEnt,         \* the entity that may be a gang of its device
    Devs, Tags, Keys,
    Payloads,        \* devices as apps send them
    GangPayloads,    \* gangs as apps send them
    MaxReceipts,     \* _MAX_MOVE_RECEIPTS
    MirrorGap        \* an entity may be written again before its removal reaches the
                     \* mirror, which remove_assignment writes once it let go of the lock

VARIABLES
    floor,       \* a floor: "none" yet, "here", or "gone"
    rooms, made, \* the rooms there are; New was made
    onFloor,     \* the rooms on the floor
    assigned,    \* entity assignments
    mirror,      \* the copy the event loop reads
    late,        \* removals that have not reached it
    devs,        \* user devices
    tags,        \* rooms of each tag; {} when there is no such tag
    deletion,    \* the request that deletes a room
    sent,        \* room moves, by idempotency key, as the app reviewed them
    receipt,     \* the hub's receipts: "none", "live", or "old" after a day
    moves        \* history: times a key moved something while its receipt was kept

Settled(es) == MirrorGap \/ es \cap late = {}

places == <<floor, rooms, made, onFloor>>
entities == <<assigned, mirror, late>>
moving == <<sent, receipt, moves>>
vars == <<places, entities, devs, tags, deletion, moving>>

Rooms == {Area, New}
Gangs == [solo : BOOLEAN, room : Rooms \cup {Nowhere}, own : BOOLEAN]
Records == [controls : SUBSET Ents, config : SUBSET Ents, gang : Gangs \cup {None}]

-----------------------------------------------------------------------------
(* Floors and rooms. *)

CreateFloor ==
    /\ floor = "none" /\ floor' = "here"
    /\ UNCHANGED <<rooms, made, onFloor, entities, devs, tags, deletion, moving>>

DeleteFloor ==
    /\ floor = "here" /\ onFloor = {}
    /\ floor' = "gone"
    /\ UNCHANGED <<rooms, made, onFloor, entities, devs, tags, deletion, moving>>

(* Fault: a room goes to the floor it was shown, there or not. *)
PlaceAnywhere(r) ==
    /\ r \in rooms
    /\ onFloor' \in {onFloor \ {r}} \cup (IF floor # "none" THEN {onFloor \cup {r}} ELSE {})
    /\ UNCHANGED <<floor, rooms, made, entities, devs, tags, deletion, moving>>

UpdateRoom(r) ==
    /\ r \in rooms
    /\ onFloor' \in {onFloor \ {r}} \cup (IF floor = "here" THEN {onFloor \cup {r}} ELSE {})
    /\ UNCHANGED <<floor, rooms, made, entities, devs, tags, deletion, moving>>

(* A room that is made has an id of its own: it never comes back. *)
CreateRoom ==
    /\ ~made /\ made' = TRUE
    /\ rooms' = rooms \cup {New}
    /\ onFloor' \in {onFloor} \cup (IF floor = "here" THEN {onFloor \cup {New}} ELSE {})
    /\ UNCHANGED <<floor, entities, devs, tags, deletion, moving>>

(* delete_room empties the room under one lock. *)
Vacated(place, r) == IF place = r THEN Nowhere ELSE place
VacatedGang(g, r) == IF g # None /\ g.room = r THEN [g EXCEPT !.room = Nowhere, !.own = TRUE] ELSE g
WithoutRoom(r) ==
    /\ rooms' = rooms \ {r} /\ onFloor' = onFloor \ {r}
    /\ assigned' = [e \in Ents |-> Vacated(assigned[e], r)]
    /\ mirror' = [e \in Ents |-> IF assigned[e] = r THEN Nowhere ELSE mirror[e]]
    /\ devs' = [d \in Devs |-> IF devs[d] = None THEN None
                   ELSE [devs[d] EXCEPT !.gang = VacatedGang(@, r)]]
    /\ tags' = [t \in Tags |-> tags[t] \ {r}]

(* The request: the entities that are in the room's area without a record are *)
(* found on the event loop, and pinned after the room is gone.                *)
DeleteAsked(r) ==
    /\ deletion = None
    /\ deletion' = [room |-> r, step |-> "delete",
                    pins |-> {e \in Ents : mirror[e] = Unset /\ HaArea[e] = r}]
    /\ UNCHANGED <<places, entities, devs, tags, moving>>

DeleteRoom ==
    /\ deletion # None /\ deletion.step = "delete"
    /\ IF deletion.room \in rooms
       THEN WithoutRoom(deletion.room) /\ deletion' = [deletion EXCEPT !.step = "pin"]
       ELSE deletion' = None /\ UNCHANGED <<rooms, onFloor, assigned, mirror, devs, tags>>
    /\ UNCHANGED <<floor, made, late, moving>>

Pin(e) ==
    /\ deletion # None /\ deletion.step = "pin" /\ e \in deletion.pins /\ Settled({e})
    /\ deletion' = [deletion EXCEPT !.pins = @ \ {e}]
    /\ assigned' = [assigned EXCEPT ![e] = Nowhere]
    /\ mirror' = [mirror EXCEPT ![e] = Nowhere]
    /\ UNCHANGED <<places, late, devs, tags, moving>>

RoomDeleted ==
    /\ deletion # None /\ deletion.step = "pin" /\ deletion.pins = {}
    /\ deletion' = None
    /\ UNCHANGED <<places, entities, devs, tags, moving>>

-----------------------------------------------------------------------------
(* Room tags: a room has at most one, and a tag has at least one room. *)

SetTag(t) ==
    /\ \E s \in SUBSET rooms \ {{}} :
         tags' = [u \in Tags |-> IF u = t THEN s ELSE tags[u] \ s]
    /\ UNCHANGED <<places, entities, devs, deletion, moving>>

DeleteTag(t) ==
    /\ tags[t] # {}
    /\ tags' = [tags EXCEPT ![t] = {}]
    /\ UNCHANGED <<places, entities, devs, deletion, moving>>

-----------------------------------------------------------------------------
(* Assignments. *)

Assign(e) ==
    /\ Settled({e})
    /\ \E p \in rooms \cup {Nowhere} :
         assigned' = [assigned EXCEPT ![e] = p] /\ mirror' = [mirror EXCEPT ![e] = p]
    /\ UNCHANGED <<places, late, devs, tags, deletion, moving>>

RemoveAssignment(e) ==
    /\ assigned[e] # Unset
    /\ assigned' = [assigned EXCEPT ![e] = Unset]
    /\ late' = late \cup {e}
    /\ UNCHANGED <<places, mirror, devs, tags, deletion, moving>>

RemovalMirrored(e) ==
    /\ e \in late /\ late' = late \ {e}
    /\ mirror' = [mirror EXCEPT ![e] = Unset]
    /\ UNCHANGED <<places, assigned, devs, tags, deletion, moving>>

-----------------------------------------------------------------------------
(* User devices and their gangs. *)

GrabbedElsewhere(d, ents) ==
    \E o \in Devs \ {d} : devs[o] # None /\ (devs[o].controls \cup devs[o].config) \cap ents # {}
Backed(g, controls) == IF GangEnt \in controls THEN g ELSE None
(* Fault: what the app sends is all there is of a gang. *)
NotRetained(d, g) == g

(* Older apps do not send a gang's override: the stored one is kept. *)
Retained(d, g) ==
    IF g # None /\ devs[d] # None /\ devs[d].gang # None /\ devs[d].gang.own
    THEN [g EXCEPT !.own = TRUE] ELSE g

Upsert(d) ==
    /\ \E p \in Payloads :
         /\ ~GrabbedElsewhere(d, p.controls \cup p.config)
         /\ devs' = [devs EXCEPT ![d] = [p EXCEPT !.gang = Retained(d, Backed(@, p.controls))]]
    /\ UNCHANGED <<places, entities, tags, deletion, moving>>

(* The controls never lose one they have. *)
PatchControls(d) ==
    /\ devs[d] # None
    /\ \E cs \in SUBSET Ents :
         /\ devs[d].controls \subseteq cs /\ ~GrabbedElsewhere(d, cs \cup devs[d].config)
         /\ devs' = [devs EXCEPT ![d].controls = cs]
    /\ UNCHANGED <<places, entities, tags, deletion, moving>>

PatchGangs(d) ==
    /\ devs[d] # None
    /\ \E g \in GangPayloads :
         devs' = [devs EXCEPT ![d].gang = Backed(Retained(d, g), devs[d].controls)]
    /\ UNCHANGED <<places, entities, tags, deletion, moving>>

SetGang(d) ==
    /\ devs[d] # None /\ devs[d].gang # None
    /\ \/ devs' = [devs EXCEPT ![d].gang.solo = ~@]
       \/ \E r \in Rooms \cup {Nowhere} :
            devs' = [devs EXCEPT ![d].gang.room = r, ![d].gang.own = TRUE]
    /\ UNCHANGED <<places, entities, tags, deletion, moving>>

DeleteDevice(d) ==
    /\ devs[d] # None
    /\ devs' = [devs EXCEPT ![d] = None]
    /\ UNCHANGED <<places, entities, tags, deletion, moving>>

-----------------------------------------------------------------------------
(* Room moves: compare and set, with a receipt for a retry. *)

RoomOf(e) == IF assigned[e] # Unset THEN assigned[e]
             ELSE IF HaArea[e] \in rooms THEN HaArea[e] ELSE Nowhere
Placed(g) == g.own \/ g.room # Nowhere
Primary(d) == devs[d].controls \ devs[d].config
Concerns(m) == IF m.solo THEN {GangEnt} ELSE Primary(m.dev)
Seen(m) == [e \in Concerns(m) |-> IF m.solo /\ Placed(devs[m.dev].gang)
                                  THEN devs[m.dev].gang.room ELSE RoomOf(e)]
Movable(m) ==
    /\ devs[m.dev] # None
    /\ m.solo => GangEnt \in Primary(m.dev) /\ devs[m.dev].gang # None /\ devs[m.dev].gang.solo
    /\ Concerns(m) # {}

(* An app shows a member where things are, and sends what it was told to do. *)
Review(k, d) ==
    /\ sent[k] = None
    /\ \E solo \in BOOLEAN, to \in rooms \cup {Nowhere} :
         LET m == [dev |-> d, solo |-> solo, to |-> to]
         IN  /\ Movable(m)
             /\ sent' = [sent EXCEPT ![k] =
                  [move |-> m, seen |-> Seen(m), own |-> solo /\ devs[d].gang.own]]
    /\ UNCHANGED <<places, entities, devs, tags, deletion, receipt, moves>>

(* A receipt that is kept answers; a live one for long enough. *)
Kept == {k \in Keys : receipt[k] = "live"}

(* Receipts of a day ago go, and the oldest ones of too many. *)
Remaining(k) == IF Cardinality(Kept) < MaxReceipts THEN Kept ELSE {}

WriteReceipt(k) ==
    receipt' = [j \in Keys |-> IF j = k \/ j \in Remaining(k) THEN "live" ELSE "none"]

Move(k) ==
    /\ sent[k] # None /\ receipt[k] # "live"
    /\ LET m == sent[k].move
       IN  /\ Movable(m) /\ DOMAIN sent[k].seen = Concerns(m)
           /\ m.to \in rooms \cup {Nowhere}
           /\ sent[k].seen = Seen(m)
           /\ IF m.solo
              THEN /\ devs[m.dev].gang.own = sent[k].own
                   /\ devs' = [devs EXCEPT ![m.dev].gang.room = m.to, ![m.dev].gang.own = TRUE]
                   /\ UNCHANGED entities
              ELSE /\ Settled(Concerns(m))
                   /\ assigned' = [e \in Ents |-> IF e \in Concerns(m) THEN m.to ELSE assigned[e]]
                   /\ mirror' = [e \in Ents |-> IF e \in Concerns(m) THEN m.to ELSE mirror[e]]
                   /\ UNCHANGED <<devs, late>>
    /\ WriteReceipt(k)
    /\ moves' = [j \in Keys |-> IF j = k THEN moves[k] + 1 ELSE IF j \in Remaining(k) THEN moves[j] ELSE 0]
    /\ UNCHANGED <<places, tags, deletion, sent>>

ReceiptExpires(k) ==
    /\ receipt[k] = "live"
    /\ receipt' = [receipt EXCEPT ![k] = "old"]
    /\ moves' = [moves EXCEPT ![k] = 0]
    /\ UNCHANGED <<places, entities, devs, tags, deletion, sent>>

(* The hub stops and warms its mirror up again. *)
Restart ==
    /\ mirror' = assigned /\ late' = {} /\ deletion' = None
    /\ UNCHANGED <<places, assigned, devs, tags, moving>>

(* The first run imported the areas, and the entities it found in them. *)
Init ==
    /\ floor = "none" /\ rooms = {Area} /\ made = FALSE /\ onFloor = {}
    /\ \E known \in SUBSET {e \in Ents : HaArea[e] = Area} :
         assigned = [e \in Ents |-> IF e \in known THEN Area ELSE Unset]
    /\ mirror = assigned /\ late = {}
    /\ devs = [d \in Devs |-> None] /\ tags = [t \in Tags |-> {}]
    /\ deletion = None
    /\ sent = [k \in Keys |-> None] /\ receipt = [k \in Keys |-> "none"]
    /\ moves = [k \in Keys |-> 0]

Next ==
    \/ CreateFloor \/ DeleteFloor \/ CreateRoom \/ DeleteRoom \/ RoomDeleted
    \/ \E r \in Rooms : UpdateRoom(r) \/ DeleteAsked(r)
    \/ \E t \in Tags : SetTag(t) \/ DeleteTag(t)
    \/ \E e \in Ents : Pin(e) \/ Assign(e) \/ RemoveAssignment(e) \/ RemovalMirrored(e)
    \/ \E d \in Devs : \/ Upsert(d) \/ PatchControls(d) \/ PatchGangs(d) \/ SetGang(d)
                       \/ DeleteDevice(d) \/ \E k \in Keys : Review(k, d)
    \/ \E k \in Keys : Move(k) \/ ReceiptExpires(k)
    \/ Restart

Spec == Init /\ [][Next]_vars

-----------------------------------------------------------------------------
TypeOK ==
    /\ floor \in {"none", "here", "gone"} /\ made \in BOOLEAN
    /\ rooms \subseteq Rooms /\ onFloor \subseteq Rooms
    /\ {assigned, mirror} \subseteq [Ents -> Rooms \cup {Nowhere, Unset}] /\ late \subseteq Ents
    /\ \A d \in Devs : devs[d] = None \/ devs[d] \in Records
    /\ tags \in [Tags -> SUBSET Rooms]
    /\ receipt \in [Keys -> {"none", "live", "old"}] /\ moves \in [Keys -> 0 .. 2]

(* Whatever is deleted while it is being placed, nothing the lock guards is    *)
(* left in a room or on a floor that is gone, a room has one tag, and an       *)
(* entity one device.                                                          *)
Orderly ==
    /\ \A e \in Ents : assigned[e] \in rooms \cup {Nowhere, Unset}
    /\ onFloor \subseteq rooms /\ (onFloor # {} => floor = "here")
    /\ \A t \in Tags : tags[t] \subseteq rooms
    /\ \A t, u \in Tags : t # u => tags[t] \cap tags[u] = {}
    /\ \A d \in Devs : devs[d] # None => ~GrabbedElsewhere(d, devs[d].controls \cup devs[d].config)

(* The copy that scope checks read is the stored assignment, once every *)
(* removal has reached it.                                              *)
MirrorFollows == \A e \in Ents \ late : mirror[e] = assigned[e]

(* While its receipt is kept a move happens once, however often the app    *)
(* sends it and even when everything was put back where it was.            *)
MovedOnce == \A k \in Keys : moves[k] <= 1

(* A gang that was given a place of its own never inherits its device's again *)
(* by an app that does not know of the override, or by its room's deletion.   *)
OverridesStay ==
    \A d \in Devs :
        devs[d] # None /\ devs'[d] # None /\ devs[d].gang # None /\ devs'[d].gang # None
        => (devs[d].gang.own => devs'[d].gang.own)
=============================================================================
