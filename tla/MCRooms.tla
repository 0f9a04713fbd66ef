------------------------------ MODULE MCRooms -------------------------------
(* Rooms for TLC. *)
EXTENDS Rooms, TLC

CONSTANTS q1, q2, l1, c1, k1, e1, e2, d1, d2, t1, t2, m1

(* A light and an AC; an app that sends its off again. *)
Two == {q1, q2}
OneLight == {l1}
OneAc == {c1}
Cool == {"cool"}
OffAndOn == {<<"turn_off", k1>>, <<"turn_on", Fresh>>}

(* Two entities of one area, one of them the gang of a device. *)
TwoEnts == {e1, e2}
AllInArea == [e \in TwoEnts |-> Area]
TwoDevs == {d1, d2}
TwoTags == {t1, t2}
OneKey == {k1}
AllGangs == {None, [solo |-> TRUE, room |-> Nowhere, own |-> FALSE]}
Device(controls, config, gang) == [controls |-> controls, config |-> config, gang |-> gang]
AllDevices == {Device({e1}, {}, None), Device({e2}, {}, None), Device({e1}, {e2}, None)}
           \cup {Device(TwoEnts, {}, g) : g \in AllGangs}

OneMember == {m1}
TwoRamadans == <<1, 1, 2>>

(* The requests are alike, and so are the calls of the log. *)
Alike == Permutations(Two)

VARIABLE focus

FocusInit ==
    /\ RoomsInit
    /\ CASE part = "commands" -> focus = "all"
         [] part = "registry" -> focus \in {"places", "assignments", "devices", "moves"}
         [] part = "intel" -> focus \in {"log", "habits"}
FocusSpec == FocusInit /\ [][RoomsNext /\ UNCHANGED focus]_<<roomsVars, focus>>

(* The registry in four focuses: floors, tags and rooms; assignments and their *)
(* mirror; devices and gangs; the moves of one device's two entities. The log  *)
(* as it is written, read and cleared, or the habits learned from it over      *)
(* midnights, with a reset or "off" on the second date only, a pause until     *)
(* then, and one change of a state, flush or date between two calls.           *)
Same(v) == v' = v
Focused ==
    /\ focus \in {"assignments", "devices", "moves"} => Same(<<floor, tags>>)
    /\ CASE focus = "places" ->
              /\ Same(<<devs, late>>)
              /\ (rooms' = rooms /\ deletion = None) => Same(assigned)
         [] focus = "assignments" -> Same(devs)
         [] focus = "devices" -> Same(<<assigned, sent, rooms, deletion>>)
         [] focus = "moves" ->
              /\ Same(late) /\ devs'[d2] = None
              /\ devs'[d1] # None => devs'[d1].config = {} /\ devs'[d1].controls = Ents
         [] focus = "log" ->
              /\ Same(today) /\ settings'.status = settings.status
              /\ \A j \in Two : job'[j].kind \notin {"maintain", "model"}
         [] focus = "habits" ->
              /\ Same(mem) /\ rows' < 2 /\ settings'.reset \in {0, 2}
              /\ settings'.status = "paused" => today' < 3
              /\ settings'.status = "off" => today' = 2
              /\ (\E j \in Two : job[j].step # "idle") =>
                   /\ Same(rows) /\ Same(context)
                   /\ Same(settings) \/ today' # today \/ job' # job
              /\ context # {} => context' = {} /\ buffer' # buffer
              /\ table' \subseteq table /\ table' # table => job' # job
              /\ \A j \in Two :
                   /\ job'[j].kind \notin {"read", "flush", "stop"}
                   /\ job[j].step = "write" /\ job'[j].step # "write"
                        => job[j].rows \subseteq table'
              /\ \E j \in Two : job'[j].kind \notin {"model", "maintain"}
         [] OTHER -> TRUE

(* One device at a time is unavailable or elsewhere. *)
OneAway == part = "commands" => state[l1] \in {"on", "off"} \/ state[c1] \in {"cool", "off"}
=============================================================================
