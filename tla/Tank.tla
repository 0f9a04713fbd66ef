-------------------------------- MODULE Tank --------------------------------
(* The water tanks: the engine (tank.py), their views (tank_api.py) and the    *)
(* alerts (TankPushMonitor of push_dispatcher.py). Every provision mints a     *)
(* token of its own, here a number; a Shelly's script posts with the one it    *)
(* was uploaded with.                                                          *)
EXTENDS Naturals, FiniteSets

CONSTANTS
    None, Shellies,
    Adds, Removals,     \* provision and delete requests
    Sweeps,             \* offline sweeps at a time
    MaxMints            \* bound: tokens

VARIABLES
    record,        \* a Shelly's record: the token it was minted with
    reading,       \* its last reading: "fresh", or "stale" after 20 minutes
    low,           \* below its threshold, by its calibration
    scripts,       \* on the Shelly: what was created and what runs, by token
    add, removal,  \* the requests
    minted,        \* tokens so far
    sweep, marks,  \* TankPushMonitor: its sweeps, and the day's pushes
    answered, deleted,   \* history: tokens answered 201, and deleted by request
    pushed               \* history: pushes of the day, at most 2

hub == <<record, reading, minted>>
requests == <<add, removal>>
monitor == <<sweep, marks, pushed>>
history == <<answered, deleted>>
vars == <<hub, low, scripts, requests, monitor, history>>

Kinds == {"low", "offline"}
Idle == [step |-> "idle", shelly |-> None, token |-> 0]
NoSweep == [step |-> "idle", kind |-> None, left |-> {}, stale |-> {}, at |-> None]
Adding(a, step) == add' = [add EXCEPT ![a].step = step]
AddEnds(a) == add' = [add EXCEPT ![a] = Idle]

Registered == {s \in Shellies : record[s] # None}

-----------------------------------------------------------------------------
(* POST provision. *)

(* mint_device: 409 for a tank that is registered. *)
Mint(a, s) ==
    /\ add[a].step = "idle" /\ record[s] = None /\ minted < MaxMints
    /\ minted' = minted + 1
    /\ record' = [record EXCEPT ![s] = minted + 1]
    /\ add' = [add EXCEPT ![a] = [step |-> "clear", shelly |-> s, token |-> minted + 1]]
    /\ UNCHANGED <<reading, low, scripts, removal, monitor, history>>

(* _remove_script: the first script of our name goes. *)
Cleared(s) ==
    IF scripts[s] = {} THEN scripts' = scripts
    ELSE \E x \in scripts[s] : scripts' = [scripts EXCEPT ![s] = @ \ {x}]

(* _push_script: remove, create and upload, start; each RPC may fail. *)
Clear(a) ==
    /\ add[a].step = "clear" /\ Cleared(add[a].shelly) /\ Adding(a, "create")
    /\ UNCHANGED <<hub, low, removal, monitor, history>>

Create(a) ==
    /\ add[a].step = "create" /\ Adding(a, "start")
    /\ scripts' = [scripts EXCEPT ![add[a].shelly] =
                     @ \cup {[token |-> add[a].token, runs |-> FALSE]}]
    /\ UNCHANGED <<hub, low, removal, monitor, history>>

Start(a) ==
    LET s == add[a].shelly
        mine == [token |-> add[a].token, runs |-> FALSE]
    IN  /\ add[a].step = "start" /\ mine \in scripts[s] /\ Adding(a, "wait")
        /\ scripts' = [scripts EXCEPT ![s] = (@ \ {mine}) \cup {[mine EXCEPT !.runs = TRUE]}]
        /\ UNCHANGED <<hub, low, removal, monitor, history>>

RpcFails(a) ==
    /\ add[a].step \in {"clear", "create", "start"} /\ Adding(a, "undo")
    /\ UNCHANGED <<hub, low, scripts, removal, monitor, history>>

(* Answered, with or without a first reading. *)
Answer(a) ==
    /\ add[a].step = "wait" /\ AddEnds(a)
    /\ answered' = answered \cup {[shelly |-> add[a].shelly, token |-> add[a].token]}
    /\ UNCHANGED <<hub, low, scripts, removal, monitor, deleted>>

(* _undo_mint: delete_device with the token, so only the record it minted. *)
(* Fault: whatever record there is. *)
AnyMint(s, t) == TRUE
OwnMint(s, t) == record[s] = t

Undo(a) ==
    LET s == add[a].shelly
    IN  /\ add[a].step = "undo" /\ AddEnds(a)
        /\ IF OwnMint(s, add[a].token)
           THEN record' = [record EXCEPT ![s] = None] /\ reading' = [reading EXCEPT ![s] = None]
           ELSE UNCHANGED <<record, reading>>
        /\ UNCHANGED <<minted, low, scripts, removal, monitor, history>>

-----------------------------------------------------------------------------
(* DELETE: get_device, the script if the Shelly can be reached, delete_device. *)

Remove(r, s) ==
    /\ removal[r].step = "idle" /\ record[s] # None
    /\ removal' = [removal EXCEPT ![r] = [Idle EXCEPT !.step = "script", !.shelly = s]]
    /\ UNCHANGED <<hub, low, scripts, add, monitor, history>>

RemoveScript(r) ==
    /\ removal[r].step = "script"
    /\ removal' = [removal EXCEPT ![r].step = "delete"]
    /\ Cleared(removal[r].shelly) \/ UNCHANGED scripts
    /\ UNCHANGED <<hub, low, add, monitor, history>>

Delete(r) ==
    LET s == removal[r].shelly
    IN  /\ removal[r].step = "delete"
        /\ removal' = [removal EXCEPT ![r] = Idle]
        /\ deleted' = deleted \cup ({record[s]} \ {None})
        /\ record' = [record EXCEPT ![s] = None] /\ reading' = [reading EXCEPT ![s] = None]
        /\ UNCHANGED <<minted, low, scripts, add, monitor, answered>>

-----------------------------------------------------------------------------
(* Readings. *)

(* ingest: the device that has the token; any other token is refused. *)
Ingest(s, x) ==
    /\ x \in scripts[s] /\ x.runs /\ record[s] = x.token
    /\ reading' = [reading EXCEPT ![s] = "fresh"]
    /\ low' \in {low, [low EXCEPT ![s] = ~@]}
    /\ UNCHANGED <<record, minted, scripts, requests, monitor, history>>

Silent(s) ==
    /\ reading[s] = "fresh" /\ reading' = [reading EXCEPT ![s] = "stale"]
    /\ UNCHANGED <<record, minted, low, scripts, requests, monitor, history>>

(* set_calibration *)
Calibrate(s) ==
    /\ record[s] # None /\ low' = [low EXCEPT ![s] = ~@]
    /\ UNCHANGED <<hub, scripts, requests, monitor, history>>

-----------------------------------------------------------------------------
(* TankPushMonitor. A sweep lists the devices and takes them one by one. *)

(* The daily sweep runs alone; the watchdog's may overlap when pushes wait. *)
StartSweep(w, kind) ==
    /\ sweep[w].step = "idle"
    /\ kind = "low" => \A v \in Sweeps : sweep[v].kind # "low"
    /\ sweep' = [sweep EXCEPT ![w] =
         [step |-> "next", kind |-> kind, at |-> None,
          left |-> {s \in Registered : reading[s] # None},
          stale |-> {s \in Registered : reading[s] = "stale"}]]
    /\ UNCHANGED <<hub, low, scripts, requests, marks, pushed, history>>

(* async_check_offline, one device: the mark is set before the push is awaited. *)
(* Fault: it is set when the push was sent. *)
MarksLate == "emitted"
MarksAt == "due"

Due(w, s) == s \in sweep[w].left /\ <<sweep[w].kind, s>> \notin marks
Marked(w, s, when) ==
    marks' = IF MarksAt = when THEN marks \cup {<<sweep[w].kind, s>>} ELSE marks

CheckOffline(w, s) ==
    /\ sweep[w].step = "next" /\ sweep[w].kind = "offline" /\ Due(w, s)
    /\ s \in sweep[w].stale
    /\ sweep' = [sweep EXCEPT ![w].step = "emit", ![w].at = s, ![w].left = @ \ {s}]
    /\ Marked(w, s, "due")
    /\ UNCHANGED <<hub, low, scripts, requests, pushed, history>>

(* async_check_low_water: status is read first; a deleted tank is skipped. *)
CheckLow(w, s) ==
    /\ sweep[w].step = "next" /\ sweep[w].kind = "low" /\ Due(w, s)
    /\ s \notin sweep[w].stale /\ record[s] # None /\ low[s]
    /\ sweep' = [sweep EXCEPT ![w].step = "emit", ![w].at = s, ![w].left = @ \ {s}]
    /\ Marked(w, s, "due")
    /\ UNCHANGED <<hub, low, scripts, requests, pushed, history>>

Pass(w, s) ==
    /\ sweep[w].step = "next" /\ s \in sweep[w].left
    /\ \/ ~Due(w, s)
       \/ sweep[w].kind = "offline" /\ s \notin sweep[w].stale
       \/ sweep[w].kind = "low" /\ (s \in sweep[w].stale \/ record[s] = None \/ ~low[s])
    /\ sweep' = [sweep EXCEPT ![w].left = @ \ {s}]
    /\ UNCHANGED <<hub, low, scripts, requests, marks, pushed, history>>

Emit(w) ==
    LET x == <<sweep[w].kind, sweep[w].at>>
    IN  /\ sweep[w].step = "emit"
        /\ sweep' = [sweep EXCEPT ![w].step = "next", ![w].at = None]
        /\ pushed' = [pushed EXCEPT ![x] = IF @ = 2 THEN 2 ELSE @ + 1]
        /\ Marked(w, sweep[w].at, "emitted")
        /\ UNCHANGED <<hub, low, scripts, requests, history>>

EndSweep(w) ==
    /\ sweep[w].step = "next" /\ sweep[w].left = {}
    /\ sweep' = [sweep EXCEPT ![w] = NoSweep]
    /\ UNCHANGED <<hub, low, scripts, requests, marks, pushed, history>>

(* Midnight. As a bound, no sweep is running then. *)
NewDay ==
    /\ \A w \in Sweeps : sweep[w].step = "idle"
    /\ marks' = {} /\ pushed' = [x \in Kinds \X Shellies |-> 0]
    /\ UNCHANGED <<hub, low, scripts, requests, sweep, history>>

(* A restart of Home Assistant ends the requests and forgets the day's pushes. *)
Restart ==
    /\ add' = [a \in Adds |-> Idle] /\ removal' = [r \in Removals |-> Idle]
    /\ sweep' = [w \in Sweeps |-> NoSweep]
    /\ marks' = {} /\ pushed' = [x \in Kinds \X Shellies |-> 0]
    /\ UNCHANGED <<hub, low, scripts, history>>

-----------------------------------------------------------------------------
Init ==
    /\ record = [s \in Shellies |-> None] /\ reading = [s \in Shellies |-> None]
    /\ low = [s \in Shellies |-> FALSE] /\ scripts = [s \in Shellies |-> {}]
    /\ add = [a \in Adds |-> Idle] /\ removal = [r \in Removals |-> Idle]
    /\ minted = 0 /\ answered = {} /\ deleted = {}
    /\ sweep = [w \in Sweeps |-> NoSweep]
    /\ marks = {} /\ pushed = [x \in Kinds \X Shellies |-> 0]

Next ==
    \/ \E a \in Adds :
         \/ \E s \in Shellies : Mint(a, s)
         \/ Clear(a) \/ Create(a) \/ Start(a) \/ RpcFails(a) \/ Answer(a) \/ Undo(a)
    \/ \E r \in Removals :
         \/ \E s \in Shellies : Remove(r, s)
         \/ RemoveScript(r) \/ Delete(r)
    \/ \E s \in Shellies :
         \/ \E x \in scripts[s] : Ingest(s, x)
         \/ Silent(s) \/ Calibrate(s)
    \/ \E w \in Sweeps :
         \/ \E kind \in Kinds : StartSweep(w, kind)
         \/ \E s \in Shellies : CheckOffline(w, s) \/ CheckLow(w, s) \/ Pass(w, s)
         \/ Emit(w) \/ EndSweep(w)
    \/ NewDay \/ Restart

Spec == Init /\ [][Next]_vars

-----------------------------------------------------------------------------
Tokens == 1 .. MaxMints

TypeOK ==
    /\ record \in [Shellies -> {None} \cup Tokens] /\ minted \in 0 .. MaxMints
    /\ reading \in [Shellies -> {None, "fresh", "stale"}]
    /\ \A s \in Shellies : scripts[s] \subseteq [token : Tokens, runs : BOOLEAN]
    /\ marks \subseteq Kinds \X Shellies

(* A provision that was answered 201 keeps its record until a request deletes *)
(* it, whatever a failing provision of the same Shelly undoes.                *)
(* ProvisionKept is about _undo_mint and its token (tank_api.py).             *)
ProvisionKept ==
    \A x \in answered : record[x.shelly] = x.token \/ x.token \in deleted

(* A tank is reported at most once a day for each reason, also by sweeps that *)
(* overlap while a push waits for the relay.                                  *)
(* AlertedOnce is about the day a sweep marks before it awaits the push.      *)
AlertedOnce == \A x \in Kinds \X Shellies : pushed[x] <= 1
=============================================================================
