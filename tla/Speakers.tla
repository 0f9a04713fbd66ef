------------------------------ MODULE Speakers ------------------------------
(* The speakers (audio.py) and the client that keeps the hub on their broker     *)
(* (audio_adapter.py), as the app sets them (audio_api.py). A speaker's status   *)
(* is a retained message; paho's thread takes what the broker sends, in order.   *)
(* One adapter's requests and the next's meet only when the hub is reloaded.     *)
EXTENDS Naturals, FiniteSets

CONSTANTS
    None, Macs, Brokers, Jobs,
    Bus,            \* of a speaker: the broker it is on
    LiveMax,        \* _LIVE_MAX
    Hurried         \* a request is given up, or the hub unloads, while a client stops

VARIABLES
    broker,         \* AudioEngine._broker, stored
    enrolled,       \* AudioEngine._speakers, stored
    up,             \* the hub runs
    live,           \* AudioEngine._live
    client,         \* the adapter's: None, or where it connects and if it has
    wire, queue,    \* what its broker sent and it has not taken; removals it holds
    stray,          \* a client that an adapter before this one started
    job,            \* requests
    retained,       \* the speakers' status on their broker
    cut, heard      \* history: a PUT was given up, and the client not started since;
                    \* speakers whose status was taken while they were enrolled

stored == <<broker, enrolled>>
bus == <<client, wire, queue, stray>>
history == <<cut, heard>>
vars == <<stored, up, live, bus, job, retained, history>>

Silent == [s \in Macs |-> None]
Idle == [step |-> "idle", mac |-> None, old |-> FALSE]
At(j, step) == job[j].step = step
Goes(j, step) == job' = [job EXCEPT ![j].step = step]
Ends(j) == job' = [job EXCEPT ![j] = Idle]
Linked == client # None /\ client.link

-----------------------------------------------------------------------------
(* The registry. *)

(* enroll_speaker; what is already heard of the speaker stays. *)
Enroll(s) ==
    /\ up /\ s \notin enrolled /\ enrolled' = enrolled \cup {s}
    /\ UNCHANGED <<broker, up, live, bus, job, retained, history>>

(* DELETE: remove_speaker, in the executor. *)
Remove(j, s) ==
    /\ up /\ At(j, "idle") /\ s \in enrolled
    /\ enrolled' = enrolled \ {s} /\ live' = [live EXCEPT ![s] = None]
    /\ job' = [job EXCEPT ![j] = [step |-> "removed", mac |-> s, old |-> FALSE]]
    /\ heard' = heard \ {s}
    /\ UNCHANGED <<broker, up, bus, retained, cut>>

(* _deprovision_speaker, on the loop: by the client there is now, when there   *)
(* is one, and paho holds it while the link is down. The clears are empty      *)
(* messages, which the hub does not take for a status.                         *)
Cleared(macs, b) ==
    retained' = [s \in Macs |-> IF s \in macs /\ Bus[s] = b THEN None ELSE retained[s]]

Deprovision(j) ==
    /\ At(j, "removed") /\ Ends(j)
    /\ IF Linked
       THEN Cleared({job[j].mac}, client.to) /\ UNCHANGED queue
       ELSE /\ queue' = IF client = None THEN queue ELSE queue \cup {job[j].mac}
            /\ UNCHANGED retained
    /\ UNCHANGED <<stored, up, live, client, wire, stray, history>>

-----------------------------------------------------------------------------
(* The live status. *)

(* _live_entry: at its limit the table makes room by an unknown speaker. It is *)
(* the stalest; any of them, here.                                             *)
Unknown == {m \in Macs : live[m] # None} \ enrolled
Full == Cardinality({m \in Macs : live[m] # None}) >= LiveMax
Admits(s) == live[s] # None \/ ~Full \/ Unknown # {} \/ s \in enrolled
Evicts(s) == IF live[s] = None /\ Full /\ Unknown # {} THEN Unknown ELSE {None}

(* ingest_status: it is shown, unless there is no room for it. *)
Ingest(s, status) ==
    IF Admits(s)
    THEN \E m \in Evicts(s) :
           live' = [n \in Macs |-> IF n = s THEN status ELSE IF n = m THEN None ELSE live[n]]
    ELSE UNCHANGED live

(* _on_message, on paho's thread. *)
Take(s) ==
    /\ wire[s] # None /\ wire' = [wire EXCEPT ![s] = None]
    /\ Ingest(s, wire[s])
    /\ heard' = heard \cup ({s} \cap enrolled)
    /\ UNCHANGED <<stored, up, client, queue, stray, job, retained, cut>>

(* The speaker speaks, or the broker speaks its last will. *)
Speak(s, status) ==
    /\ retained[s] # status /\ retained' = [retained EXCEPT ![s] = status]
    /\ wire' = IF Linked /\ client.to = Bus[s] THEN [wire EXCEPT ![s] = status] ELSE wire
    /\ UNCHANGED <<stored, up, live, client, queue, stray, job, history>>

(* _on_connect: what is retained comes with the subscription, then what paho   *)
(* held goes out.                                                              *)
Connect ==
    /\ client # None /\ ~client.link /\ client' = [client EXCEPT !.link = TRUE]
    /\ wire' = [s \in Macs |-> IF Bus[s] = client.to THEN retained[s] ELSE None]
    /\ Cleared(queue, client.to) /\ queue' = {}
    /\ UNCHANGED <<stored, up, live, stray, job, history>>

(* paho connects again on its own. *)
Disconnect ==
    /\ Linked /\ client' = [client EXCEPT !.link = FALSE] /\ wire' = Silent
    /\ UNCHANGED <<stored, up, live, queue, stray, job, retained, history>>

-----------------------------------------------------------------------------
(* PUT /audio/broker. *)

(* set_broker, in the executor. *)
SetBroker(j, b) ==
    /\ up /\ At(j, "idle")
    /\ broker' = b /\ Goes(j, "wait")
    /\ UNCHANGED <<enrolled, up, live, bus, retained, history>>

(* async_start: a client for the broker that is stored, if there is one. *)
Started(b) ==
    /\ client' = IF b = None THEN None ELSE [to |-> b, link |-> FALSE]
    /\ wire' = Silent /\ queue' = {}
Starts(j) ==
    IF job[j].old
    THEN stray' = TRUE /\ UNCHANGED <<client, wire, queue, cut>>
    ELSE Started(broker) /\ cut' = FALSE /\ UNCHANGED stray

(* _reconfigure_lock, which is the adapter's. *)
Turn(j) == At(j, "wait") /\ \A k \in Jobs : At(k, "stop") => job[k].old # job[j].old

(* async_stop: without a client the next one starts at once; with one, its     *)
(* thread is joined in the executor, and what paho held goes with it.          *)
Reconfigure(j) ==
    /\ Turn(j)
    /\ IF client = None \/ job[j].old
       THEN Starts(j) /\ Ends(j)
       ELSE /\ client' = None /\ queue' = {} /\ Goes(j, "stop")
            /\ UNCHANGED <<wire, stray, cut>>
    /\ UNCHANGED <<stored, up, live, retained, heard>>

Joined(j) ==
    /\ At(j, "stop") /\ Ends(j) /\ Starts(j)
    /\ UNCHANGED <<stored, up, live, retained, heard>>

(* The app gives up: what it has stored stays, and nothing is done about it.   *)
(* A client that stops does so without it.                                     *)
Quit(j) ==
    /\ job[j].step \in {"wait", "removed"} \/ (Hurried /\ At(j, "stop"))
    /\ IF At(j, "stop") THEN Goes(j, "left") ELSE Ends(j)
    /\ cut' = (cut \/ (~At(j, "removed") /\ ~job[j].old))
    /\ UNCHANGED <<stored, up, live, bus, retained, heard>>

Left(j) ==
    /\ At(j, "left") /\ Ends(j)
    /\ UNCHANGED <<stored, up, live, bus, retained, history>>

-----------------------------------------------------------------------------
(* Set-up, unload and the end of the process. *)

SetUp ==
    /\ ~up /\ up' = TRUE
    /\ Started(broker) /\ live' = Silent
    /\ UNCHANGED <<stored, stray, job, retained, history>>

(* Requests in flight go on with the adapter and the engine they have; a       *)
(* removal looks for the adapter when it needs it.                             *)
Unload ==
    /\ up /\ up' = FALSE
    /\ Hurried \/ \A j \in Jobs : job[j].step \in {"idle", "removed"}
    /\ client' = None /\ wire' = Silent /\ queue' = {} /\ live' = Silent
    /\ job' = [j \in Jobs |-> IF job[j].step \in {"wait", "stop"}
                              THEN [job[j] EXCEPT !.old = TRUE] ELSE job[j]]
    /\ cut' = FALSE /\ heard' = {}
    /\ UNCHANGED <<stored, stray, retained>>

Halt ==
    /\ up' = FALSE /\ stray' = FALSE
    /\ client' = None /\ wire' = Silent /\ queue' = {} /\ live' = Silent
    /\ job' = [j \in Jobs |-> Idle] /\ cut' = FALSE /\ heard' = {}
    /\ UNCHANGED <<stored, retained>>

Init ==
    /\ broker \in Brokers \cup {None} /\ enrolled = {}
    /\ up = FALSE /\ live = Silent
    /\ client = None /\ wire = Silent /\ queue = {} /\ stray = FALSE
    /\ job = [j \in Jobs |-> Idle]
    /\ retained = Silent
    /\ cut = FALSE /\ heard = {}

Next ==
    \/ Connect \/ Disconnect \/ SetUp \/ Unload \/ Halt
    \/ \E s \in Macs : Enroll(s) \/ Take(s) \/ \E v \in {"online", "offline"} : Speak(s, v)
    \/ \E j \in Jobs :
         \/ \E s \in Macs : Remove(j, s)
         \/ \E b \in Brokers : SetBroker(j, b)
         \/ Deprovision(j) \/ Reconfigure(j) \/ Joined(j) \/ Quit(j) \/ Left(j)

Spec == Init /\ [][Next]_vars

-----------------------------------------------------------------------------
TypeOK ==
    /\ broker \in Brokers \cup {None} /\ enrolled \subseteq Macs
    /\ {up, stray, cut} \subseteq BOOLEAN
    /\ client # None => client.to \in Brokers /\ client.link \in BOOLEAN
    /\ \A s \in Macs : {live[s], wire[s], retained[s]} \subseteq {None, "online", "offline"}
    /\ queue \cup heard \subseteq Macs
    /\ \A j \in Jobs : job[j].step \in {"idle", "removed", "wait", "stop", "left"}

(* Two clients with one id would knock each other off the broker                *)
(* (_reconfigure_lock, audio_adapter.py:93): one at most runs or stops.         *)
OneClient ==
    LET stopping == Cardinality({j \in Jobs : job[j].step \in {"stop", "left"}})
        started == IF client = None THEN 0 ELSE 1
    IN  stopping + started <= 1 /\ ~stray

(* When no PUT is on its way the client is that of the broker stored last,      *)
(* however PUTs overlap (async_reconfigure), unless the last was given up.      *)
BusFollows ==
    up /\ ~cut /\ (\A j \in Jobs : job[j].step \in {"idle", "removed"}) =>
        IF broker = None THEN client = None ELSE client # None /\ client.to = broker

(* An enrolled speaker of this broker that was heard since it was enrolled is   *)
(* shown as it is, whatever is removed or heard besides (_live_entry), once     *)
(* what the broker sent is taken.                                               *)
StatusTrue ==
    \A s \in heard :
        /\ live[s] # None
        /\ Linked /\ client.to = Bus[s] /\ wire[s] = None /\ retained[s] # None
           => live[s] = retained[s]
=============================================================================
