------------------------------ MODULE Reminder ------------------------------
(* HQ's signed reminders (hq_notifications.py and the view in push_api.py).    *)
(* HQ signs every try with a nonce of its own; the network delivers a request  *)
(* late, twice or not at all, on either of the hub's listeners.                *)
EXTENDS Naturals, FiniteSets

CONSTANTS
    None, Events, Nonces, Jobs,
    Skew,          \* HQ_NOTIFICATION_MAX_SKEW_SECONDS, in ticks of the clock
    Retention,     \* HQ_NOTIFICATION_NONCE_RETENTION_SECONDS
    MaxEvents,     \* HQ_NOTIFICATION_MAX_EVENTS
    Patience,      \* bound: ticks a verified request waits for the lock
    MaxTime        \* bound: ticks

VARIABLES
    now,
    signed,           \* the requests that have arrived
    key,              \* the trust that is configured, by number
    nonces, events,   \* the rows of hq_notifications: when each was written
    job, lock,        \* the views' requests, and the one in the delivery lock
    let,              \* history: how often a nonce was let through, and
    recorded          \* when an event was last recorded, under this trust

clock == <<now, signed>>
table == <<key, nonces, events>>
history == <<let, recorded>>
vars == <<clock, table, job, lock, history>>

Requests == [event : Events, nonce : Nonces, at : 0 .. MaxTime + Skew, key : 1 .. 2]

Idle == [step |-> "idle", req |-> None, since |-> 0]
At(j, step) == job[j].step = step
Goes(j, step) == job' = [job EXCEPT ![j].step = step] /\ UNCHANGED lock
Ends(j) == job' = [job EXCEPT ![j] = Idle] /\ lock' = None

Tick ==
    /\ now < MaxTime /\ now' = now + 1
    /\ \A j \in Jobs : job[j].step \in {"wait", "reserve"} => now < job[j].since + Patience
    /\ UNCHANGED <<signed, table, job, lock, history>>

(* configure_hq_notifications: another key, and the table is cleared. *)
Configure ==
    /\ key = 1 /\ key' = 2
    /\ nonces' = [n \in Nonces |-> None] /\ events' = [e \in Events |-> None]
    /\ let' = [n \in Nonces |-> 0] /\ recorded' = [e \in Events |-> None]
    /\ UNCHANGED <<clock, job, lock>>

-----------------------------------------------------------------------------
(* The view. *)

(* verify: the signature and the time. A request arrives once more, or for   *)
(* the first time: then, as a bound, as early as its time lets it, which      *)
(* leaves its copies the longest. HQ never uses a nonce twice.                *)
New(r) == r.at = now + Skew /\ \A other \in signed : other.nonce # r.nonce

Receive(j, r) ==
    /\ At(j, "idle")
    /\ r \in signed \/ New(r)
    /\ r.key = key /\ r.at <= now + Skew /\ now <= r.at + Skew
    /\ signed' = signed \cup {r}
    /\ job' = [job EXCEPT ![j] = [step |-> "wait", req |-> r, since |-> now]]
    /\ UNCHANGED <<now, table, lock, history>>

(* Fault: each listener has a lock of its own. *)
Unlocked == TRUE
Locked == lock = None

Lock(j) ==
    /\ At(j, "wait") /\ Locked
    /\ lock' = j /\ job' = [job EXCEPT ![j].step = "reserve"]
    /\ UNCHANGED <<clock, table, history>>

(* reserve_nonce: rows past their time are pruned first. *)
(* Fault: a nonce is forgotten once its request would be too old. *)
SkewOnly(at) == at + Skew < now
Expired(at) == at + Retention < now

Reserve(j) ==
    LET n == job[j].req.nonce
        kept == [m \in Nonces |-> IF nonces[m] = None THEN None
                                  ELSE IF Expired(nonces[m]) THEN None ELSE nonces[m]]
    IN  /\ At(j, "reserve")
        /\ IF kept[n] # None
           THEN nonces' = kept /\ Ends(j) /\ UNCHANGED let
           ELSE /\ nonces' = [kept EXCEPT ![n] = now] /\ Goes(j, "previous")
                /\ let' = [let EXCEPT ![n] = @ + 1]
        /\ UNCHANGED <<clock, key, events, recorded>>

(* previous: a delivered event is answered as a duplicate. *)
Previous(j) ==
    /\ At(j, "previous")
    /\ IF events[job[j].req.event] # None THEN Ends(j) ELSE Goes(j, "send")
    /\ UNCHANGED <<clock, table, history>>

(* async_send: the relay took the push, or the hub does not know that it did; *)
(* then only the attempt is audited, and HQ's retry is sent again.            *)
Send(j) ==
    /\ At(j, "send")
    /\ Goes(j, "record") \/ Ends(j)
    /\ UNCHANGED <<clock, table, history>>

(* record_delivery, and _prune_events: the oldest rows beyond the cap go, but *)
(* among rows of one second never the one just written.                       *)
Oldest(rows, e) == {o \in DOMAIN rows \ {e} : rows[o] # None /\ \A p \in DOMAIN rows \ {e} :
                      rows[p] # None => rows[o] <= rows[p]}

Record(j) ==
    LET e == job[j].req.event
        rows == [events EXCEPT ![e] = now]
    IN  /\ At(j, "record")
        /\ IF Cardinality({o \in Events : rows[o] # None}) > MaxEvents
           THEN \E o \in Oldest(rows, e) : events' = [rows EXCEPT ![o] = None]
           ELSE events' = rows
        /\ recorded' = [recorded EXCEPT ![e] = now]
        /\ Ends(j) /\ UNCHANGED <<clock, key, nonces, let>>

(* The stop of Home Assistant, or a write that fails, cuts a request off. *)
Cut(j) ==
    /\ job[j].step \notin {"idle", "wait"} /\ Ends(j)
    /\ UNCHANGED <<clock, table, history>>

Restart ==
    /\ \E j \in Jobs : ~At(j, "idle")
    /\ job' = [j \in Jobs |-> Idle] /\ lock' = None
    /\ UNCHANGED <<clock, table, history>>

-----------------------------------------------------------------------------
Init ==
    /\ now = 0 /\ signed = {} /\ key = 1
    /\ nonces = [n \in Nonces |-> None] /\ events = [e \in Events |-> None]
    /\ job = [j \in Jobs |-> Idle] /\ lock = None
    /\ let = [n \in Nonces |-> 0] /\ recorded = [e \in Events |-> None]

Next ==
    \/ Tick \/ Configure \/ Restart
    \/ \E j \in Jobs :
         \/ \E r \in Requests : Receive(j, r)
         \/ Lock(j) \/ Reserve(j) \/ Previous(j) \/ Send(j) \/ Record(j) \/ Cut(j)

Spec == Init /\ [][Next]_vars

-----------------------------------------------------------------------------
TypeOK ==
    /\ now \in 0 .. MaxTime /\ key \in 1 .. 2
    /\ signed \subseteq Requests
    /\ nonces \in [Nonces -> {None} \cup 0 .. MaxTime]
    /\ events \in [Events -> {None} \cup 0 .. MaxTime]
    /\ \A j \in Jobs : job[j].step # "idle" => job[j].req \in signed
    /\ lock \in {None} \cup Jobs

(* Events recorded no earlier than e push it over the cap, and its row away. *)
Overtaken(e) ==
    Cardinality({o \in Events \ {e} : recorded[o] # None /\ recorded[e] <= recorded[o]})
      >= MaxEvents

(* A request HQ signed is let through at most once, however often the network *)
(* delivers it, and a reminder whose delivery was recorded under this trust   *)
(* is not sent again until the cap has dropped it.                            *)
(* RemindedOnce is about the shared delivery lock, the retention of the       *)
(* nonces and the rows of delivered events (push_api.py, hq_notifications.py).*)
RemindedOnce ==
    /\ \A n \in Nonces : let[n] <= 1
    /\ \A j \in Jobs : At(j, "send") =>
         LET e == job[j].req.event
         IN  /\ recorded[e] # None => Overtaken(e)
             /\ \A k \in Jobs \ {j} : job[k].step \in {"send", "record"}
                                        => job[k].req.event # e
=============================================================================
