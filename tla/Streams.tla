------------------------------- MODULE Streams -------------------------------
(* One camera's stream tickets (camera_streams.py) and the views that mint and  *)
(* honour them (camera_api.py). A member's phone opens the player; the request  *)
(* waits for Home Assistant's stream between its checks and the ticket, and the *)
(* ticket is then good without a token. Meanwhile the owner edits or removes    *)
(* the phone, rooms change and the hub unloads.                                 *)
EXTENDS Naturals, FiniteSets

CONSTANTS
    None, Rooms, Requests,
    TTL, MaxTickets,         \* TICKET_TTL, MAX_TICKETS
    MaxVer, MaxMints, MaxTime  \* bounds

VARIABLES
    now,
    phone,                   \* the device's cache entry, None once it is gone
    place,                   \* the camera's room, or None, or "hidden" while it is not served
    loaded,                  \* the entry is set up
    tickets,                 \* StreamTicketStore._tickets
    minted,                  \* how many tickets there have been
    request,                 \* opens of the player that await the stream
    late,                    \* history: requests let in before the phone was edited or
                             \* removed
    lost,                    \* history: tickets of such requests, of before such a change
                             \* or of before the hub unloaded
    ends,                    \* history: when each ticket's time is over
    shown                    \* history: tickets the proxy fetched by although lost

history == <<late, lost, ends, shown>>
vars == <<now, phone, place, loaded, tickets, minted, request, history>>

Scopes == {None} \cup SUBSET Rooms
Places == {None, "hidden"} \cup Rooms
Access == {"none", "rooms", "all"}
Phones == [ver : 1 .. MaxVer, rooms : Scopes, access : Access]

(* visible_to and _serves_camera, for a token's claims or a ticket's. *)
Visible(c) ==
    \/ c.access = "all"
    \/ c.access = "rooms" /\ (IF c.rooms = None THEN TRUE ELSE place \in c.rooms)
Serves(c) == place # "hidden" /\ Visible(c)

Live(t) == now < t.until
TicketIds(ts) == {t.id : t \in ts}

-----------------------------------------------------------------------------
(* CasaSmartCameraStreamView.get: authenticate_request and the visibility. *)
Open(q) ==
    /\ loaded /\ request[q] = None /\ phone # None /\ Serves(phone)
    /\ minted < MaxMints
    /\ request' = [request EXCEPT ![q] = phone]
    /\ UNCHANGED <<now, phone, place, loaded, tickets, minted, history>>

(* Fault: the ticket with most time left makes room. *)
RoomByNewest(ts) ==
    IF Cardinality(ts) < MaxTickets THEN ts
    ELSE {t \in ts : \E u \in ts : u.until > t.until \/ (u.until = t.until /\ u.id > t.id)}

(* mint: the ticket closest to its end, the first made of them, makes room. *)
Room(ts) ==
    IF Cardinality(ts) < MaxTickets THEN ts
    ELSE {t \in ts : \E u \in ts : u.until < t.until \/ (u.until = t.until /\ u.id < t.id)}

(* Fault: a ticket carries the version there is when it is made. *)
GrantNow(q) ==
    IF phone = None THEN request[q] ELSE [request[q] EXCEPT !.ver = phone.ver]

(* The ticket carries the claims the request was let in with. *)
Grant(q) == request[q]

Mint(q) ==
    /\ request[q] # None /\ loaded /\ minted < MaxMints
    /\ request' = [request EXCEPT ![q] = None] /\ late' = late \ {q}
    /\ minted' = minted + 1
    /\ tickets' = Room({t \in tickets : Live(t)}) \cup
         {[id |-> minted + 1, until |-> now + TTL, grant |-> Grant(q)]}
    /\ lost' = IF q \in late THEN lost \cup {minted + 1} ELSE lost
    /\ ends' = [ends EXCEPT ![minted + 1] = now + TTL]
    /\ UNCHANGED <<now, phone, place, loaded, shown>>

(* The stream does not start, or the hub unloaded meanwhile. *)
Fails(q) ==
    /\ request[q] # None
    /\ request' = [request EXCEPT ![q] = None] /\ late' = late \ {q}
    /\ UNCHANGED <<now, phone, place, loaded, tickets, minted, lost, ends, shown>>

(* CasaSmartCameraHlsProxyView.get, up to the upstream fetch: no await in it. *)
Revoked(t) == phone = None \/ phone.ver # t.grant.ver

Fetch(t) ==
    /\ loaded /\ t \in tickets
    /\ tickets' = IF ~Live(t) \/ Revoked(t) THEN tickets \ {t} ELSE tickets
    /\ shown' = IF Live(t) /\ ~Revoked(t) /\ Serves(t.grant) /\ t.id \in lost
                THEN shown \cup {t.id} ELSE shown
    /\ UNCHANGED <<now, phone, place, loaded, minted, request, late, lost, ends>>

-----------------------------------------------------------------------------
(* What the grants rested on goes: of every ticket there is and request under way. *)
Outdated ==
    /\ lost' = lost \cup TicketIds(tickets)
    /\ late' = {q \in Requests : request[q] # None}

(* update_device: every edit raises the version. *)
Edit(p) ==
    /\ phone # None /\ phone.ver < MaxVer /\ p.ver = phone.ver + 1
    /\ phone' = p /\ Outdated
    /\ UNCHANGED <<now, place, loaded, tickets, minted, request, ends, shown>>

(* delete_device, leave_hub, wipe_all_devices; its id never comes back. *)
Unpair ==
    /\ phone # None /\ phone' = None /\ Outdated
    /\ UNCHANGED <<now, place, loaded, tickets, minted, request, ends, shown>>

(* prune_rooms: a room that is no more leaves the scope, under the same version. *)
Prune(r) ==
    /\ phone # None /\ phone.rooms # None /\ r \in phone.rooms /\ place # r
    /\ phone' = [phone EXCEPT !.rooms = @ \ {r}]
    /\ UNCHANGED <<now, place, loaded, tickets, minted, request, history>>

Move ==
    /\ place' \in Places \ {place}
    /\ UNCHANGED <<now, phone, loaded, tickets, minted, request, history>>

(* The entry unloads with its tickets, or loads; requests go on meanwhile. *)
Unload ==
    /\ loaded' = ~loaded /\ tickets' = {} /\ lost' = lost \cup TicketIds(tickets)
    /\ UNCHANGED <<now, phone, place, minted, request, late, ends, shown>>

Tick ==
    /\ now < MaxTime /\ now' = now + 1
    /\ UNCHANGED <<phone, place, loaded, tickets, minted, request, history>>

Init ==
    /\ now = 0 /\ phone \in {p \in Phones : p.ver = 1}
    /\ place \in Rooms /\ loaded = TRUE
    /\ tickets = {} /\ minted = 0 /\ request = [q \in Requests |-> None]
    /\ late = {} /\ lost = {} /\ ends = [i \in 1 .. MaxMints |-> 0] /\ shown = {}

Next ==
    \/ Unpair \/ Move \/ Unload \/ Tick
    \/ \E q \in Requests : Open(q) \/ Mint(q) \/ Fails(q)
    \/ \E t \in tickets : Fetch(t)
    \/ \E p \in Phones : Edit(p)
    \/ \E r \in Rooms : Prune(r)

Spec == Init /\ [][Next]_vars

-----------------------------------------------------------------------------
TypeOK ==
    /\ now \in 0 .. MaxTime /\ minted \in 0 .. MaxMints
    /\ phone \in {None} \cup Phones /\ place \in Places
    /\ \A t \in tickets : t.id \in 1 .. minted /\ t.grant \in Phones
    /\ \A q \in Requests : request[q] \in {None} \cup Phones

(* Once a phone is edited or removed, the proxy never again fetches by a ticket *)
(* it was given before, nor by one of a request that had been let in before and *)
(* made its ticket after (camera_api.py:145, 217).                              *)
RevokedForGood == shown = {}

(* The table stays within its limit, and what it drops is old: of the tickets   *)
(* made last, as many as it may hold, each is there until its time is over or   *)
(* its phone or hub changed, so a player goes on while others open              *)
(* (StreamTicketStore.mint).                                                    *)
NewestHonoured ==
    /\ Cardinality(tickets) <= MaxTickets
    /\ \A i \in 1 .. minted :
         i + MaxTickets > minted /\ i \notin lost /\ now < ends[i] =>
            i \in TicketIds(tickets)
=============================================================================
