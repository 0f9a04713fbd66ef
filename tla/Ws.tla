---------------------------------- MODULE Ws ---------------------------------
(* One connection of /api/casasmart/ws: WsConnection of ws.py over the        *)
(* subscription and the send queue of ws_protocol.py, with the home it        *)
(* reports, the tokens it lives by, and the tiles the app ends up showing.    *)
(*                                                                            *)
(* A handler of the event loop is one step: none of them waits for anything   *)
(* but the socket, which only the sender and the first frame write.           *)
EXTENDS SendQueue

CONSTANTS
    Entities,       \* served entities
    States,         \* states an entity may be in
    Tokens,
    Scope,          \* token -> entities of its rooms
    Everywhere,     \* tokens without a room list
    AlarmReaders,   \* tokens with alarm.read
    Nudges,         \* nudges the hub sends
    Replies,        \* answers to a ping, a bad frame and a refused token
    Backlog,        \* bound: frames queued beyond MaxSize before the app is quiet
    Renews          \* the app subscribes or authenticates again on a live token

ASSUME NoneAssumption ==
    /\ None \notin Tokens \cup States \cup Entities
    /\ \A asked \in SUBSET Entities : asked # None
ASSUME ScopeAssumption ==
    Scope \in [Tokens -> SUBSET Entities] /\ \A t \in Everywhere : Scope[t] = Entities
ASSUME FramesAssumption ==
    /\ Nudges \subseteq {"registry_changed", "alarm_changed", "suggestions_changed"}
    /\ Replies \subseteq {"pong", "error", "auth_failed"}
ASSUME SwitchAssumption == Backlog \in Nat /\ Renews \in BOOLEAN

VARIABLES
    phase,          \* "first", "greeting", "open", "closing" or "closed"
    token,          \* _token and, of the same token, _claims: set together
    deadline,       \* _reauth_deadline_task is waiting
    recheck,        \* a _recheck_now task is scheduled
    subscription,   \* the entities asked for; None until the app subscribes
    shown,          \* _shown
    queue,          \* _send_queue
    sending,        \* the frame the sender is writing, or None
    home,           \* entity -> state; None when there is no such entity
    placed,         \* entities that have an area
    valid,          \* tokens the auth engine accepts
    app,            \* entity -> the state on its tile; None without a tile
    lost            \* history: entities whose latest push was evicted

connection == <<phase, token, deadline, recheck, subscription, shown, queue, sending, lost>>
world == <<home, placed, valid>>
vars == <<connection, world, app>>

Frame(type, entity, devices) == [type |-> type, entity |-> entity, devices |-> devices]
Plain(type) == Frame(type, None, {})

Frames ==
    [type : CONTROL_FRAME_TYPES \cup COALESCEABLE_TYPES \cup {"subscribed", "suggestions_changed"},
     entity : Entities \cup {None},
     devices : SUBSET (Entities \X States)]
ASSUME NoFrameAssumption == None \notin Frames

Listening == phase \in {"open", "closing"}
Subscribed == subscription # None

(* visible_to: the room scope decides, and an entity without an area is only *)
(* in the scope of a token without a room list.                              *)
InScope(t, e, area) == t # None /\ e \in Scope[t] /\ (t \in Everywhere \/ e \in area)
Visible(t, e) == InScope(t, e, placed)

Closed ==
    /\ phase' = "closed"
    /\ token' = None
    /\ deadline' = FALSE
    /\ recheck' = FALSE
    /\ subscription' = None
    /\ shown' = {}
    /\ queue' = <<>>
    /\ sending' = None
    /\ lost' = {}

-----------------------------------------------------------------------------
(* Queueing. *)

(* _offer_or_close. *)
Push(frame) ==
    /\ queue' = offer(queue, frame)
    /\ phase' = IF Refused(queue, frame) THEN "closing" ELSE phase
    /\ lost' = IF Evicts(queue, frame)
                   THEN (lost \cup {queue[Oldest(Evictable(queue))].entity}) \ {frame.entity, None}
                   ELSE IF Refused(queue, frame) THEN lost ELSE lost \ {frame.entity}
    /\ UNCHANGED <<token, deadline, recheck, subscription, sending>>

(* _emit_snapshot, behind the frames a handler queued before it. *)
Snapshot(t, asked, ahead) ==
    LET devices == {<<e, home[e]>> : e \in {d \in asked : home[d] # None /\ Visible(t, d)}}
    IN  /\ queue' = put_protocol(ahead, Frame("subscribed", None, devices))
        /\ shown' = {d[1] : d \in devices}
        /\ lost' = {}

(* The app sends its frames while the backlog is short: a bound. *)
AppMaySend == Len(queue) < MaxSize + Backlog

-----------------------------------------------------------------------------
(* The token. *)

(* _authenticate_first_frame; engine.validate_token accepts the valid ones. *)
FirstFrame ==
    /\ phase = "first"
    /\ \/ \E t \in valid : token' = t /\ phase' = "greeting"
                           /\ UNCHANGED <<deadline, recheck, subscription, shown, queue, sending, lost>>
       \/ Closed
    /\ UNCHANGED <<world, app>>

(* auth_ok is written; from here the connection hears the event bus. *)
Listen ==
    /\ phase = "greeting"
    /\ phase' = "open"
    /\ UNCHANGED <<token, deadline, recheck, subscription, shown, queue, sending, lost, world, app>>

(* Fault: what is queued stays queued. *)
RequireReauthUndropped ==
    /\ token' = None
    /\ queue' = put_protocol(queue, Plain("auth_required"))
    /\ deadline' = TRUE

(* Fault: nobody waits for the new token. *)
RequireReauthUntimed ==
    /\ token' = None
    /\ queue' = put_protocol(drop_data(queue), Plain("auth_required"))
    /\ UNCHANGED deadline

(* _require_reauth. *)
RequireReauth ==
    /\ token' = None
    /\ queue' = put_protocol(drop_data(queue), Plain("auth_required"))
    /\ deadline' = TRUE

(* The body of _recheck_now and of one round of _token_recheck_loop. *)
Check ==
    /\ IF token \notin valid /\ ~deadline
           THEN RequireReauth
           ELSE UNCHANGED <<token, queue, deadline>>
    /\ UNCHANGED <<phase, subscription, shown, sending, lost, world, app>>

(* _token_recheck_loop, every WS_TOKEN_RECHECK seconds. *)
RecheckLoop == Listening /\ Check /\ UNCHANGED recheck

(* _recheck_now; without a token it leaves the matter to the deadline. *)
RecheckNow ==
    /\ Listening /\ recheck
    /\ recheck' = FALSE
    /\ IF token # None THEN Check ELSE UNCHANGED <<phase, token, deadline, subscription, shown,
                                                   queue, sending, lost, world, app>>

(* _reauth_deadline wakes. *)
DeadlinePasses ==
    /\ Listening /\ deadline
    /\ IF token = None
           THEN Closed
           ELSE /\ deadline' = FALSE
                /\ UNCHANGED <<phase, token, recheck, subscription, shown, queue, sending, lost>>
    /\ UNCHANGED <<world, app>>

(* _handle_reauth with a token the engine accepts. *)
Reauth(t) ==
    /\ Listening /\ AppMaySend
    /\ t \in valid
    /\ token = None \/ Renews
    /\ token' = t
    /\ deadline' = FALSE
    /\ LET greeted == put_protocol(queue, Plain("auth_ok"))
       IN  IF Subscribed
               THEN Snapshot(t, subscription, greeted)
               ELSE queue' = greeted /\ UNCHANGED <<shown, lost>>
    /\ UNCHANGED <<phase, recheck, subscription, sending, world, app>>

(* _handle_subscribe. *)
Subscribe(asked) ==
    /\ Listening /\ AppMaySend
    /\ ~Subscribed \/ Renews
    /\ subscription' = asked
    /\ IF token = None
           THEN UNCHANGED <<shown, queue, lost>>
           ELSE Snapshot(token, asked, queue)
    /\ UNCHANGED <<phase, token, deadline, recheck, sending, world, app>>

(* A ping, a frame that fails to parse, and an auth frame that is refused. *)
Answer(type) ==
    /\ Listening /\ AppMaySend
    /\ queue' = put_protocol(queue, Plain(type))
    /\ UNCHANGED <<phase, token, deadline, recheck, subscription, shown, sending, lost, world, app>>

-----------------------------------------------------------------------------
(* The home, and what the listeners make of its events. *)

(* _on_state_changed with a new state. *)
TellState(e, s) ==
    IF Listening /\ Subscribed /\ token # None /\ e \in subscription /\ InScope(token, e, placed')
        THEN LET frame == Frame("state_changed", e, {<<e, s>>})
             IN  /\ Push(frame)
                 /\ shown' = IF Refused(queue, frame) THEN shown ELSE shown \cup {e}
        ELSE UNCHANGED connection

(* _on_state_changed without one. *)
TellRemoval(e) ==
    LET frame == Frame("entity_removed", e, {})
    IN  IF Listening /\ token # None /\ e \in shown
            THEN /\ Push(frame)
                 /\ shown' = IF Refused(queue, frame) THEN shown ELSE shown \ {e}
            ELSE UNCHANGED connection

Changes(e, s) ==
    /\ home[e] # s
    /\ home' = [home EXCEPT ![e] = s]
    /\ placed' = IF home[e] = None THEN placed \cup {e} ELSE placed
    /\ TellState(e, s)
    /\ UNCHANGED <<valid, app>>

(* The registry lets go of the area before the entity goes. *)
LosesArea(e) ==
    /\ home[e] # None
    /\ placed' = placed \ {e}
    /\ UNCHANGED <<connection, home, valid, app>>

Goes(e) ==
    /\ home[e] # None
    /\ home' = [home EXCEPT ![e] = None]
    /\ TellRemoval(e)
    /\ UNCHANGED <<placed, valid, app>>

(* Who hears a content-free nudge. *)
Hears(type) ==
    CASE type = "registry_changed" -> TRUE
      [] type = "alarm_changed" -> token \in AlarmReaders
      [] type = "suggestions_changed" -> Subscribed

Nudge(type) ==
    /\ Listening /\ token # None
    /\ Hears(type)
    /\ Push(Plain(type))
    /\ UNCHANGED <<shown, world, app>>

-----------------------------------------------------------------------------
(* The auth engine. *)

(* A new token: one the connection no longer knows. *)
Mints(t) ==
    /\ t \notin valid \cup {token}
    /\ valid' = valid \cup {t}
    /\ UNCHANGED <<connection, home, placed, app>>

(* An access change, and EVENT_AUTH_CHANGED. *)
Revokes(t) ==
    /\ t \in valid
    /\ valid' = valid \ {t}
    /\ recheck' = Listening
    /\ UNCHANGED <<phase, token, deadline, subscription, shown, queue, sending, lost, home, placed, app>>

(* A token runs out without an event. *)
Expires(t) ==
    /\ t \in valid
    /\ valid' = valid \ {t}
    /\ UNCHANGED <<connection, home, placed, app>>

-----------------------------------------------------------------------------
(* The socket and the app. *)

(* One round of _sender_loop: take a frame, then write it. *)
Take ==
    /\ Listening
    /\ sending = None /\ queue # <<>>
    /\ sending' = Head(queue)
    /\ queue' = Tail(queue)
    /\ UNCHANGED <<phase, token, deadline, recheck, subscription, shown, lost, world, app>>

(* What a frame does to the tiles. *)
Shows(tiles, frame) ==
    LET told == {d[1] : d \in frame.devices}
    IN  [e \in Entities |->
            IF e \in told THEN (CHOOSE d \in frame.devices : d[1] = e)[2]
            ELSE IF frame.type = "subscribed" \/ e = frame.entity THEN None
            ELSE tiles[e]]

Write ==
    /\ Listening
    /\ sending # None
    /\ app' = Shows(app, sending)
    /\ sending' = None
    /\ UNCHANGED <<phase, token, deadline, recheck, subscription, shown, queue, lost, world>>

(* The close a refused push asked for; WS_AUTH_TIMEOUT, the peer or the *)
(* network going away, and async_close as the hub unloads.              *)
Close ==
    /\ phase # "closed"
    /\ Closed
    /\ UNCHANGED <<world, app>>

(* The app connects again: a new WsConnection. *)
Connect ==
    /\ phase = "closed"
    /\ phase' = "first"
    /\ UNCHANGED <<token, deadline, recheck, subscription, shown, queue, sending, lost, world, app>>

Init ==
    /\ phase = "first"
    /\ token = None
    /\ deadline = FALSE
    /\ recheck = FALSE
    /\ subscription = None
    /\ shown = {}
    /\ queue = <<>>
    /\ sending = None
    /\ lost = {}
    /\ home \in [Entities -> {None} \cup States]
    /\ placed = Entities
    /\ valid = Tokens
    /\ app = [e \in Entities |-> None]

Next ==
    \/ FirstFrame \/ Listen \/ RecheckLoop \/ RecheckNow \/ DeadlinePasses
    \/ \E t \in Tokens : Reauth(t) \/ Mints(t) \/ Revokes(t) \/ Expires(t)
    \/ \E asked \in SUBSET Entities : Subscribe(asked)
    \/ \E type \in Replies : Answer(type)
    \/ \E e \in Entities :
           LosesArea(e) \/ Goes(e) \/ \E s \in States : Changes(e, s)
    \/ \E type \in Nudges : Nudge(type)
    \/ Take \/ Write \/ Close \/ Connect

Spec == Init /\ [][Next]_vars

(* Tasks of the event loop run, and its timers fire. *)
Fairness ==
    /\ WF_vars(Listen)
    /\ WF_vars(RecheckLoop)
    /\ WF_vars(DeadlinePasses)
    /\ WF_vars(phase = "closing" /\ Close)

FairSpec == Spec /\ Fairness

-----------------------------------------------------------------------------
TypeOK ==
    /\ phase \in {"first", "greeting", "open", "closing", "closed"}
    /\ token \in Tokens \cup {None}
    /\ deadline \in BOOLEAN /\ recheck \in BOOLEAN
    /\ subscription \in {None} \cup SUBSET Entities
    /\ queue \in Seq(Frames) /\ sending \in Frames \cup {None}
    /\ shown \subseteq Entities /\ lost \subseteq Entities
    /\ home \in [Entities -> States \cup {None}]
    /\ app \in [Entities -> States \cup {None}]
    /\ placed \subseteq Entities /\ valid \subseteq Tokens

(* What a frame tells the app about. *)
Reveals(frame) == {d[1] : d \in frame.devices} \cup ({frame.entity} \ {None})

(* A frame a connection with token t may have queued. *)
MayWait(frame, t) ==
    \/ IsControl(frame)
    \/ t # None /\ (Reveals(frame) \subseteq Scope[t] \/ Renews)

(* A connection that waits for a new token has no frame with home data      *)
(* queued, and a queued frame tells only of entities the token's rooms hold *)
(* (CONTROL_FRAME_TYPES, drop_data, visible_to), unless the app renewed a   *)
(* token while frames of the old one were queued.                           *)
HeldBack == \A i \in DOMAIN queue : MayWait(queue[i], token)

(* Once everything queued has reached the app, its tiles are the home: every *)
(* subscribed entity in scope shows its state, and nothing else has a tile,  *)
(* but for the entities whose last push was evicted from a full queue.       *)
AppInSync ==
    phase = "open" /\ token # None /\ Subscribed /\ queue = <<>> /\ sending = None =>
        \A e \in Entities \ lost :
            /\ e \in subscription /\ Visible(token, e) => app[e] = home[e]
            /\ e \notin subscription \cap Scope[token] \/ home[e] = None => app[e] = None

(* A connection whose token no longer holds gets a valid one or is closed    *)
(* (_token_recheck_loop, _reauth_deadline), even when the event of the       *)
(* change came before it listened.                                           *)
RevokedEnds == Listening /\ token \notin valid ~> token \in valid \/ ~Listening
=============================================================================
