------------------------------ MODULE SendQueue ------------------------------
(* CoalescingSendQueue of ws_protocol.py: the outbound queue of one socket.   *)
(* The event loop feeds it and one writer drains it, so a call is one step.   *)
(* A frame is a record with a type, the entity it is about, and the devices   *)
(* it carries.                                                                *)
EXTENDS Integers, Sequences, FiniteSets, SequencesExt

CONSTANTS
    None,
    MaxSize      \* maxsize: how many frames may wait before pushes are evicted

ASSUME MaxAssumption == MaxSize \in Nat \ {0}

(* Frames without home data. *)
CONTROL_FRAME_TYPES == {"auth_ok", "auth_failed", "auth_required", "pong", "error"}

(* Push frames; the nudges without a payload are two of their kind. *)
COALESCEABLE_TYPES == {"state_changed", "entity_removed", "registry_changed", "alarm_changed"}

IsControl(frame) == frame.type \in CONTROL_FRAME_TYPES
Droppable(frame) == frame.type \in COALESCEABLE_TYPES

(* Fault: a removal has a key of its own. *)
KeyPerType(frame) == <<frame.type, frame.entity>>

(* A change and a removal of one entity share a key. *)
coalesce_key(frame) ==
    IF frame.type \in {"state_changed", "entity_removed"}
        THEN <<"entity", frame.entity>>
        ELSE <<frame.type, None>>

SameKey(queue, frame) ==
    {i \in DOMAIN queue : /\ Droppable(queue[i])
                          /\ coalesce_key(queue[i]) = coalesce_key(frame)}
Evictable(queue) == {i \in DOMAIN queue : Droppable(queue[i])}
Oldest(places) == CHOOSE i \in places : \A j \in places : i <= j

put_protocol(queue, frame) == Append(queue, frame)

(* What a push does to the queue. *)
Replaces(queue, frame) == Droppable(frame) /\ SameKey(queue, frame) # {}
Fits(queue, frame) == ~Replaces(queue, frame) /\ Len(queue) < MaxSize
Evicts(queue, frame) ==
    ~Replaces(queue, frame) /\ Len(queue) >= MaxSize /\ Evictable(queue) # {}

(* offer returns False, and the caller closes the socket. *)
Refused(queue, frame) ==
    ~Replaces(queue, frame) /\ Len(queue) >= MaxSize /\ Evictable(queue) = {}

offer(queue, frame) ==
    IF Replaces(queue, frame) THEN [queue EXCEPT ![Oldest(SameKey(queue, frame))] = frame]
    ELSE IF Fits(queue, frame) THEN Append(queue, frame)
    ELSE IF Evicts(queue, frame) THEN Append(RemoveAt(queue, Oldest(Evictable(queue))), frame)
    ELSE queue

(* The control frames, in order; SelectSeq is recursive, so it is spelt out *)
(* for the proofs: the k-th frame left is the one at the k-th place kept.   *)
Nth(places, k) == CHOOSE i \in places : Cardinality({j \in places : j <= i}) = k

drop_data(queue) ==
    LET kept == {i \in DOMAIN queue : IsControl(queue[i])}
    IN  [k \in 1..Cardinality(kept) |-> queue[Nth(kept, k)]]
=============================================================================
