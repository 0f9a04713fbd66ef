------------------------------- MODULE WsProofs ------------------------------
(* What Ws guarantees for any home, any tokens and any length of the queue:  *)
(* a connection that waits for a new token has no home data queued, what is  *)
(* queued tells only of the rooms of the token, and what is on its way to an *)
(* app that renews no live token brings its tiles to the home.               *)
EXTENDS Ws, FiniteSetTheorems, SequenceTheorems, WellFoundedInduction, TLAPS

-----------------------------------------------------------------------------
(* What the send queue's operations return, whatever its length. *)

(* Every nonempty set of natural numbers has a least element. *)
LEMMA LessIsWellFounded == IsWellFoundedOn({p \in Nat \X Nat : p[1] < p[2]}, Nat)
  BY NatLessThanWellFounded DEF OpToRel

LEMMA Least ==
  ASSUME NEW T, T \subseteq Nat, T # {}
  PROVE  \E x \in T : \A y \in T : x <= y
<1> DEFINE R == {p \in Nat \X Nat : p[1] < p[2]}
<1>1. \E x \in T : \A y \in T : ~ (<<y, x>> \in R)
  <2>1. IsWellFoundedOn(R, Nat)
    BY LessIsWellFounded
  <2> HIDE DEF R
  <2> QED
    BY <2>1, WFMin
<1>2. PICK x \in T : \A y \in T : ~ (<<y, x>> \in R)
  BY <1>1
<1>3. \A y \in T : ~(y < x)
  <2> SUFFICES ASSUME NEW y \in T, y < x PROVE FALSE
    OBVIOUS
  <2>1. <<y, x>> \in Nat \X Nat
    OBVIOUS
  <2>2. <<y, x>> \in R
    BY <2>1
  <2> QED
    BY <2>2, <1>2
<1> QED
  BY <1>3

(* The oldest of some places is one of them. *)
LEMMA OldestIn ==
  ASSUME NEW places, places \subseteq Nat, places # {}
  PROVE  Oldest(places) \in places
<1>1. \E i \in places : \A j \in places : i <= j
  BY Least
<1> QED
  BY <1>1 DEF Oldest

(* Places between 1 and n include a k-th for every k up to their number: at  *)
(* the least bound with k of them at or below it, there are k.               *)
LEMMA NthIn ==
  ASSUME NEW n \in Nat, NEW places, places \subseteq 1..n,
         NEW k \in 1..Cardinality(places)
  PROVE  Nth(places, k) \in places
<1> DEFINE below(i) == {j \in places : j <= i}
           c(i) == Cardinality(below(i))
           enough == {i \in 0..n : c(i) >= k}
<1>1. IsFiniteSet(places) /\ Cardinality(places) \in Nat
  <2>1. IsFiniteSet(1..n)
    BY FS_Interval
  <2> QED
    BY <2>1, FS_Subset, FS_CardinalityType
<1>2. \A i : IsFiniteSet(below(i)) /\ c(i) \in Nat
  <2> TAKE i
  <2>1. below(i) \subseteq places
    OBVIOUS
  <2> QED
    BY <1>1, <2>1, FS_Subset, FS_CardinalityType
<1>3. \A j \in places : j \in Nat /\ 1 <= j /\ j <= n
  OBVIOUS
<1>4. c(n) = Cardinality(places) /\ c(0) = 0
  <2>1. below(n) = places
    BY <1>3, Zenon
  <2>2. below(0) = {}
    <3>1. \A j \in places : ~(j <= 0)
      BY <1>3
    <3> QED
      BY <3>1, Zenon
  <2> QED
    BY <2>1, <2>2, FS_EmptySet
<1>5. \A i \in Nat : c(i + 1) = IF i + 1 \in places THEN c(i) + 1 ELSE c(i)
  <2> TAKE i \in Nat
  <2>1. CASE i + 1 \in places
    <3>1. below(i + 1) = below(i) \cup {i + 1}
      <4>1. \A j \in places : j <= i + 1 <=> (j <= i \/ j = i + 1)
        BY <1>3
      <4> QED
        BY <2>1, <4>1, Zenon
    <3>2. i + 1 \notin below(i)
      OBVIOUS
    <3> HIDE DEF below
    <3> QED
      BY <1>2, <2>1, <3>1, <3>2, FS_AddElement
  <2>2. CASE i + 1 \notin places
    <3>1. below(i + 1) = below(i)
      <4>1. \A j \in places : j <= i + 1 <=> j <= i
        BY <1>3, <2>2
      <4> QED
        BY <4>1, Zenon
    <3> QED
      BY <2>2, <3>1
  <2> QED
    BY <2>1, <2>2
<1> HIDE DEF c
<1>6. PICK i \in enough : \A j \in enough : i <= j
  <2>1. enough \subseteq Nat /\ n \in enough
    BY <1>1, <1>4
  <2> HIDE DEF enough
  <2> QED
    BY <2>1, Least
<1>7. i \in 1..n /\ c(i) >= k
  BY <1>4, <1>6
<1>8. i - 1 \in Nat /\ i - 1 \in 0..n /\ (i - 1) + 1 = i
  BY <1>7
<1>9. c(i - 1) \in Nat /\ c(i) \in Nat
  BY <1>2 DEF c
<1>10. c(i - 1) < k
  <2>1. i - 1 \notin enough
    BY <1>6, <1>7
  <2> QED
    BY <2>1, <1>8, <1>9
<1>11. i \in places /\ c(i) = k
  <2>1. c(i) = IF i \in places THEN c(i - 1) + 1 ELSE c(i - 1)
    BY <1>5, <1>8
  <2> QED
    BY <2>1, <1>7, <1>9, <1>10
<1>12. \E j \in places : Cardinality({l \in places : l <= j}) = k
  BY <1>11 DEF c
<1> QED
  BY <1>12 DEF Nth

(* drop_data leaves control frames of the queue, and nothing else. *)
LEMMA DropData ==
  ASSUME NEW Kind, NEW q \in Seq(Kind)
  PROVE  /\ drop_data(q) \in Seq(Kind)
         /\ \A k \in DOMAIN drop_data(q) : IsControl(drop_data(q)[k])
<1> DEFINE kept == {i \in DOMAIN q : IsControl(q[i])}
           n == Cardinality(kept)
<1>1. Len(q) \in Nat /\ DOMAIN q = 1..Len(q)
  BY LenProperties
<1>2. kept \subseteq 1..Len(q)
  BY <1>1
<1>3. n \in Nat
  <2>1. IsFiniteSet(1..Len(q))
    BY <1>1, FS_Interval
  <2>2. IsFiniteSet(kept)
    BY <1>2, <2>1, FS_Subset
  <2> QED
    BY <2>2, FS_CardinalityType
<1>4. \A k \in 1..n : Nth(kept, k) \in kept
  <2> TAKE k \in 1..n
  <2> HIDE DEF kept
  <2> QED
    BY <1>1, <1>2, NthIn
<1>5. drop_data(q) = [k \in 1..n |-> q[Nth(kept, k)]]
  BY DEF drop_data
<1>6. \A k \in 1..n : q[Nth(kept, k)] \in Kind /\ IsControl(q[Nth(kept, k)])
  BY <1>1, <1>4, ElementOfSeq
<1> HIDE DEF kept, n
<1>7. drop_data(q) \in [1..n -> Kind]
  BY <1>5, <1>6
<1>8. drop_data(q) \in Seq(Kind)
  BY <1>3, <1>7, IsASeq
<1> QED
  BY <1>5, <1>6, <1>8

(* offer puts the frame in the queue, or leaves the queue alone; every other *)
(* frame was there before.                                                   *)
LEMMA Offer ==
  ASSUME NEW Kind, NEW q \in Seq(Kind), NEW frame \in Kind
  PROVE  /\ offer(q, frame) \in Seq(Kind)
         /\ \A k \in DOMAIN offer(q, frame) :
                \/ offer(q, frame)[k] = frame
                \/ \E i \in DOMAIN q : offer(q, frame)[k] = q[i]
<1>1. Len(q) \in Nat /\ DOMAIN q = 1..Len(q)
  BY LenProperties
<1>2. CASE Replaces(q, frame)
  <2> DEFINE at == Oldest(SameKey(q, frame))
  <2>1. offer(q, frame) = [q EXCEPT ![at] = frame]
    BY <1>2 DEF offer
  <2>2. at \in DOMAIN q
    <3>1. SameKey(q, frame) # {} /\ SameKey(q, frame) \subseteq DOMAIN q
      BY <1>2 DEF Replaces, SameKey
    <3>2. SameKey(q, frame) \subseteq Nat
      BY <1>1, <3>1
    <3> QED
      BY <3>1, <3>2, OldestIn
  <2> HIDE DEF at
  <2> QED
    BY <2>1, <2>2, <1>1, ExceptSeq
<1>3. CASE Fits(q, frame)
  <2>1. offer(q, frame) = Append(q, frame)
    BY <1>3 DEF offer, Fits
  <2> QED
    BY <2>1, <1>1, AppendProperties
<1>4. CASE Evicts(q, frame)
  <2> DEFINE at == Oldest(Evictable(q))
             rest == RemoveAt(q, at)
  <2>1. offer(q, frame) = Append(rest, frame)
    BY <1>1, <1>4, MaxAssumption DEF offer, Evicts, Fits
  <2>2. at \in 1..Len(q)
    <3>1. Evictable(q) # {} /\ Evictable(q) \subseteq DOMAIN q
      BY <1>4 DEF Evicts, Evictable
    <3>2. Evictable(q) \subseteq Nat
      BY <1>1, <3>1
    <3> QED
      BY <1>1, <3>1, <3>2, OldestIn
  <2> HIDE DEF at
  <2>3. rest \in Seq(Kind) /\ \A k \in DOMAIN rest : \E i \in DOMAIN q : rest[k] = q[i]
    <3> DEFINE front == SubSeq(q, 1, at - 1)
               back == SubSeq(q, at + 1, Len(q))
    <3>1. /\ front \in Seq(Kind) /\ back \in Seq(Kind)
          /\ \A k \in 1..Len(front) : front[k] = q[k] /\ k \in 1..Len(q)
          /\ \A k \in 1..Len(back) : back[k] = q[at + k] /\ at + k \in 1..Len(q)
      BY <1>1, <2>2, SubSeqProperties
    <3>2. rest = front \o back
      BY DEF RemoveAt
    <3> HIDE DEF front, back, rest
    <3>3. /\ rest \in Seq(Kind)
          /\ Len(rest) = Len(front) + Len(back)
          /\ \A k \in 1..Len(rest) : rest[k] = IF k <= Len(front) THEN front[k] ELSE back[k - Len(front)]
      BY <3>1, <3>2, ConcatProperties
    <3>4. Len(front) \in Nat /\ Len(back) \in Nat /\ DOMAIN rest = 1..Len(rest)
      BY <3>1, <3>3, LenProperties
    <3>5. ASSUME NEW k \in 1..Len(rest) PROVE \E i \in 1..Len(q) : rest[k] = q[i]
      <4>1. CASE k <= Len(front)
        BY <3>1, <3>3, <3>4, <4>1
      <4>2. CASE k > Len(front)
        <5>1. k - Len(front) \in 1..Len(back)
          BY <3>3, <3>4, <4>2
        <5>2. rest[k] = back[k - Len(front)]
          BY <3>3, <3>4, <4>2
        <5> QED
          BY <3>1, <5>1, <5>2
      <4> QED
        BY <3>4, <4>1, <4>2
    <3> QED
      BY <1>1, <3>3, <3>4, <3>5
  <2> HIDE DEF rest
  <2> QED
    BY <2>1, <2>3, AppendProperties
<1>5. CASE Refused(q, frame)
  BY <1>5 DEF offer, Refused, Fits, Evicts
<1> QED
  BY <1>1, <1>2, <1>3, <1>4, <1>5, MaxAssumption DEF Fits, Evicts, Refused

-----------------------------------------------------------------------------
(* Types, and what may wait in the queue. *)

ReadyFrames == CONTROL_FRAME_TYPES \cup COALESCEABLE_TYPES \cup {"subscribed", "suggestions_changed"}

LEMMA PlainType ==
  ASSUME NEW type \in ReadyFrames PROVE Plain(type) \in Frames
  BY DEF ReadyFrames, Plain, Frame, Frames

LEMMA PutType ==
  ASSUME NEW q \in Seq(Frames), NEW frame \in Frames
  PROVE  /\ put_protocol(q, frame) \in Seq(Frames)
         /\ \A k \in DOMAIN put_protocol(q, frame) :
                \/ put_protocol(q, frame)[k] = frame
                \/ \E i \in DOMAIN q : put_protocol(q, frame)[k] = q[i]
<1>1. Len(q) \in Nat /\ DOMAIN q = 1..Len(q)
  BY LenProperties
<1> QED
  BY <1>1, AppendProperties DEF put_protocol

Connecting == phase \in {"first", "greeting", "closed"}

(* What makes HeldBack inductive: what the app was shown is in scope too, so *)
(* a removal reveals nothing, and a connection starts with nothing queued.   *)
IInv ==
    /\ TypeOK
    /\ HeldBack
    /\ token # None => shown \subseteq Scope[token] \/ Renews
    /\ ~Subscribed => shown = {}
    /\ Connecting => queue = <<>> /\ subscription = None

LEMMA InitInv == Init => IInv
<1> SUFFICES ASSUME Init PROVE IInv
  OBVIOUS
<1>1. queue \in Seq(Frames) /\ DOMAIN queue = {}
  BY EmptySeq DEF Init
<1> QED
  BY <1>1, ScopeAssumption DEF Init, IInv, TypeOK, HeldBack, Connecting, Subscribed

(* A push that may wait leaves a queue whose frames may wait. *)
LEMMA PushKeeps ==
  ASSUME TypeOK, HeldBack, Listening, NEW frame \in Frames, MayWait(frame, token), Push(frame)
  PROVE  /\ queue' \in Seq(Frames)
         /\ lost' \subseteq Entities
         /\ phase' \in {"open", "closing"}
         /\ token' = token
         /\ HeldBack'
<1>1. queue' = offer(queue, frame) /\ token' = token
  BY DEF Push
<1>2. /\ queue' \in Seq(Frames)
      /\ \A k \in DOMAIN queue' : queue'[k] = frame \/ \E i \in DOMAIN queue : queue'[k] = queue[i]
  BY <1>1, Offer DEF TypeOK
<1>3. HeldBack'
  BY <1>1, <1>2 DEF HeldBack
<1>4. phase' \in {"open", "closing"}
  BY DEF Push, Listening
<1>5. lost' \subseteq Entities
  <2>1. CASE Evicts(queue, frame)
    <3>1. Evictable(queue) # {} /\ Evictable(queue) \subseteq DOMAIN queue
      BY <2>1 DEF Evicts, Evictable
    <3>2. Len(queue) \in Nat /\ DOMAIN queue = 1..Len(queue)
      BY LenProperties DEF TypeOK
    <3>3. Oldest(Evictable(queue)) \in DOMAIN queue
      BY <3>1, <3>2, OldestIn
    <3>4. queue[Oldest(Evictable(queue))] \in Frames
      BY <3>2, <3>3, ElementOfSeq DEF TypeOK
    <3> QED
      BY <2>1, <3>4 DEF Push, Frames, TypeOK
  <2>2. CASE ~Evicts(queue, frame)
    BY <2>2 DEF Push, TypeOK
  <2> QED
    BY <2>1, <2>2
<1> QED
  BY <1>1, <1>2, <1>3, <1>4, <1>5

(* A snapshot behind frames that may wait. *)
LEMMA SnapshotKeeps ==
  ASSUME TypeOK, NEW t \in Tokens, NEW asked \in SUBSET Entities, NEW ahead \in Seq(Frames),
         \A i \in DOMAIN ahead : MayWait(ahead[i], t),
         Snapshot(t, asked, ahead)
  PROVE  /\ queue' \in Seq(Frames)
         /\ \A i \in DOMAIN queue' : MayWait(queue'[i], t)
         /\ shown' \subseteq Scope[t] \cap asked
         /\ lost' = {}
<1> DEFINE devices == {<<e, home[e]>> : e \in {d \in asked : home[d] # None /\ Visible(t, d)}}
           frame == Frame("subscribed", None, devices)
<1>1. /\ queue' = put_protocol(ahead, frame)
      /\ shown' = {d[1] : d \in devices}
      /\ lost' = {}
  BY DEF Snapshot
<1>2. devices \subseteq Entities \X States /\ \A d \in devices : d[1] \in Scope[t] \cap asked
  BY DEF TypeOK, Visible, InScope
<1> HIDE DEF devices
<1>3. frame \in Frames
  BY <1>2 DEF Frame, Frames
<1>4. MayWait(frame, t)
  BY <1>2, NoneAssumption DEF Frame, MayWait, Reveals
<1> HIDE DEF frame
<1> QED
  BY <1>1, <1>2, <1>3, <1>4, PutType

(* Actions that leave the connection's frames, token and subscription alone. *)
LEMMA QuietKeeps ==
  ASSUME IInv, TypeOK', UNCHANGED <<phase, token, subscription, shown, queue>>
  PROVE  IInv'
  BY DEF IInv, HeldBack, Connecting, Subscribed

LEMMA ClosedKeeps ==
  ASSUME IInv, Closed, UNCHANGED <<world, app>>
  PROVE  IInv'
<1>1. queue' \in Seq(Frames) /\ DOMAIN queue' = {}
  BY EmptySeq DEF Closed
<1> QED
  BY <1>1 DEF IInv, TypeOK, HeldBack, Connecting, Subscribed, Closed, world

LEMMA CheckKeeps ==
  ASSUME IInv, Listening, Check, recheck' \in BOOLEAN
  PROVE  IInv'
<1>1. CASE token \notin valid /\ ~deadline
  <2>1. /\ queue' = put_protocol(drop_data(queue), Plain("auth_required"))
        /\ token' = None /\ deadline' = TRUE
    BY <1>1 DEF Check, RequireReauth
  <2>2. /\ drop_data(queue) \in Seq(Frames)
        /\ \A k \in DOMAIN drop_data(queue) : IsControl(drop_data(queue)[k])
    BY DropData DEF IInv, TypeOK
  <2>3. Plain("auth_required") \in Frames /\ IsControl(Plain("auth_required"))
    BY PlainType DEF ReadyFrames, CONTROL_FRAME_TYPES, IsControl, Plain, Frame
  <2>4. queue' \in Seq(Frames) /\ \A k \in DOMAIN queue' : IsControl(queue'[k])
    BY <2>1, <2>2, <2>3, PutType
  <2>5. HeldBack'
    BY <2>4 DEF HeldBack, MayWait
  <2>6. UNCHANGED <<phase, subscription, shown, sending, lost, world, app>>
    BY DEF Check
  <2> QED
    BY <2>1, <2>4, <2>5, <2>6 DEF IInv, TypeOK, Listening, Connecting, Subscribed, world
<1>2. CASE ~(token \notin valid /\ ~deadline)
  BY <1>2, QuietKeeps DEF Check, IInv, TypeOK, world
<1> QED
  BY <1>1, <1>2

LEMMA StepInv == IInv /\ [Next]_vars => IInv'
<1> SUFFICES ASSUME IInv, [Next]_vars PROVE IInv'
  OBVIOUS
<1>t. TypeOK
  BY DEF IInv
<1>1. CASE FirstFrame
  <2>1. CASE Closed
    BY <1>1, <2>1, ClosedKeeps DEF FirstFrame
  <2>2. ASSUME NEW t \in valid, token' = t, phase' = "greeting",
               UNCHANGED <<deadline, recheck, subscription, shown, queue, sending, lost, world, app>>
        PROVE  IInv'
    <3>1. phase = "first" /\ queue = <<>> /\ subscription = None /\ shown = {}
      BY <1>1 DEF FirstFrame, IInv, Connecting, Subscribed
    <3>2. TypeOK'
      BY <1>t, <2>2 DEF TypeOK, world
    <3>3. HeldBack'
      BY <2>2, <3>1 DEF HeldBack
    <3> QED
      BY <2>2, <3>1, <3>2, <3>3 DEF IInv, Connecting, Subscribed
  <2> QED
    BY <1>1, <2>1, <2>2 DEF FirstFrame
<1>2. CASE Listen
  BY <1>2, <1>t DEF Listen, IInv, TypeOK, HeldBack, Connecting, Subscribed, world
<1>3. CASE RecheckLoop
  BY <1>3, <1>t, CheckKeeps DEF RecheckLoop, TypeOK
<1>4. CASE RecheckNow
  <2>1. CASE token # None
    BY <1>4, <2>1, CheckKeeps DEF RecheckNow
  <2>2. CASE token = None
    BY <1>4, <1>t, <2>2, QuietKeeps DEF RecheckNow, TypeOK, world
  <2> QED
    BY <2>1, <2>2
<1>5. CASE DeadlinePasses
  <2>1. CASE token = None
    BY <1>5, <2>1, ClosedKeeps DEF DeadlinePasses
  <2>2. CASE token # None
    BY <1>5, <1>t, <2>2, QuietKeeps DEF DeadlinePasses, TypeOK, world
  <2> QED
    BY <2>1, <2>2
<1>6. ASSUME NEW t \in Tokens, Reauth(t) PROVE IInv'
  <2> DEFINE greeted == put_protocol(queue, Plain("auth_ok"))
  <2>1. Plain("auth_ok") \in Frames /\ IsControl(Plain("auth_ok"))
    BY PlainType DEF ReadyFrames, CONTROL_FRAME_TYPES, IsControl, Plain, Frame
  <2>2. greeted \in Seq(Frames) /\ \A k \in DOMAIN greeted : MayWait(greeted[k], t)
    <3>1. \A i \in DOMAIN queue : MayWait(queue[i], t)
      BY <1>6, NoneAssumption DEF Reauth, IInv, HeldBack, MayWait
    <3>2. MayWait(Plain("auth_ok"), t)
      BY <2>1 DEF MayWait
    <3> QED
      BY <1>t, <2>1, <3>1, <3>2, PutType DEF TypeOK
  <2> HIDE DEF greeted
  <2>3. /\ queue' \in Seq(Frames) /\ \A k \in DOMAIN queue' : MayWait(queue'[k], t)
        /\ shown' \subseteq Scope[t] /\ (~Subscribed => shown' = {})
        /\ lost' \subseteq Entities /\ shown' \subseteq Entities
    <3>1. CASE Subscribed
      <4>1. Snapshot(t, subscription, greeted) /\ subscription \in SUBSET Entities
        BY <1>6, <1>t, <3>1 DEF Reauth, Subscribed, TypeOK, greeted
      <4> QED
        BY <1>t, <2>2, <3>1, <4>1, SnapshotKeeps
    <3>2. CASE ~Subscribed
      BY <1>6, <1>t, <2>2, <3>2 DEF Reauth, IInv, TypeOK, greeted
    <3> QED
      BY <3>1, <3>2
  <2>4. /\ token' = t /\ deadline' = FALSE
        /\ UNCHANGED <<phase, recheck, subscription, sending, world, app>> /\ Listening
    BY <1>6 DEF Reauth
  <2> QED
    BY <1>t, <2>3, <2>4 DEF IInv, TypeOK, HeldBack, Listening, Connecting, Subscribed, world
<1>7. ASSUME NEW asked \in SUBSET Entities, Subscribe(asked) PROVE IInv'
  <2>1. /\ subscription' = asked /\ asked # None /\ Listening
        /\ UNCHANGED <<phase, token, deadline, recheck, sending, world, app>>
    BY <1>7, NoneAssumption DEF Subscribe
  <2>2. CASE token = None
    BY <1>7, <1>t, <2>1, <2>2 DEF Subscribe, IInv, TypeOK, HeldBack, Listening, Connecting, Subscribed, world
  <2>3. CASE token # None
    <3>1. Snapshot(token, asked, queue) /\ token \in Tokens
      BY <1>7, <1>t, <2>3 DEF Subscribe, TypeOK
    <3>2. queue \in Seq(Frames) /\ \A i \in DOMAIN queue : MayWait(queue[i], token)
      BY <1>t DEF IInv, TypeOK, HeldBack
    <3>3. /\ queue' \in Seq(Frames) /\ \A i \in DOMAIN queue' : MayWait(queue'[i], token)
          /\ shown' \subseteq Scope[token] \cap asked /\ lost' = {}
      BY <1>t, <3>1, <3>2, SnapshotKeeps
    <3> QED
      BY <1>t, <2>1, <3>3 DEF IInv, TypeOK, HeldBack, Listening, Connecting, Subscribed, world
  <2> QED
    BY <2>2, <2>3
<1>8. ASSUME NEW type \in Replies, Answer(type) PROVE IInv'
  <2>1. Plain(type) \in Frames /\ IsControl(Plain(type))
    BY FramesAssumption, PlainType DEF ReadyFrames, CONTROL_FRAME_TYPES, IsControl, Plain, Frame
  <2>2. MayWait(Plain(type), token)
    BY <2>1 DEF MayWait
  <2>3. queue' = put_protocol(queue, Plain(type))
    BY <1>8 DEF Answer
  <2>4. queue' \in Seq(Frames) /\ \A k \in DOMAIN queue' : MayWait(queue'[k], token)
    BY <1>t, <2>1, <2>2, <2>3, PutType DEF IInv, TypeOK, HeldBack
  <2> QED
    BY <1>8, <1>t, <2>4 DEF Answer, IInv, TypeOK, HeldBack, Listening, Connecting, Subscribed, world
<1>9. ASSUME NEW e \in Entities, NEW s \in States, Changes(e, s) PROVE IInv'
  <2>1. home' \in [Entities -> States \cup {None}] /\ placed' \subseteq Entities /\ UNCHANGED <<valid, app>>
    BY <1>9, <1>t DEF Changes, TypeOK
  <2> DEFINE frame == Frame("state_changed", e, {<<e, s>>})
             told == Listening /\ Subscribed /\ token # None /\ e \in subscription /\ InScope(token, e, placed')
  <2>2. CASE told
    <3>1. Push(frame) /\ shown' \in {shown, shown \cup {e}} /\ Listening
      BY <1>9, <2>2 DEF Changes, TellState
    <3>2. frame \in Frames
      BY DEF Frame, Frames, COALESCEABLE_TYPES
    <3>3. e \in Scope[token] /\ token # None /\ Subscribed
      BY <2>2 DEF InScope
    <3>4. MayWait(frame, token)
      BY <3>3 DEF MayWait, Reveals, Frame
    <3> HIDE DEF frame
    <3>5. /\ queue' \in Seq(Frames) /\ lost' \subseteq Entities /\ phase' \in {"open", "closing"}
          /\ token' = token /\ HeldBack'
      BY <1>t, <3>1, <3>2, <3>4, PushKeeps DEF IInv
    <3>6. UNCHANGED <<deadline, recheck, subscription, sending>>
      BY <3>1 DEF Push
    <3> QED
      BY <1>t, <2>1, <3>1, <3>3, <3>5, <3>6 DEF IInv, TypeOK, Connecting, Subscribed
  <2>3. CASE ~told
    <3>1. UNCHANGED connection
      BY <1>9, <2>3 DEF Changes, TellState
    <3> QED
      BY <1>t, <2>1, <3>1, QuietKeeps DEF connection, TypeOK
  <2> QED
    BY <2>2, <2>3
<1>10. ASSUME NEW e \in Entities, LosesArea(e) PROVE IInv'
  BY <1>10, <1>t, QuietKeeps DEF LosesArea, connection, TypeOK
<1>11. ASSUME NEW e \in Entities, Goes(e) PROVE IInv'
  <2>1. home' \in [Entities -> States \cup {None}] /\ UNCHANGED <<placed, valid, app>>
    BY <1>11, <1>t DEF Goes, TypeOK
  <2> DEFINE frame == Frame("entity_removed", e, {})
  <2>2. CASE Listening /\ token # None /\ e \in shown
    <3>1. Push(frame) /\ shown' \in {shown, shown \ {e}} /\ Listening
      BY <1>11, <2>2 DEF Goes, TellRemoval
    <3>2. frame \in Frames
      BY DEF Frame, Frames, COALESCEABLE_TYPES
    <3>3. MayWait(frame, token)
      BY <2>2 DEF MayWait, Reveals, Frame, IInv
    <3> HIDE DEF frame
    <3>4. /\ queue' \in Seq(Frames) /\ lost' \subseteq Entities /\ phase' \in {"open", "closing"}
          /\ token' = token /\ HeldBack'
      BY <1>t, <3>1, <3>2, <3>3, PushKeeps DEF IInv
    <3>5. UNCHANGED <<deadline, recheck, subscription, sending>>
      BY <3>1 DEF Push
    <3> QED
      BY <1>t, <2>1, <3>1, <3>4, <3>5 DEF IInv, TypeOK, Connecting, Subscribed
  <2>3. CASE ~(Listening /\ token # None /\ e \in shown)
    <3>1. UNCHANGED connection
      BY <1>11, <2>3 DEF Goes, TellRemoval
    <3> QED
      BY <1>t, <2>1, <3>1, QuietKeeps DEF connection, TypeOK
  <2> QED
    BY <2>2, <2>3
<1>12. ASSUME NEW type \in Nudges, Nudge(type) PROVE IInv'
  <2>1. Plain(type) \in Frames
    BY FramesAssumption, PlainType DEF ReadyFrames, COALESCEABLE_TYPES
  <2>2. Push(Plain(type)) /\ Listening /\ token # None /\ UNCHANGED <<shown, world, app>>
    BY <1>12 DEF Nudge
  <2>3. MayWait(Plain(type), token)
    BY <2>2 DEF MayWait, Reveals, Plain, Frame
  <2>4. /\ queue' \in Seq(Frames) /\ lost' \subseteq Entities /\ phase' \in {"open", "closing"}
        /\ token' = token /\ HeldBack'
    BY <1>t, <2>1, <2>2, <2>3, PushKeeps DEF IInv
  <2>5. UNCHANGED <<deadline, recheck, subscription, sending>>
    BY <2>2 DEF Push
  <2> QED
    BY <1>t, <2>2, <2>4, <2>5 DEF IInv, TypeOK, Connecting, Subscribed, world
<1>13. ASSUME NEW t \in Tokens, Mints(t) \/ Revokes(t) \/ Expires(t) PROVE IInv'
  <2>1. valid' \subseteq Tokens
    BY <1>13, <1>t DEF Mints, Revokes, Expires, TypeOK
  <2>2. recheck' \in BOOLEAN
    <3>1. CASE Revokes(t)
      <4>1. recheck' = Listening
        BY <3>1 DEF Revokes
      <4> QED
        BY <4>1 DEF Listening
    <3>2. CASE Mints(t) \/ Expires(t)
      BY <1>t, <3>2 DEF Mints, Expires, connection, TypeOK
    <3> QED
      BY <1>13, <3>1, <3>2
  <2>3. UNCHANGED <<phase, token, deadline, subscription, shown, queue, sending, lost, home, placed, app>>
    BY <1>13 DEF Mints, Revokes, Expires, connection
  <2> QED
    BY <1>t, <2>1, <2>2, <2>3, QuietKeeps DEF TypeOK
<1>14. CASE Take
  <2>1. /\ sending' \in Frames /\ queue' \in Seq(Frames)
        /\ \A k \in DOMAIN queue' : \E i \in DOMAIN queue : queue'[k] = queue[i]
    <3>1. Len(queue) \in Nat /\ DOMAIN queue = 1..Len(queue)
      BY <1>t, LenProperties DEF TypeOK
    <3>2. queue \in Seq(Frames) /\ queue # <<>> /\ sending' = Head(queue) /\ queue' = Tail(queue)
      BY <1>14, <1>t DEF Take, TypeOK
    <3>3. /\ Head(queue) \in Frames /\ Tail(queue) \in Seq(Frames)
          /\ Len(Tail(queue)) = Len(queue) - 1
          /\ \A k \in 1..Len(Tail(queue)) : Tail(queue)[k] = queue[k + 1]
      BY <3>2, HeadTailProperties
    <3>4. DOMAIN queue' = 1..Len(queue')
      BY <3>2, <3>3, LenProperties
    <3>5. \A k \in 1..Len(queue') : k + 1 \in 1..Len(queue)
      BY <3>1, <3>2, <3>3
    <3> QED
      BY <3>1, <3>2, <3>3, <3>4, <3>5
  <2> QED
    BY <1>14, <1>t, <2>1 DEF Take, IInv, TypeOK, HeldBack, Listening, Connecting, Subscribed, world
<1>15. CASE Write
  <2>1. app' \in [Entities -> States \cup {None}]
    <3>1. \A e \in {d[1] : d \in sending.devices} : (CHOOSE d \in sending.devices : d[1] = e)[2] \in States
      BY <1>15, <1>t DEF Write, TypeOK, Frames
    <3> QED
      BY <1>15, <1>t, <3>1 DEF Write, Shows, TypeOK
  <2>2. TypeOK'
    BY <1>15, <1>t, <2>1 DEF Write, TypeOK, world
  <2> QED
    BY <1>15, <2>2, QuietKeeps DEF Write
<1>16. CASE Close
  BY <1>16, ClosedKeeps DEF Close
<1>17. CASE Connect
  BY <1>17, <1>t DEF Connect, IInv, TypeOK, HeldBack, Connecting, Subscribed, world
<1>18. CASE UNCHANGED vars
  BY <1>18, <1>t, QuietKeeps DEF vars, connection, world, TypeOK
<1> QED
  BY <1>1, <1>2, <1>3, <1>4, <1>5, <1>6, <1>7, <1>8, <1>9, <1>10, <1>11, <1>12, <1>13, <1>14,
     <1>15, <1>16, <1>17, <1>18 DEF Next

(* Every variable of a connection keeps its type. *)
THEOREM TypeCorrect == Spec => []TypeOK
<1>1. IInv => TypeOK
  BY DEF IInv
<1> QED
  BY <1>1, InitInv, StepInv, PTL DEF Spec

(* A connection that waits for a new token has no home data queued, and what *)
(* is queued tells only of the rooms of its token (drop_data, visible_to).   *)
THEOREM HeldBackAlways == Spec => []HeldBack
<1>1. IInv => HeldBack
  BY DEF IInv
<1> QED
  BY <1>1, InitInv, StepInv, PTL DEF Spec

-----------------------------------------------------------------------------
(* What is on its way to the app. *)

(* What a frame does to the tile of an entity. *)
About(frame, e) == frame.type = "subscribed" \/ frame.entity = e
Told(frame, e) ==
    IF \E d \in frame.devices : d[1] = e THEN (CHOOSE d \in frame.devices : d[1] = e)[2] ELSE None
Shaped(frame) ==
    /\ frame.entity # None <=> frame.type \in {"state_changed", "entity_removed"}
    /\ frame.type # "subscribed" => \A d \in frame.devices : d[1] = frame.entity

(* The tile that the frames of q leave where there was this one. *)
EndsAs(q, tile, e, v) ==
    \/ tile = v /\ \A i \in DOMAIN q : ~About(q[i], e)
    \/ \E i \in DOMAIN q : /\ About(q[i], e) /\ Told(q[i], e) = v
                           /\ \A j \in DOMAIN q : i < j => ~About(q[j], e)
OnScreen(e) == IF sending # None /\ About(sending, e) THEN Told(sending, e) ELSE app[e]
WillShow(e, v) == EndsAs(queue, OnScreen(e), e, v)

(* One frame of an entity at a time, and no snapshot behind it. *)
Ordered(q) == \A i, j \in DOMAIN q :
    i < j /\ q[i].entity # None => q[j].type # "subscribed" /\ q[j].entity # q[i].entity

Queued ==
    /\ \A i \in DOMAIN queue : Shaped(queue[i])
    /\ sending # None => Shaped(sending)
    /\ Ordered(queue)
    /\ ~Subscribed => \A i \in DOMAIN queue : queue[i].entity = None

(* What is on its way brings the tiles to the home. *)
OnItsWay ==
    phase = "open" /\ token # None /\ Subscribed =>
        \A e \in Entities \ lost :
            /\ e \in subscription /\ Visible(token, e) => WillShow(e, home[e])
            /\ e \notin subscription \cap Scope[token] \/ home[e] = None \/ e \notin shown => WillShow(e, None)

LEMMA OfSeq ==
  ASSUME NEW S, NEW q \in Seq(S)
  PROVE  Len(q) \in Nat /\ DOMAIN q = 1..Len(q) /\ \A i \in DOMAIN q : q[i] \in S
  BY LenProperties, ElementOfSeq

LEMMA OfAppend ==
  ASSUME NEW S, NEW q \in Seq(S), NEW frame \in S, NEW r, r = Append(q, frame)
  PROVE  /\ r \in Seq(S) /\ Len(q) \in Nat
         /\ DOMAIN q = 1..Len(q) /\ DOMAIN r = 1..(Len(q) + 1)
         /\ r[Len(q) + 1] = frame /\ \A i \in 1..Len(q) : r[i] = q[i]
  BY OfSeq, AppendProperties

LEMMA OfRemoveAt ==
  ASSUME NEW S, NEW q \in Seq(S), NEW i \in 1..Len(q), NEW r, r = RemoveAt(q, i)
  PROVE  /\ r \in Seq(S) /\ DOMAIN r = 1..(Len(q) - 1)
         /\ \A k \in DOMAIN r : r[k] = IF k < i THEN q[k] ELSE q[k + 1]
<1> DEFINE n == Len(q)
           front == SubSeq(q, 1, i - 1)
           back == SubSeq(q, i + 1, n)
<1>1. n \in Nat /\ DOMAIN q = 1..n /\ i \in 1..n /\ \A k \in 1..n : q[k] \in S
  BY OfSeq
<1>2. r = front \o back
  BY DEF RemoveAt
<1> HIDE DEF n
<1>3. /\ front \in Seq(S) /\ Len(front) = i - 1
      /\ \A k \in 1..(i - 1) : front[k] = q[k]
  <2>1. i - 1 \in Int /\ 1 \in Int /\ \A k \in 1..(i - 1) : q[k] \in S
    BY <1>1
  <2>2. /\ front \in Seq(S) /\ Len(front) = IF 1 <= i - 1 THEN i - 1 - 1 + 1 ELSE 0
        /\ \A k \in 1..(i - 1 - 1 + 1) : front[k] = q[1 + k - 1]
    BY <2>1, SubSeqProperties
  <2> HIDE DEF front
  <2> QED  BY <1>1, <2>2
<1>4. /\ back \in Seq(S) /\ Len(back) = n - i
      /\ \A k \in 1..(n - i) : back[k] = q[i + k]
  <2>1. i + 1 \in Int /\ n \in Int /\ \A k \in (i + 1)..n : q[k] \in S
    BY <1>1
  <2>2. /\ back \in Seq(S) /\ Len(back) = IF i + 1 <= n THEN n - (i + 1) + 1 ELSE 0
        /\ \A k \in 1..(n - (i + 1) + 1) : back[k] = q[(i + 1) + k - 1]
    BY <2>1, SubSeqProperties
  <2> HIDE DEF back
  <2>3. \A k \in 1..(n - i) : (i + 1) + k - 1 = i + k /\ k \in 1..(n - (i + 1) + 1)
    BY <1>1
  <2> QED  BY <1>1, <2>2, <2>3
<1> HIDE DEF front, back
<1>5. /\ r \in Seq(S) /\ Len(r) = n - 1
      /\ \A k \in 1..(n - 1) : r[k] = IF k <= i - 1 THEN front[k] ELSE back[k - (i - 1)]
  <2>1. /\ front \o back \in Seq(S) /\ Len(front \o back) = Len(front) + Len(back)
        /\ \A k \in 1..(Len(front) + Len(back)) :
             (front \o back)[k] = IF k <= Len(front) THEN front[k] ELSE back[k - Len(front)]
    BY <1>3, <1>4, ConcatProperties
  <2>2. (i - 1) + (n - i) = n - 1
    BY <1>1
  <2> QED  BY <1>2, <1>3, <1>4, <2>1, <2>2
<1>6. DOMAIN r = 1..(n - 1)
  BY <1>5, OfSeq
<1>7. ASSUME NEW k \in 1..(n - 1) PROVE r[k] = IF k < i THEN q[k] ELSE q[k + 1]
  <2>1. CASE k < i
    BY <1>1, <1>3, <1>5, <2>1
  <2>2. CASE ~(k < i)
    <3>1. k - (i - 1) \in 1..(n - i) /\ ~(k <= i - 1) /\ i + (k - (i - 1)) = k + 1
      BY <1>1, <2>2
    <3>2. back[k - (i - 1)] = q[k + 1]
      BY <1>4, <3>1
    <3> QED  BY <1>5, <2>2, <3>1, <3>2
  <2> QED  BY <2>1, <2>2
<1> QED  BY <1>5, <1>6, <1>7 DEF n

(* A frame that is queued decides its own tiles, and no other. *)
LEMMA EndsAppend ==
  ASSUME NEW S, NEW q \in Seq(S), NEW frame \in S, NEW r, r = Append(q, frame), NEW tile, NEW e
  PROVE  /\ About(frame, e) => EndsAs(r, tile, e, Told(frame, e))
         /\ ~About(frame, e) => \A v : EndsAs(q, tile, e, v) => EndsAs(r, tile, e, v)
<1> DEFINE n == Len(q)
<1>1. /\ n \in Nat /\ DOMAIN q = 1..n /\ DOMAIN r = 1..(n + 1)
      /\ r[n + 1] = frame /\ \A i \in 1..n : r[i] = q[i]
  BY OfAppend
<1> HIDE DEF n
<1>2. ASSUME About(frame, e) PROVE EndsAs(r, tile, e, Told(frame, e))
  <2>1. n + 1 \in DOMAIN r /\ \A j \in DOMAIN r : ~(n + 1 < j)
    BY <1>1
  <2> QED  BY <1>1, <1>2, <2>1 DEF EndsAs
<1>3. ASSUME ~About(frame, e), NEW v, EndsAs(q, tile, e, v) PROVE EndsAs(r, tile, e, v)
  <2>1. \A j \in DOMAIN r : (j \in DOMAIN q /\ r[j] = q[j]) \/ ~About(r[j], e)
    BY <1>1, <1>3
  <2>2. CASE tile = v /\ \A i \in DOMAIN q : ~About(q[i], e)
    BY <2>1, <2>2 DEF EndsAs
  <2>3. ASSUME NEW i \in DOMAIN q, About(q[i], e), Told(q[i], e) = v,
               \A j \in DOMAIN q : i < j => ~About(q[j], e)
        PROVE  EndsAs(r, tile, e, v)
    <3>1. i \in DOMAIN r /\ r[i] = q[i]
      BY <1>1
    <3> QED  BY <2>1, <2>3, <3>1 DEF EndsAs
  <2> QED  BY <1>3, <2>2, <2>3 DEF EndsAs
<1> QED  BY <1>2, <1>3

LEMMA EndsReplaced ==
  ASSUME NEW q, NEW i \in DOMAIN q, NEW frame, NEW r, r = [q EXCEPT ![i] = frame], NEW tile, NEW e
  PROVE  /\ About(frame, e) /\ (\A j \in DOMAIN q : i < j => ~About(q[j], e)) /\ ~(i < i) =>
              EndsAs(r, tile, e, Told(frame, e))
         /\ ~About(frame, e) /\ ~About(q[i], e) => \A v : EndsAs(q, tile, e, v) => EndsAs(r, tile, e, v)
<1>1. DOMAIN r = DOMAIN q /\ r[i] = frame /\ \A j \in DOMAIN q \ {i} : r[j] = q[j]
  OBVIOUS
<1>2. ASSUME About(frame, e), \A j \in DOMAIN q : i < j => ~About(q[j], e), ~(i < i)
      PROVE  EndsAs(r, tile, e, Told(frame, e))
  <2>1. \A j \in DOMAIN r : i < j => ~About(r[j], e)
    BY <1>1, <1>2
  <2> QED  BY <1>1, <1>2, <2>1 DEF EndsAs
<1>3. ASSUME ~About(frame, e), ~About(q[i], e), NEW v, EndsAs(q, tile, e, v)
      PROVE  EndsAs(r, tile, e, v)
  <2>1. \A j \in DOMAIN r : IF j = i THEN ~About(r[j], e) ELSE r[j] = q[j]
    BY <1>1, <1>3
  <2>2. CASE tile = v /\ \A j \in DOMAIN q : ~About(q[j], e)
    BY <1>1, <2>1, <2>2 DEF EndsAs
  <2>3. ASSUME NEW k \in DOMAIN q, About(q[k], e), Told(q[k], e) = v,
               \A j \in DOMAIN q : k < j => ~About(q[j], e)
        PROVE  EndsAs(r, tile, e, v)
    <3>1. k # i
      BY <1>3, <2>3
    <3>2. r[k] = q[k] /\ k \in DOMAIN r /\ \A j \in DOMAIN r : k < j => ~About(r[j], e)
      BY <1>1, <2>1, <2>3, <3>1
    <3> QED  BY <2>3, <3>2 DEF EndsAs
  <2> QED  BY <1>3, <2>2, <2>3 DEF EndsAs
<1> QED  BY <1>2, <1>3

LEMMA EndsRemoved ==
  ASSUME NEW S, NEW q \in Seq(S), NEW i \in 1..Len(q), NEW r, r = RemoveAt(q, i),
         NEW tile, NEW e, NEW v, ~About(q[i], e), EndsAs(q, tile, e, v)
  PROVE  EndsAs(r, tile, e, v)
<1> DEFINE n == Len(q)
<1>1. /\ n \in Nat /\ DOMAIN q = 1..n /\ DOMAIN r = 1..(n - 1) /\ i \in 1..n
      /\ \A k \in DOMAIN r : r[k] = IF k < i THEN q[k] ELSE q[k + 1]
  BY OfSeq, OfRemoveAt
<1> HIDE DEF n
<1>2. CASE tile = v /\ \A j \in DOMAIN q : ~About(q[j], e)
  <2>1. \A k \in DOMAIN r : k \in DOMAIN q /\ k + 1 \in DOMAIN q
    BY <1>1
  <2> QED  BY <1>1, <1>2, <2>1 DEF EndsAs
<1>3. ASSUME NEW k \in DOMAIN q, About(q[k], e), Told(q[k], e) = v,
             \A j \in DOMAIN q : k < j => ~About(q[j], e)
      PROVE  EndsAs(r, tile, e, v)
  <2> DEFINE l == IF k < i THEN k ELSE k - 1
  <2>0. k # i
    BY <1>3
  <2>1. l \in DOMAIN r /\ r[l] = q[k]
    <3>1. CASE k < i
      <4>1. k \in DOMAIN r
        BY <1>1, <3>1
      <4> QED  BY <1>1, <3>1, <4>1
    <3>2. CASE ~(k < i)
      <4>1. k - 1 \in DOMAIN r /\ ~(k - 1 < i) /\ (k - 1) + 1 = k
        BY <1>1, <2>0, <3>2
      <4> QED  BY <1>1, <3>2, <4>1
    <3> QED  BY <3>1, <3>2
  <2>2. ASSUME NEW j \in DOMAIN r, l < j PROVE ~About(r[j], e)
    <3>1. CASE j < i
      <4>1. k < j /\ j \in DOMAIN q
        BY <1>1, <2>0, <2>2, <3>1
      <4> QED  BY <1>1, <1>3, <3>1, <4>1
    <3>2. CASE ~(j < i)
      <4>1. k < j + 1 /\ j + 1 \in DOMAIN q
        BY <1>1, <2>0, <2>2, <3>2
      <4> QED  BY <1>1, <1>3, <3>2, <4>1
    <3> QED  BY <3>1, <3>2
  <2> HIDE DEF l
  <2> QED  BY <1>3, <2>1, <2>2 DEF EndsAs
<1> QED  BY <1>2, <1>3 DEF EndsAs

(* The frame that is taken counts as written. *)
LEMMA EndsTail ==
  ASSUME NEW S, NEW q \in Seq(S), q # <<>>, NEW r, r = Tail(q), NEW tile, NEW e, NEW v, EndsAs(q, tile, e, v)
  PROVE  EndsAs(r, IF About(Head(q), e) THEN Told(Head(q), e) ELSE tile, e, v)
<1> DEFINE n == Len(q)
<1>1. /\ n \in Nat \ {0} /\ DOMAIN q = 1..n /\ DOMAIN r = 1..(n - 1) /\ Head(q) = q[1]
      /\ \A k \in DOMAIN r : r[k] = q[k + 1]
  <2>1. n \in Nat /\ DOMAIN q = 1..n
    BY OfSeq
  <2>2. /\ r \in Seq(S) /\ Len(r) = n - 1 /\ Head(q) = q[1] /\ n # 0
        /\ \A k \in 1..Len(r) : r[k] = q[k + 1]
    BY HeadTailProperties, EmptySeq
  <2>3. DOMAIN r = 1..Len(r)
    BY <2>2, OfSeq
  <2> QED  BY <2>1, <2>2, <2>3
<1> HIDE DEF n
<1>2. \A j \in DOMAIN r : j + 1 \in DOMAIN q /\ 1 < j + 1
  BY <1>1
<1>3. CASE tile = v /\ \A j \in DOMAIN q : ~About(q[j], e)
  BY <1>1, <1>2, <1>3 DEF EndsAs
<1>4. ASSUME NEW k \in DOMAIN q, About(q[k], e), Told(q[k], e) = v,
             \A j \in DOMAIN q : k < j => ~About(q[j], e)
      PROVE  EndsAs(r, IF About(Head(q), e) THEN Told(Head(q), e) ELSE tile, e, v)
  <2>1. CASE k = 1
    BY <1>1, <1>2, <1>4, <2>1 DEF EndsAs
  <2>2. CASE k # 1
    <3>1. k - 1 \in DOMAIN r /\ (k - 1) + 1 = k
      BY <1>1, <2>2
    <3>2. r[k - 1] = q[k]
      BY <1>1, <3>1
    <3>3. ASSUME NEW j \in DOMAIN r, k - 1 < j PROVE ~About(r[j], e)
      <4>1. k < j + 1 /\ j + 1 \in DOMAIN q
        BY <1>1, <3>3
      <4> QED  BY <1>1, <1>4, <4>1
    <3> QED  BY <1>4, <3>1, <3>2, <3>3 DEF EndsAs
  <2> QED  BY <2>1, <2>2
<1> QED  BY <1>3, <1>4 DEF EndsAs

LEMMA OrderedAppend ==
  ASSUME NEW S, NEW q \in Seq(S), NEW frame \in S, NEW r, r = Append(q, frame), Ordered(q),
         \A i \in DOMAIN q : q[i].entity # None => frame.type # "subscribed" /\ frame.entity # q[i].entity
  PROVE  Ordered(r)
<1> DEFINE n == Len(q)
<1>1. /\ n \in Nat /\ DOMAIN q = 1..n /\ DOMAIN r = 1..(n + 1)
      /\ r[n + 1] = frame /\ \A i \in 1..n : r[i] = q[i]
  BY OfAppend
<1> HIDE DEF n
<1>2. ASSUME NEW i \in DOMAIN r, NEW j \in DOMAIN r, i < j, r[i].entity # None
      PROVE  r[j].type # "subscribed" /\ r[j].entity # r[i].entity
  <2>1. i \in DOMAIN q /\ r[i] = q[i]
    BY <1>1, <1>2
  <2>2. CASE j \in DOMAIN q
    BY <1>1, <1>2, <2>1, <2>2 DEF Ordered
  <2>3. CASE j = n + 1
    BY <1>1, <1>2, <2>1, <2>3
  <2> QED  BY <1>1, <2>2, <2>3
<1> QED  BY <1>2 DEF Ordered

LEMMA OrderedReplaced ==
  ASSUME NEW q, NEW i \in DOMAIN q, NEW frame, NEW r, r = [q EXCEPT ![i] = frame], Ordered(q),
         frame.entity = q[i].entity, frame.type # "subscribed"
  PROVE  Ordered(r)
<1>1. DOMAIN r = DOMAIN q /\ r[i] = frame /\ \A j \in DOMAIN q \ {i} : r[j] = q[j]
  OBVIOUS
<1>2. \A j \in DOMAIN r : r[j].entity = q[j].entity /\ (r[j].type = q[j].type \/ r[j].type # "subscribed")
  BY <1>1
<1> QED  BY <1>1, <1>2 DEF Ordered

LEMMA OrderedRemoved ==
  ASSUME NEW S, NEW q \in Seq(S), NEW i \in 1..Len(q), NEW r, r = RemoveAt(q, i), Ordered(q)
  PROVE  Ordered(r)
<1> DEFINE n == Len(q)
           was(k) == IF k < i THEN k ELSE k + 1
<1>1. /\ n \in Nat /\ DOMAIN q = 1..n /\ DOMAIN r = 1..(n - 1) /\ i \in 1..n
      /\ \A k \in DOMAIN r : r[k] = q[was(k)]
  BY OfSeq, OfRemoveAt
<1> HIDE DEF n
<1>2. \A k \in DOMAIN r : was(k) \in DOMAIN q
  BY <1>1
<1>3. \A k, l \in DOMAIN r : k < l => was(k) < was(l)
  BY <1>1
<1> HIDE DEF was
<1> QED  BY <1>1, <1>2, <1>3 DEF Ordered

LEMMA OrderedTail ==
  ASSUME NEW S, NEW q \in Seq(S), q # <<>>, NEW r, r = Tail(q), Ordered(q)
  PROVE  Ordered(r)
<1> DEFINE n == Len(q)
<1>1. n \in Nat /\ DOMAIN q = 1..n /\ DOMAIN r = 1..(n - 1) /\ \A k \in DOMAIN r : r[k] = q[k + 1]
  <2>1. n \in Nat /\ DOMAIN q = 1..n
    BY OfSeq
  <2>2. r \in Seq(S) /\ Len(r) = n - 1 /\ \A k \in 1..Len(r) : r[k] = q[k + 1]
    BY HeadTailProperties
  <2> QED  BY <2>1, <2>2, OfSeq
<1> HIDE DEF n
<1>2. \A k, l \in DOMAIN r : k + 1 \in DOMAIN q /\ (k < l => k + 1 < l + 1)
  BY <1>1
<1> QED  BY <1>1, <1>2 DEF Ordered

(* What offer does with a frame it takes. *)
LEMMA OfferTakes ==
  ASSUME NEW q \in Seq(Frames), NEW frame \in Frames, ~Refused(q, frame)
  PROVE  \/ /\ Droppable(frame) /\ ~Evicts(q, frame)
            /\ \E i \in DOMAIN q : /\ Droppable(q[i]) /\ coalesce_key(q[i]) = coalesce_key(frame)
                                   /\ offer(q, frame) = [q EXCEPT ![i] = frame]
         \/ /\ Droppable(frame) => SameKey(q, frame) = {}
            /\ ~Evicts(q, frame) /\ offer(q, frame) = Append(q, frame)
         \/ /\ Droppable(frame) => SameKey(q, frame) = {}
            /\ Evicts(q, frame)
            /\ \E i \in DOMAIN q : /\ i = Oldest(Evictable(q)) /\ Droppable(q[i])
                                   /\ offer(q, frame) = Append(RemoveAt(q, i), frame)
<1>1. Len(q) \in Nat /\ DOMAIN q = 1..Len(q)
  BY OfSeq
<1>2. CASE Replaces(q, frame)
  <2>1. SameKey(q, frame) # {} /\ SameKey(q, frame) \subseteq Nat
    BY <1>1, <1>2 DEF Replaces, SameKey
  <2>2. Oldest(SameKey(q, frame)) \in SameKey(q, frame)
    BY <2>1, OldestIn
  <2> QED  BY <1>2, <2>2 DEF Replaces, Evicts, SameKey, offer
<1>3. CASE Fits(q, frame)
  <2>1. ~Replaces(q, frame) /\ offer(q, frame) = Append(q, frame)
    BY <1>3 DEF Fits, offer
  <2>2. ~Evicts(q, frame)
    <3> DEFINE n == Len(q)
    <3>1. n \in Nat /\ MaxSize \in Nat /\ n < MaxSize
      BY <1>1, <1>3, MaxAssumption DEF Fits
    <3> HIDE DEF n
    <3>2. ~(n >= MaxSize)
      BY <3>1
    <3> QED  BY <3>2 DEF n, Evicts
  <2> QED  BY <2>1, <2>2 DEF Replaces
<1>4. CASE Evicts(q, frame)
  <2>1. Evictable(q) # {} /\ Evictable(q) \subseteq Nat
    BY <1>1, <1>4 DEF Evicts, Evictable
  <2>2. Oldest(Evictable(q)) \in Evictable(q)
    BY <2>1, OldestIn
  <2>3. offer(q, frame) = Append(RemoveAt(q, Oldest(Evictable(q))), frame)
    BY <1>1, <1>4, MaxAssumption DEF Evicts, Fits, offer
  <2> QED  BY <1>4, <2>2, <2>3 DEF Evicts, Replaces, Evictable
<1> QED  BY <1>1, <1>2, <1>3, <1>4, MaxAssumption DEF Fits, Evicts, Refused

(* A push of an entity has the key of the frames about that entity. *)
LEMMA KeysMatch ==
  ASSUME NEW old \in Frames, NEW frame \in Frames, Shaped(old), Shaped(frame), Droppable(frame)
  PROVE  /\ Droppable(old) /\ coalesce_key(old) = coalesce_key(frame) => old.entity = frame.entity
         /\ frame.entity # None /\ old.entity = frame.entity =>
              Droppable(old) /\ coalesce_key(old) = coalesce_key(frame)
<1>1. frame.type \in COALESCEABLE_TYPES
  BY DEF Droppable
<1>2. CASE frame.entity # None
  <2>1. coalesce_key(frame) = <<"entity", frame.entity>>
    BY <1>2 DEF coalesce_key, Shaped
  <2>2. old.entity # None => coalesce_key(old) = <<"entity", old.entity>> /\ Droppable(old)
    BY DEF coalesce_key, Shaped, Droppable, COALESCEABLE_TYPES
  <2>3. old.entity = None => coalesce_key(old) = <<old.type, None>>
    BY DEF coalesce_key, Shaped
  <2> QED  BY <1>2, <2>1, <2>2, <2>3
<1>3. CASE frame.entity = None
  <2>1. coalesce_key(frame) = <<frame.type, None>> /\ frame.type \in {"registry_changed", "alarm_changed"}
    BY <1>1, <1>3 DEF coalesce_key, Shaped, COALESCEABLE_TYPES
  <2>2. old.entity # None => coalesce_key(old) = <<"entity", old.entity>>
    BY DEF coalesce_key, Shaped
  <2> QED  BY <1>3, <2>1, <2>2
<1> QED  BY <1>2, <1>3

(* What a push that was not refused does to the tiles to come. *)
PushOutcome(frame) ==
  /\ \A i \in DOMAIN queue' : Shaped(queue'[i])
  /\ Ordered(queue')
  /\ \A e \in Entities \ lost' :
       /\ e = frame.entity => \A tile : EndsAs(queue', tile, e, Told(frame, e))
       /\ e # frame.entity =>
            e \notin lost /\ \A tile, v : EndsAs(queue, tile, e, v) => EndsAs(queue', tile, e, v)

LEMMA PushSync ==
  ASSUME TypeOK, Queued, NEW frame \in Frames, Shaped(frame), frame.type # "subscribed",
         Push(frame), ~Refused(queue, frame)
  PROVE  PushOutcome(frame)
<1>1. queue \in Seq(Frames) /\ queue' = offer(queue, frame) /\ queue' \in Seq(Frames)
  BY Offer DEF Push, TypeOK
<1>2. ASSUME NEW i \in DOMAIN queue' PROVE Shaped(queue'[i])
  <2>1. offer(queue, frame)[i] = frame \/ \E j \in DOMAIN queue : offer(queue, frame)[i] = queue[j]
    BY <1>1, <1>2, Offer
  <2> QED  BY <1>1, <2>1 DEF Queued
<1>3. \A e \in Entities : e # None /\ (About(frame, e) <=> e = frame.entity)
  BY NoneAssumption DEF About
<1>4. \A i \in DOMAIN queue : queue[i] \in Frames /\ Shaped(queue[i])
  BY <1>1, OfSeq DEF Queued
<1>5. ASSUME NEW i \in DOMAIN queue, Droppable(frame), ~Evicts(queue, frame), Droppable(queue[i]),
             coalesce_key(queue[i]) = coalesce_key(frame), queue' = [queue EXCEPT ![i] = frame]
      PROVE  PushOutcome(frame)
  <2>1. queue[i].entity = frame.entity /\ queue[i].type # "subscribed"
    BY <1>4, <1>5, KeysMatch DEF Droppable, COALESCEABLE_TYPES
  <2>2. Ordered(queue')
    BY <1>5, <2>1, OrderedReplaced DEF Queued
  <2>3. lost' = lost \ {frame.entity}
    BY <1>5 DEF Push
  <2>4. ~(i < i)
    BY <1>1, OfSeq
  <2>5. ASSUME NEW e \in Entities \ lost', e = frame.entity, NEW tile
        PROVE  EndsAs(queue', tile, e, Told(frame, e))
    <3>1. \A j \in DOMAIN queue : i < j => ~About(queue[j], e)
      BY <1>3, <2>1, <2>5 DEF Queued, Ordered, About
    <3>2. About(frame, e) /\ About(queue[i], e)
      BY <1>3, <2>1, <2>5 DEF About
    <3> QED  BY <1>5, <2>4, <3>1, <3>2, EndsReplaced
  <2>6. ASSUME NEW e \in Entities \ lost', e # frame.entity
        PROVE  e \notin lost /\ \A tile, v : EndsAs(queue, tile, e, v) => EndsAs(queue', tile, e, v)
    <3>1. ~About(frame, e) /\ ~About(queue[i], e)
      BY <1>3, <2>1, <2>6 DEF About
    <3> QED  BY <1>5, <2>3, <2>6, <3>1, EndsReplaced
  <2> QED  BY <1>2, <2>2, <2>5, <2>6 DEF PushOutcome
<1>6. ASSUME Droppable(frame) => SameKey(queue, frame) = {}, NEW i \in DOMAIN queue, queue[i].entity # None
      PROVE  frame.type # "subscribed" /\ frame.entity # queue[i].entity
  <2>1. frame.entity = queue[i].entity => Droppable(frame)
    BY <1>6 DEF Shaped, Droppable, COALESCEABLE_TYPES
  <2> QED  BY <1>4, <1>6, <2>1, KeysMatch DEF SameKey
<1>7. ASSUME Droppable(frame) => SameKey(queue, frame) = {}, ~Evicts(queue, frame),
             queue' = Append(queue, frame)
      PROVE  PushOutcome(frame)
  <2>1. Ordered(queue')
    BY <1>1, <1>6, <1>7, OrderedAppend DEF Queued
  <2>2. lost' = lost \ {frame.entity}
    BY <1>7 DEF Push
  <2>3. ASSUME NEW e \in Entities \ lost'
        PROVE  /\ e = frame.entity => \A tile : EndsAs(queue', tile, e, Told(frame, e))
               /\ e # frame.entity =>
                    e \notin lost /\ \A tile, v : EndsAs(queue, tile, e, v) => EndsAs(queue', tile, e, v)
    BY <1>1, <1>3, <1>7, <2>2, <2>3, EndsAppend
  <2> QED  BY <1>2, <2>1, <2>3 DEF PushOutcome
<1>8. ASSUME Droppable(frame) => SameKey(queue, frame) = {}, Evicts(queue, frame), NEW i \in DOMAIN queue,
             i = Oldest(Evictable(queue)), Droppable(queue[i]), queue' = Append(RemoveAt(queue, i), frame)
      PROVE  PushOutcome(frame)
  <2>1. PICK rest : rest = RemoveAt(queue, i)
    OBVIOUS
  <2>2. i \in 1..Len(queue)
    BY <1>1, <1>8, OfSeq
  <2>3. /\ rest \in Seq(Frames) /\ Ordered(rest)
        /\ \A k \in DOMAIN rest : \E j \in DOMAIN queue : rest[k] = queue[j]
    <3>1. rest \in Seq(Frames) /\ Ordered(rest)
      BY <1>1, <2>1, <2>2, OfRemoveAt, OrderedRemoved DEF Queued
    <3>2. ASSUME NEW k \in DOMAIN rest PROVE \E j \in DOMAIN queue : rest[k] = queue[j]
      <4>1. Len(queue) \in Nat /\ DOMAIN queue = 1..Len(queue)
        BY <1>1, OfSeq
      <4>2. DOMAIN rest = 1..(Len(queue) - 1) /\ rest[k] = IF k < i THEN queue[k] ELSE queue[k + 1]
        BY <1>1, <2>1, <2>2, OfRemoveAt
      <4>3. k \in DOMAIN queue /\ k + 1 \in DOMAIN queue
        BY <4>1, <4>2
      <4> QED  BY <4>2, <4>3
    <3> QED  BY <3>1, <3>2
  <2>4. Ordered(queue')
    <3>1. ASSUME NEW k \in DOMAIN rest, rest[k].entity # None
          PROVE  frame.type # "subscribed" /\ frame.entity # rest[k].entity
      <4>1. PICK j \in DOMAIN queue : rest[k] = queue[j]
        BY <2>3
      <4> QED  BY <1>6, <1>8, <3>1, <4>1
    <3>2. queue' = Append(rest, frame)
      BY <1>8, <2>1
    <3> QED  BY <2>3, <3>1, <3>2, OrderedAppend
  <2>5. lost' = (lost \cup {queue[i].entity}) \ {frame.entity, None} /\ queue[i].type # "subscribed"
    BY <1>8 DEF Push, Droppable, COALESCEABLE_TYPES
  <2>6. ASSUME NEW e \in Entities \ lost', e # frame.entity
        PROVE  e \notin lost /\ \A tile, v : EndsAs(queue, tile, e, v) => EndsAs(queue', tile, e, v)
    <3>1. ~About(frame, e) /\ ~About(queue[i], e) /\ e \notin lost
      BY <1>3, <2>5, <2>6 DEF About
    <3>2. ASSUME NEW tile, NEW v, EndsAs(queue, tile, e, v) PROVE EndsAs(rest, tile, e, v)
      BY <1>1, <2>1, <2>2, <3>1, <3>2, EndsRemoved
    <3> QED  BY <1>8, <2>1, <2>3, <3>1, <3>2, EndsAppend
  <2>7. ASSUME NEW e \in Entities \ lost', e = frame.entity
        PROVE  \A tile : EndsAs(queue', tile, e, Told(frame, e))
    BY <1>3, <1>8, <2>1, <2>3, <2>7, EndsAppend
  <2> QED  BY <1>2, <2>4, <2>6, <2>7 DEF PushOutcome
<1> QED  BY <1>1, <1>5, <1>7, <1>8, OfferTakes

LEMMA SnapshotSync ==
  ASSUME TypeOK, NEW t \in Tokens, NEW asked \in SUBSET Entities, NEW ahead \in Seq(Frames),
         \A i \in DOMAIN ahead : Shaped(ahead[i]) /\ ahead[i].entity = None,
         Snapshot(t, asked, ahead)
  PROVE  /\ \A i \in DOMAIN queue' : Shaped(queue'[i]) /\ queue'[i].entity = None
         /\ Ordered(queue')
         /\ \A e \in Entities : \A tile :
              /\ e \in asked /\ Visible(t, e) => EndsAs(queue', tile, e, home[e])
              /\ e \notin asked \cap Scope[t] \/ home[e] = None \/ e \notin shown' => EndsAs(queue', tile, e, None)
<1> DEFINE devices == {<<e, home[e]>> : e \in {d \in asked : home[d] # None /\ Visible(t, d)}}
           frame == Frame("subscribed", None, devices)
<1>1. queue' = Append(ahead, frame) /\ shown' = {d[1] : d \in devices}
  BY DEF Snapshot, put_protocol
<1>2. \A e \in Entities : IF e \in asked /\ home[e] # None /\ Visible(t, e)
                            THEN e \in shown' /\ Told(frame, e) = home[e]
                            ELSE e \notin shown' /\ Told(frame, e) = None
  <2>1. frame.devices = devices
    BY DEF Frame
  <2>2. ASSUME NEW e \in Entities, e \in asked /\ home[e] # None /\ Visible(t, e)
        PROVE  e \in shown' /\ Told(frame, e) = home[e]
    <3>1. <<e, home[e]>> \in devices /\ \A d \in devices : d[1] = e => d[2] = home[e]
      BY <2>2
    <3> HIDE DEF devices, frame
    <3> QED  BY <1>1, <2>1, <3>1 DEF Told
  <2>3. ASSUME NEW e \in Entities, ~(e \in asked /\ home[e] # None /\ Visible(t, e))
        PROVE  e \notin shown' /\ Told(frame, e) = None
    <3>1. \A d \in devices : d[1] # e
      BY <2>3
    <3> HIDE DEF devices, frame
    <3> QED  BY <1>1, <2>1, <3>1 DEF Told
  <2> HIDE DEF devices, frame
  <2> QED  BY <2>2, <2>3
<1>3. frame \in Frames /\ Shaped(frame) /\ frame.entity = None /\ \A e : About(frame, e)
  <2>1. devices \subseteq Entities \X States
    BY DEF TypeOK
  <2> HIDE DEF devices
  <2> QED  BY <2>1 DEF Frame, Frames, Shaped, About
<1> HIDE DEF frame, devices
<1>4. \A e, tile : EndsAs(queue', tile, e, Told(frame, e))
  BY <1>1, <1>3, EndsAppend
<1>5. \A i \in DOMAIN queue' : Shaped(queue'[i]) /\ queue'[i].entity = None
  BY <1>1, <1>3, OfAppend
<1>6. Ordered(queue')
  BY <1>5 DEF Ordered
<1>7. \A e \in Entities : Visible(t, e) => e \in Scope[t]
  BY DEF Visible, InScope
<1> QED  BY <1>2, <1>4, <1>5, <1>6, <1>7

(* Steps that leave the frames, the tiles and what they are compared with. *)
LEMMA QuietSync ==
  ASSUME Queued, OnItsWay, phase' = "open" => phase = "open",
         UNCHANGED <<token, subscription, shown, queue, sending, lost, home, placed, app>>
  PROVE  Queued' /\ OnItsWay'
<1>1. Queued'
  BY DEF Queued, Subscribed
<1>2. OnItsWay'
  BY DEF OnItsWay, WillShow, OnScreen, Visible, InScope, Subscribed
<1> QED  BY <1>1, <1>2

LEMMA ClosedSync ==
  ASSUME Closed PROVE Queued' /\ OnItsWay'
<1>1. DOMAIN queue' = {} /\ sending' = None /\ phase' = "closed"
  BY EmptySeq DEF Closed
<1> QED  BY <1>1 DEF Queued, Ordered, OnItsWay

LEMMA CheckSync ==
  ASSUME IInv, Queued, OnItsWay, Check PROVE Queued' /\ OnItsWay'
<1>1. CASE token \notin valid /\ ~deadline
  <2> DEFINE Kind == {f \in Frames : Shaped(f)}
             kept == drop_data(queue)
  <2>1. token' = None /\ queue' = Append(kept, Plain("auth_required"))
    BY <1>1 DEF Check, RequireReauth, put_protocol
  <2>2. queue \in Seq(Kind)
    <3>1. queue \in Seq(Frames) /\ \A i \in DOMAIN queue : queue[i] \in Kind
      BY OfSeq DEF IInv, TypeOK, Queued
    <3>2. Len(queue) \in Nat /\ DOMAIN queue = 1..Len(queue) /\ queue = [i \in 1..Len(queue) |-> queue[i]]
      BY <3>1, LenProperties
    <3> HIDE DEF Kind
    <3> QED  BY <3>1, <3>2, IsASeq
  <2>3. kept \in Seq(Kind) /\ \A k \in DOMAIN kept : IsControl(kept[k])
    BY <2>2, DropData
  <2>4. Plain("auth_required") \in Kind /\ IsControl(Plain("auth_required"))
    BY PlainType DEF ReadyFrames, CONTROL_FRAME_TYPES, IsControl, Plain, Frame, Shaped
  <2> HIDE DEF Kind, kept
  <2>5. \A k \in DOMAIN queue' : queue'[k] \in Kind /\ IsControl(queue'[k])
    <3>1. /\ DOMAIN kept = 1..Len(kept) /\ DOMAIN queue' = 1..(Len(kept) + 1) /\ Len(kept) \in Nat
          /\ queue'[Len(kept) + 1] = Plain("auth_required") /\ \A i \in 1..Len(kept) : queue'[i] = kept[i]
      BY <2>1, <2>3, <2>4, OfAppend
    <3>2. \A i \in DOMAIN kept : kept[i] \in Kind
      BY <2>3, OfSeq
    <3> QED  BY <2>3, <2>4, <3>1, <3>2
  <2>6. \A k \in DOMAIN queue' : Shaped(queue'[k]) /\ queue'[k].entity = None
    BY <2>5 DEF Kind, Shaped, IsControl, CONTROL_FRAME_TYPES
  <2>7. UNCHANGED <<sending, subscription>>
    BY DEF Check
  <2> QED  BY <2>1, <2>6, <2>7 DEF Queued, Ordered, OnItsWay
<1>2. CASE ~(token \notin valid /\ ~deadline)
  BY <1>2, QuietSync DEF Check, world
<1> QED  BY <1>1, <1>2

(* A push of a frame about at most one entity, which leaves the rest alone. *)
LEMMA PushedSync ==
  ASSUME IInv, Queued, OnItsWay, NEW frame \in Frames, Shaped(frame), frame.type # "subscribed",
         Push(frame), app' = app,
         frame.entity # None => Subscribed,
         ~Refused(queue, frame) =>
             \A e \in Entities :
                 IF e = frame.entity
                 THEN /\ e \in subscription /\ Visible(token, e)' => home'[e] = Told(frame, e)
                      /\ e \notin subscription \cap Scope[token] \/ home'[e] = None \/ e \notin shown' =>
                            Told(frame, e) = None
                 ELSE home'[e] = home[e] /\ (e \in placed' <=> e \in placed) /\ (e \in shown' <=> e \in shown)
  PROVE  Queued' /\ OnItsWay'
<1>1. UNCHANGED <<token, subscription, sending>> /\ queue' = offer(queue, frame)
  BY DEF Push
<1>2. CASE Refused(queue, frame)
  <2>1. queue' = queue /\ phase' = "closing"
    <3> DEFINE n == Len(queue)
    <3>1. n \in Nat /\ MaxSize \in Nat /\ n >= MaxSize
      BY <1>2, MaxAssumption, OfSeq DEF Refused, IInv, TypeOK
    <3> HIDE DEF n
    <3>2. ~(n < MaxSize)
      BY <3>1
    <3> QED  BY <1>1, <1>2, <3>2 DEF n, Push, Refused, offer, Fits, Evicts
  <2> QED  BY <1>1, <2>1 DEF Queued, Subscribed, OnItsWay
<1>3. CASE ~Refused(queue, frame)
  <2>1. PushOutcome(frame)
    BY <1>3, PushSync DEF IInv
  <2>2. \A i \in DOMAIN queue' : frame.entity = None /\ ~Subscribed => queue'[i].entity = None
    <3> SUFFICES ASSUME NEW i \in DOMAIN queue', frame.entity = None, ~Subscribed PROVE queue'[i].entity = None
      OBVIOUS
    <3>1. offer(queue, frame)[i] = frame \/ \E j \in DOMAIN queue : offer(queue, frame)[i] = queue[j]
      BY <1>1, Offer DEF IInv, TypeOK
    <3> QED  BY <1>1, <3>1 DEF Queued
  <2>3. Queued'
    BY <1>1, <2>1, <2>2 DEF PushOutcome, Queued, Subscribed
  <2>4. ASSUME phase' = "open", token # None, Subscribed, NEW e \in Entities \ lost'
        PROVE  /\ e \in subscription /\ Visible(token, e)' => EndsAs(queue', OnScreen(e), e, home'[e])
               /\ e \notin subscription \cap Scope[token] \/ home'[e] = None \/ e \notin shown' =>
                      EndsAs(queue', OnScreen(e), e, None)
    <3>1. CASE e = frame.entity
      <4>1. EndsAs(queue', OnScreen(e), e, Told(frame, e))
        BY <2>1, <2>4, <3>1 DEF PushOutcome
      <4> QED  BY <1>3, <2>4, <3>1, <4>1
    <3>2. CASE e # frame.entity
      <4>1. e \notin lost /\ \A v : WillShow(e, v) => EndsAs(queue', OnScreen(e), e, v)
        BY <2>1, <2>4, <3>2 DEF PushOutcome, WillShow
      <4>2. home'[e] = home[e] /\ (e \in placed' <=> e \in placed) /\ (e \in shown' <=> e \in shown)
        BY <1>3, <2>4, <3>2
      <4>3. Visible(token, e)' <=> Visible(token, e)
        BY <1>1, <4>2 DEF Visible, InScope
      <4>4. phase = "open"
        BY <1>3, <2>4 DEF Push
      <4> QED  BY <2>4, <4>1, <4>2, <4>3, <4>4 DEF OnItsWay
    <3> QED  BY <3>1, <3>2
  <2>5. \A e : OnScreen(e)' = OnScreen(e)
    BY <1>1 DEF OnScreen
  <2>6. OnItsWay'
    BY <1>1, <2>4, <2>5 DEF OnItsWay, WillShow, Subscribed
  <2> QED  BY <2>3, <2>6
<1> QED  BY <1>2, <1>3

LEMMA FirstSync == IInv /\ Init => Queued /\ OnItsWay
<1> SUFFICES ASSUME Init PROVE Queued /\ OnItsWay
  OBVIOUS
<1>1. DOMAIN queue = {} /\ sending = None /\ phase = "first"
  BY EmptySeq DEF Init
<1> QED  BY <1>1 DEF Queued, Ordered, OnItsWay

LEMMA StepSync ==
  ASSUME ~Renews, IInv, Queued, OnItsWay, [Next]_vars
  PROVE  Queued' /\ OnItsWay'
<1>t. TypeOK
  BY DEF IInv
<1>q. queue \in Seq(Frames) /\ \A i \in DOMAIN queue : queue[i] \in Frames
  BY <1>t, OfSeq DEF TypeOK
<1>1. CASE FirstFrame
  <2>1. CASE Closed
    BY <2>1, ClosedSync
  <2>2. CASE phase' = "greeting" /\ UNCHANGED <<subscription, queue, sending>>
    BY <2>2 DEF Queued, Subscribed, OnItsWay
  <2> QED  BY <1>1, <2>1, <2>2 DEF FirstFrame
<1>2. CASE Listen
  <2>1. subscription = None
    BY <1>2 DEF Listen, IInv, Connecting
  <2> QED  BY <1>2, <2>1 DEF Listen, Queued, Subscribed, OnItsWay
<1>3. CASE RecheckLoop
  BY <1>3, CheckSync DEF RecheckLoop
<1>4. CASE RecheckNow
  <2>1. CASE token # None
    BY <1>4, <2>1, CheckSync DEF RecheckNow
  <2>2. CASE token = None
    BY <1>4, <2>2, QuietSync DEF RecheckNow, world
  <2> QED  BY <2>1, <2>2
<1>5. CASE DeadlinePasses
  <2>1. CASE token = None
    BY <1>5, <2>1, ClosedSync DEF DeadlinePasses
  <2>2. CASE token # None
    BY <1>5, <2>2, QuietSync DEF DeadlinePasses, world
  <2> QED  BY <2>1, <2>2
<1>6. ASSUME NEW t \in Tokens, Reauth(t) PROVE Queued' /\ OnItsWay'
  <2>1. PICK greeted : greeted = put_protocol(queue, Plain("auth_ok"))
    OBVIOUS
  <2>2. Plain("auth_ok") \in Frames /\ Shaped(Plain("auth_ok")) /\ Plain("auth_ok").entity = None
    BY PlainType DEF ReadyFrames, CONTROL_FRAME_TYPES, Plain, Frame, Shaped
  <2>3. \A i \in DOMAIN queue : queue[i].entity = None
    <3>1. token = None
      BY <1>6 DEF Reauth
    <3>2. \A i \in DOMAIN queue : IsControl(queue[i]) /\ Shaped(queue[i])
      BY <3>1 DEF IInv, HeldBack, MayWait, Queued
    <3> QED  BY <3>2 DEF IsControl, CONTROL_FRAME_TYPES, Shaped
  <2>4. /\ greeted \in Seq(Frames)
        /\ \A i \in DOMAIN greeted : Shaped(greeted[i]) /\ greeted[i].entity = None
    <3>1. \A i \in DOMAIN greeted : greeted[i] = Plain("auth_ok") \/ \E j \in DOMAIN queue : greeted[i] = queue[j]
      BY <1>q, <2>1, <2>2, PutType
    <3>2. greeted \in Seq(Frames)
      BY <1>q, <2>1, <2>2, PutType
    <3> QED  BY <2>2, <2>3, <3>1, <3>2 DEF Queued
  <2>5. token' = t /\ UNCHANGED <<phase, subscription, sending, home, placed, app>>
    BY <1>6 DEF Reauth, world
  <2>6. CASE Subscribed
    <3>1. Snapshot(t, subscription, greeted) /\ subscription \in SUBSET Entities
      BY <1>6, <1>t, <2>1, <2>6 DEF Reauth, Subscribed, TypeOK
    <3>2. /\ \A i \in DOMAIN queue' : Shaped(queue'[i]) /\ queue'[i].entity = None
          /\ Ordered(queue')
          /\ \A e \in Entities : \A tile :
               /\ e \in subscription /\ Visible(t, e) => EndsAs(queue', tile, e, home[e])
               /\ e \notin subscription \cap Scope[t] \/ home[e] = None \/ e \notin shown' =>
                     EndsAs(queue', tile, e, None)
      BY <1>t, <2>4, <3>1, SnapshotSync
    <3> QED  BY <2>5, <3>2 DEF Queued, OnItsWay, WillShow, Visible, InScope
  <2>7. CASE ~Subscribed
    <3>1. queue' = greeted
      BY <1>6, <2>1, <2>7 DEF Reauth
    <3> QED  BY <2>4, <2>5, <2>7, <3>1 DEF Queued, Ordered, Subscribed, OnItsWay
  <2> QED  BY <2>6, <2>7
<1>7. ASSUME NEW asked \in SUBSET Entities, Subscribe(asked) PROVE Queued' /\ OnItsWay'
  <2>1. ~Subscribed /\ subscription' = asked /\ UNCHANGED <<phase, token, sending, home, placed, app>>
    BY <1>7 DEF Subscribe, world
  <2>2. CASE token = None
    <3>1. subscription' # None /\ queue' = queue
      BY <1>7, <2>1, <2>2, NoneAssumption DEF Subscribe
    <3> QED  BY <2>1, <2>2, <3>1 DEF Queued, Subscribed, OnItsWay
  <2>3. CASE token # None
    <3>1. Snapshot(token, asked, queue) /\ token \in Tokens
      BY <1>7, <1>t, <2>3 DEF Subscribe, TypeOK
    <3>2. \A i \in DOMAIN queue : Shaped(queue[i]) /\ queue[i].entity = None
      BY <2>1 DEF Queued
    <3>3. /\ \A i \in DOMAIN queue' : Shaped(queue'[i]) /\ queue'[i].entity = None
          /\ Ordered(queue')
          /\ \A e \in Entities : \A tile :
               /\ e \in asked /\ Visible(token, e) => EndsAs(queue', tile, e, home[e])
               /\ e \notin asked \cap Scope[token] \/ home[e] = None \/ e \notin shown' =>
                     EndsAs(queue', tile, e, None)
      BY <1>t, <1>q, <3>1, <3>2, SnapshotSync
    <3> QED  BY <2>1, <3>3 DEF Queued, OnItsWay, WillShow, Visible, InScope
  <2> QED  BY <2>2, <2>3
<1>8. ASSUME NEW type \in Replies, Answer(type) PROVE Queued' /\ OnItsWay'
  <2>1. Plain(type) \in Frames /\ Shaped(Plain(type)) /\ Plain(type).entity = None /\ Plain(type).type # "subscribed"
    BY FramesAssumption, PlainType DEF ReadyFrames, CONTROL_FRAME_TYPES, Plain, Frame, Shaped
  <2>2. \A e \in Entities : ~About(Plain(type), e)
    BY <2>1, NoneAssumption DEF About
  <2>3. /\ queue' = Append(queue, Plain(type))
        /\ UNCHANGED <<phase, token, subscription, shown, sending, lost, home, placed, app>>
    BY <1>8 DEF Answer, put_protocol, world
  <2>4. \A i \in DOMAIN queue' : queue'[i] = Plain(type) \/ \E j \in DOMAIN queue : queue'[i] = queue[j]
    BY <1>q, <2>1, <2>3, PutType DEF put_protocol
  <2>5. Ordered(queue')
    BY <1>q, <2>1, <2>3, OrderedAppend DEF Queued
  <2>6. Queued'
    BY <2>1, <2>3, <2>4, <2>5 DEF Queued, Subscribed
  <2>7. ASSUME NEW e \in Entities, NEW v, WillShow(e, v) PROVE EndsAs(queue', OnScreen(e), e, v)
    BY <1>q, <2>1, <2>2, <2>3, <2>7, EndsAppend DEF WillShow
  <2>8. \A e : OnScreen(e)' = OnScreen(e)
    BY <2>3 DEF OnScreen
  <2>9. OnItsWay'
    BY <2>3, <2>7, <2>8 DEF OnItsWay, WillShow, Visible, InScope, Subscribed
  <2> QED  BY <2>6, <2>9
<1>9. ASSUME NEW e \in Entities, NEW s \in States, Changes(e, s) PROVE Queued' /\ OnItsWay'
  <2> DEFINE told == Listening /\ Subscribed /\ token # None /\ e \in subscription /\ InScope(token, e, placed')
  <2>1. /\ app' = app /\ home' = [home EXCEPT ![e] = s] /\ s # None
        /\ \A d \in Entities \ {e} : d \in placed' <=> d \in placed
    BY <1>9, NoneAssumption DEF Changes
  <2>2. /\ home'[e] = s /\ \A d \in Entities \ {e} : home'[d] = home[d]
    BY <1>t, <2>1 DEF TypeOK
  <2>3. CASE told
    <3>1. PICK frame : frame = Frame("state_changed", e, {<<e, s>>})
      OBVIOUS
    <3>2. /\ frame \in Frames /\ Shaped(frame) /\ frame.type # "subscribed" /\ frame.entity = e
          /\ Told(frame, e) = s
      BY <3>1, NoneAssumption DEF Frame, Frames, COALESCEABLE_TYPES, Shaped, Told
    <3>3. Push(frame) /\ shown' = IF Refused(queue, frame) THEN shown ELSE shown \cup {e}
      BY <1>9, <2>3, <3>1 DEF Changes, TellState
    <3>4. e \in subscription \cap Scope[token]
      BY <2>3 DEF InScope
    <3>5. Subscribed
      BY <2>3
    <3> QED  BY <2>1, <2>2, <3>2, <3>3, <3>4, <3>5, PushedSync
  <2>4. CASE ~told
    <3>1. UNCHANGED connection
      BY <1>9, <2>4 DEF Changes, TellState
    <3>2. Queued'
      BY <3>1 DEF connection, Queued, Subscribed
    <3>3. \A d, v : OnScreen(d)' = OnScreen(d) /\ (WillShow(d, v)' <=> WillShow(d, v))
      BY <2>1, <3>1 DEF connection, OnScreen, WillShow
    <3>4. ASSUME phase = "open", token # None, Subscribed
          PROVE  ~(e \in subscription /\ Visible(token, e)')
      BY <2>4, <3>1, <3>4 DEF Listening, Visible, connection, InScope
    <3>5. \A d \in Entities \ {e} : Visible(token, d)' <=> Visible(token, d)
      BY <2>1, <3>1 DEF connection, Visible, InScope
    <3>6. OnItsWay'
      BY <2>1, <2>2, <3>1, <3>3, <3>4, <3>5 DEF connection, OnItsWay, Subscribed
    <3> QED  BY <3>2, <3>6
  <2> QED  BY <2>3, <2>4
<1>10. ASSUME NEW e \in Entities, LosesArea(e) PROVE Queued' /\ OnItsWay'
  <2>1. UNCHANGED connection /\ UNCHANGED <<home, app>> /\ placed' \subseteq placed
    BY <1>10 DEF LosesArea
  <2>2. Queued'
    BY <2>1 DEF connection, Queued, Subscribed
  <2>3. \A d, v : WillShow(d, v)' <=> WillShow(d, v)
    BY <2>1 DEF connection, OnScreen, WillShow
  <2>4. \A d : Visible(token, d)' => Visible(token, d)
    BY <2>1 DEF connection, Visible, InScope
  <2>5. OnItsWay'
    BY <2>1, <2>3, <2>4 DEF connection, OnItsWay, Subscribed
  <2> QED  BY <2>2, <2>5
<1>11. ASSUME NEW e \in Entities, Goes(e) PROVE Queued' /\ OnItsWay'
  <2>1. home' = [home EXCEPT ![e] = None] /\ UNCHANGED <<placed, valid, app>>
    BY <1>11 DEF Goes
  <2>2. home'[e] = None /\ \A d \in Entities \ {e} : home'[d] = home[d]
    BY <1>t, <2>1 DEF TypeOK
  <2>3. CASE Listening /\ token # None /\ e \in shown
    <3>1. PICK frame : frame = Frame("entity_removed", e, {})
      OBVIOUS
    <3>2. /\ frame \in Frames /\ Shaped(frame) /\ frame.type # "subscribed" /\ frame.entity = e
          /\ Told(frame, e) = None
      BY <3>1, NoneAssumption DEF Frame, Frames, COALESCEABLE_TYPES, Shaped, Told
    <3>3. Push(frame) /\ shown' = IF Refused(queue, frame) THEN shown ELSE shown \ {e}
      BY <1>11, <2>3, <3>1 DEF Goes, TellRemoval
    <3>4. Subscribed
      BY <2>3 DEF IInv
    <3> QED  BY <2>1, <2>2, <3>2, <3>3, <3>4, PushedSync
  <2>4. CASE ~(Listening /\ token # None /\ e \in shown)
    <3>1. UNCHANGED connection
      BY <1>11, <2>4 DEF Goes, TellRemoval
    <3>2. Queued'
      BY <3>1 DEF connection, Queued, Subscribed
    <3>3. \A d, v : WillShow(d, v)' <=> WillShow(d, v)
      BY <2>1, <3>1 DEF connection, OnScreen, WillShow
    <3>4. ASSUME phase = "open", token # None PROVE e \notin shown
      BY <2>4, <3>4 DEF Listening
    <3>5. \A d : Visible(token, d)' <=> Visible(token, d)
      BY <2>1, <3>1 DEF connection, Visible, InScope
    <3>6. OnItsWay'
      BY <2>1, <2>2, <3>1, <3>3, <3>4, <3>5 DEF connection, OnItsWay, Subscribed
    <3> QED  BY <3>2, <3>6
  <2> QED  BY <2>3, <2>4
<1>12. ASSUME NEW type \in Nudges, Nudge(type) PROVE Queued' /\ OnItsWay'
  <2>1. PICK frame : frame = Plain(type)
    OBVIOUS
  <2>2. frame \in Frames /\ Shaped(frame) /\ frame.type # "subscribed" /\ frame.entity = None
    BY <2>1, FramesAssumption, PlainType DEF ReadyFrames, COALESCEABLE_TYPES, Plain, Frame, Shaped
  <2>3. Push(frame) /\ UNCHANGED <<shown, home, placed, app>>
    BY <1>12, <2>1 DEF Nudge, world
  <2>4. \A e \in Entities : e # frame.entity
    BY <2>2, NoneAssumption
  <2> QED  BY <2>2, <2>3, <2>4, PushedSync
<1>13. ASSUME NEW t \in Tokens, Mints(t) \/ Revokes(t) \/ Expires(t) PROVE Queued' /\ OnItsWay'
  BY <1>13, QuietSync DEF Mints, Revokes, Expires, connection
<1>14. CASE Take
  <2>1. /\ queue # <<>> /\ sending = None /\ sending' = Head(queue) /\ queue' = Tail(queue)
        /\ UNCHANGED <<phase, token, subscription, shown, lost, home, placed, app>>
    BY <1>14 DEF Take, world
  <2>2. /\ Head(queue) \in Frames /\ 1 \in DOMAIN queue /\ Head(queue) = queue[1]
        /\ \A k \in DOMAIN queue' : \E i \in DOMAIN queue : queue'[k] = queue[i]
    <3>1. Len(queue) \in Nat \ {0} /\ DOMAIN queue = 1..Len(queue)
      BY <1>q, <2>1, EmptySeq, OfSeq
    <3>2. /\ Head(queue) = queue[1] /\ Tail(queue) \in Seq(Frames)
          /\ Len(Tail(queue)) = Len(queue) - 1
          /\ \A k \in 1..Len(Tail(queue)) : Tail(queue)[k] = queue[k + 1]
      BY <1>q, <2>1, HeadTailProperties
    <3>3. DOMAIN queue' = 1..Len(queue')
      BY <2>1, <3>2, OfSeq
    <3>4. \A k \in 1..Len(queue') : k + 1 \in 1..Len(queue)
      BY <2>1, <3>1, <3>2
    <3> QED  BY <1>q, <2>1, <3>1, <3>2, <3>3, <3>4
  <2>3. Ordered(queue')
    BY <1>q, <2>1, OrderedTail DEF Queued
  <2>4. Queued'
    BY <2>1, <2>2, <2>3 DEF Queued, Subscribed
  <2>5. \A e \in Entities : OnScreen(e) = app[e]
                            /\ OnScreen(e)' = IF About(Head(queue), e) THEN Told(Head(queue), e) ELSE app[e]
    BY <2>1, <2>2, NoFrameAssumption DEF OnScreen
  <2>6. ASSUME NEW e \in Entities, NEW v, WillShow(e, v) PROVE WillShow(e, v)'
    <3>1. EndsAs(queue', IF About(Head(queue), e) THEN Told(Head(queue), e) ELSE OnScreen(e), e, v)
      BY <1>q, <2>1, <2>6, EndsTail DEF WillShow
    <3> QED  BY <2>5, <3>1 DEF WillShow
  <2>7. OnItsWay'
    BY <2>1, <2>6 DEF OnItsWay, Visible, InScope, Subscribed
  <2> QED  BY <2>4, <2>7
<1>15. CASE Write
  <2>1. /\ sending # None /\ sending' = None /\ app' = Shows(app, sending)
        /\ UNCHANGED <<phase, token, subscription, shown, queue, lost, home, placed>>
    BY <1>15 DEF Write, world
  <2>2. Queued'
    BY <2>1 DEF Queued, Subscribed
  <2>3. ASSUME NEW e \in Entities PROVE OnScreen(e)' = OnScreen(e)
    <3>1. app'[e] = IF \E d \in sending.devices : d[1] = e
                      THEN (CHOOSE d \in sending.devices : d[1] = e)[2]
                      ELSE IF sending.type = "subscribed" \/ e = sending.entity THEN None ELSE app[e]
      BY <2>1 DEF Shows
    <3>2. (\E d \in sending.devices : d[1] = e) => About(sending, e)
      BY <2>1 DEF Queued, Shaped, About
    <3> QED  BY <2>1, <3>1, <3>2 DEF OnScreen, Told, About
  <2>4. OnItsWay'
    BY <2>1, <2>3 DEF OnItsWay, WillShow, Visible, InScope, Subscribed
  <2> QED  BY <2>2, <2>4
<1>16. CASE Close
  BY <1>16, ClosedSync DEF Close
<1>17. CASE Connect
  BY <1>17, QuietSync DEF Connect, world
<1>18. CASE UNCHANGED vars
  BY <1>18, QuietSync DEF vars, connection, world
<1> QED
  BY <1>1, <1>2, <1>3, <1>4, <1>5, <1>6, <1>7, <1>8, <1>9, <1>10, <1>11, <1>12, <1>13, <1>14,
     <1>15, <1>16, <1>17, <1>18 DEF Next

LEMMA SyncedWhenQuiet == Queued /\ OnItsWay => AppInSync
<1> SUFFICES ASSUME OnItsWay, phase = "open", token # None, Subscribed, queue = <<>>, sending = None,
                    NEW e \in Entities \ lost
             PROVE  /\ e \in subscription /\ Visible(token, e) => app[e] = home[e]
                    /\ e \notin subscription \cap Scope[token] \/ home[e] = None => app[e] = None
  BY DEF AppInSync
<1>1. \A v : WillShow(e, v) => app[e] = v
  BY EmptySeq DEF WillShow, EndsAs, OnScreen
<1> QED  BY <1>1 DEF OnItsWay

(* With no renewal of a live token, what the app shows once everything queued *)
(* has reached it is the home, whatever the pushes that were merged, evicted  *)
(* or sent meanwhile (_emit_snapshot, _on_state_changed, offer, drop_data).   *)
THEOREM AppFollows == ~Renews => (Spec => []AppInSync)
<1> SUFFICES ASSUME ~Renews PROVE Spec => []AppInSync
  OBVIOUS
<1> DEFINE Sync == IInv /\ Queued /\ OnItsWay
<1>1. Init => Sync
  BY InitInv, FirstSync
<1>2. Sync /\ [Next]_vars => Sync'
  BY StepInv, StepSync
<1>3. Sync => AppInSync
  BY SyncedWhenQuiet
<1> HIDE DEF Sync
<1> QED  BY <1>1, <1>2, <1>3, PTL DEF Spec
=============================================================================
