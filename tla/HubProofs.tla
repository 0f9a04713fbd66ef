------------------------------- MODULE HubProofs -------------------------------
(* Proofs about the parts of the hub that Hub puts together, for any values of *)
(* the constants.                                                              *)
EXTENDS Hub, Integers, FiniteSetTheorems, TLAPS

-----------------------------------------------------------------------------
(* Sets of things that are numbered. *)

(* Every nonempty set of natural numbers has a least element. *)
LEMMA Least ==
    ASSUME NEW T, T \subseteq Nat, T # {}
    PROVE  \E x \in T : \A y \in T : x <= y
<1> DEFINE R == {p \in Nat \X Nat : p[1] < p[2]}
<1>1. IsWellFoundedOn(R, Nat)
  BY NatLessThanWellFounded DEF OpToRel
<1>2. PICK x \in T : \A y \in T : ~ (<<y, x>> \in R)
  <2> HIDE DEF R
  <2> QED  BY <1>1, WFMin
<1>3. \A y \in T : ~(y < x)
  <2> SUFFICES ASSUME NEW y \in T, y < x PROVE FALSE
    OBVIOUS
  <2>1. <<y, x>> \in R
    OBVIOUS
  <2> QED  BY <2>1, <1>2
<1> QED  BY <1>3

(* Things of different numbers between a and b are not more than these numbers. *)
LEMMA Numbered ==
    ASSUME NEW a \in Int, NEW b \in Int, NEW T,
           \A t \in T : t.id \in a .. b,
           \A t, u \in T : t.id = u.id => t = u
    PROVE  IsFiniteSet(T) /\ Cardinality(T) <= Cardinality(a .. b)
<1> DEFINE f == [t \in T |-> t.id]
<1>1. f \in Injection(T, a .. b)
  BY DEF Injection, IsInjective
<1>2. IsFiniteSet(a .. b)
  BY FS_Interval
<1> HIDE DEF f
<1> QED  BY <1>1, <1>2, FS_Injection

(* One of them has the least number. *)
LEMMA FirstOf ==
    ASSUME NEW T, T # {}, \A t \in T : t.id \in Nat
    PROVE  \E t \in T : \A u \in T : t.id <= u.id
<1>1. {t.id : t \in T} \subseteq Nat /\ {t.id : t \in T} # {}
  OBVIOUS
<1>2. PICK i \in {t.id : t \in T} : \A k \in {t.id : t \in T} : i <= k
  BY <1>1, Least
<1> QED  BY <1>2

-----------------------------------------------------------------------------
(* A camera's tickets (Streams). *)

(* What a grant was given for is no newer than the phone, and older once an     *)
(* edit has outdated it; a phone that is gone is nobody's.                      *)
Older(g) == phone = None \/ g.ver <= phone.ver
Dated(g) == phone = None \/ g.ver < phone.ver

TicketTypes ==
    /\ phone \in {None} \cup Streams!Phones
    /\ views \in Nat /\ lost \subseteq 1 .. views
    /\ \A t \in tickets : t.id \in 1 .. views /\ t.grant \in Streams!Phones
    /\ \A q \in Viewers : request[q] \in {None} \cup Streams!Phones
    /\ DOMAIN request = Viewers

GrantsDated ==
    /\ \A t \in tickets : Older(t.grant) /\ (t.id \in lost => Dated(t.grant))
    /\ \A q \in Viewers : request[q] # None =>
         Older(request[q]) /\ (q \in outdated => Dated(request[q]))
    /\ \A q \in outdated : q \in Viewers /\ request[q] # None

(* RevokedForGood is not inductive: that the proxy refuses a ticket has to be   *)
(* known from the version it carries, and of a request that has no ticket yet.  *)
TicketInv == TicketTypes /\ GrantsDated /\ Streams!RevokedForGood

LEMMA TicketsStart == Streams!Init => TicketInv
BY DEF Streams!Init, TicketInv, TicketTypes, GrantsDated, Streams!RevokedForGood, Streams!Phones

LEMMA MintKeeps ==
    ASSUME TicketInv, NEW q \in Viewers, Streams!Mint(q)
    PROVE  TicketInv'
<1> DEFINE ticket == [id |-> views + 1, until |-> viewNow + TicketTTL, grant |-> request[q]]
<1>1. /\ request[q] \in Streams!Phones /\ views' = views + 1 /\ views \in Nat
      /\ phone' = phone /\ shown' = shown
  BY DEF Streams!Mint, TicketInv, TicketTypes
<1>2. \A t \in tickets' : t \in tickets \/ t = ticket
  BY DEF Streams!Mint, Streams!Room, Streams!Grant
<1>3. \A r \in Viewers : request'[r] = IF r = q THEN None ELSE request[r]
  BY DEF Streams!Mint, TicketInv, TicketTypes
<1>4. outdated' = outdated \ {q} /\ lost' = IF q \in outdated THEN lost \cup {views + 1} ELSE lost
  BY DEF Streams!Mint
<1>5. TicketTypes'
  <2>1. DOMAIN request' = Viewers
    BY DEF Streams!Mint, TicketInv, TicketTypes
  <2>2. lost' \subseteq 1 .. views'
    BY <1>1, <1>4 DEF TicketInv, TicketTypes
  <2>3. \A t \in tickets' : t.id \in 1 .. views' /\ t.grant \in Streams!Phones
    BY <1>1, <1>2 DEF TicketInv, TicketTypes
  <2> QED  BY <1>1, <1>3, <2>1, <2>2, <2>3 DEF TicketInv, TicketTypes, Streams!Phones
<1>6. \A t \in tickets' : Older(t.grant)' /\ (t.id \in lost' => Dated(t.grant)')
  <2> SUFFICES ASSUME NEW t \in tickets' PROVE Older(t.grant) /\ (t.id \in lost' => Dated(t.grant))
    BY <1>1 DEF Older, Dated
  <2>1. CASE t \in tickets
    <3>1. t.id # views + 1
      BY <1>1, <2>1 DEF TicketInv, TicketTypes
    <3> QED  BY <1>4, <2>1, <3>1 DEF TicketInv, GrantsDated
  <2>2. CASE t = ticket
    <3>1. t.grant = request[q] /\ t.id = views + 1 /\ request[q] # None
      BY <2>2 DEF Streams!Mint
    <3>2. views + 1 \notin lost
      BY <1>1 DEF TicketInv, TicketTypes
    <3> QED  BY <1>4, <3>1, <3>2 DEF TicketInv, GrantsDated
  <2> QED  BY <1>2, <2>1, <2>2
<1>7. GrantsDated'
  BY <1>1, <1>3, <1>4, <1>6 DEF TicketInv, GrantsDated, Older, Dated
<1> QED  BY <1>1, <1>5, <1>7 DEF TicketInv, Streams!RevokedForGood

(* The proxy drops a ticket or leaves it, and fetches by none that was lost. *)
LEMMA FetchKeeps ==
    ASSUME TicketInv, NEW t \in tickets, Streams!Fetch(t)
    PROVE  TicketInv'
<1>1. tickets' \subseteq tickets /\ UNCHANGED <<phone, views, request, outdated, lost>>
  BY DEF Streams!Fetch
<1>2. TicketTypes' /\ GrantsDated'
  BY <1>1 DEF TicketInv, TicketTypes, GrantsDated, Older, Dated, Streams!Phones
<1>3. t.id \in lost => Streams!Revoked(t)
  BY DEF TicketInv, TicketTypes, GrantsDated, Dated, Streams!Revoked, Streams!Phones
<1>4. shown' = shown
  BY <1>3 DEF Streams!Fetch
<1> QED  BY <1>2, <1>4 DEF TicketInv, Streams!RevokedForGood

(* An edit raises the version, so what there was is older than the phone. *)
LEMMA EditKeeps ==
    ASSUME TicketInv, NEW p \in Streams!Phones, Streams!Edit(p)
    PROVE  TicketInv'
<1>1. /\ phone \in Streams!Phones /\ phone # None /\ phone' = p /\ p.ver = phone.ver + 1
      /\ UNCHANGED <<tickets, views, request, shown>>
  BY DEF Streams!Edit, TicketInv, TicketTypes
<1>2. lost' = lost \cup {t.id : t \in tickets} /\ outdated' = {q \in Viewers : request[q] # None}
  BY DEF Streams!Edit, Streams!Outdated, Streams!TicketIds
<1>3. TicketTypes'
  BY <1>1, <1>2 DEF TicketInv, TicketTypes, Streams!Phones
<1>4. \A g \in Streams!Phones : Older(g) => Older(g)' /\ Dated(g)'
  BY <1>1 DEF Older, Dated, Streams!Phones
<1>5. GrantsDated'
  <2>1. \A t \in tickets : Older(t.grant)' /\ Dated(t.grant)'
    BY <1>4 DEF TicketInv, TicketTypes, GrantsDated
  <2>2. \A q \in Viewers : request[q] # None => Older(request[q])' /\ Dated(request[q])'
    BY <1>1, <1>4 DEF TicketInv, TicketTypes, GrantsDated, Older, Dated
  <2> QED  BY <1>1, <1>2, <2>1, <2>2 DEF GrantsDated, Older, Dated
<1> QED  BY <1>1, <1>3, <1>5 DEF TicketInv, Streams!RevokedForGood

(* What changes nothing of the grants, or takes some away. *)
LEMMA RestKeeps ==
    ASSUME TicketInv,
           \/ Streams!Unpair \/ Streams!Move \/ Streams!Unload \/ Streams!Tick
           \/ \E q \in Viewers : Streams!Open(q) \/ Streams!Fails(q)
           \/ \E r \in Rooms : Streams!Prune(r)
           \/ UNCHANGED Streams!vars
    PROVE  TicketInv'
<1>1. CASE Streams!Unpair
  <2>1. phone' = None /\ UNCHANGED <<tickets, views, request, shown>>
        /\ lost' = lost \cup {t.id : t \in tickets} /\ outdated' = {q \in Viewers : request[q] # None}
    BY <1>1 DEF Streams!Unpair, Streams!Outdated, Streams!TicketIds
  <2> QED  BY <2>1 DEF TicketInv, TicketTypes, GrantsDated, Older, Dated, Streams!Phones, Streams!RevokedForGood
<1>2. CASE Streams!Unload
  <2>1. tickets' = {} /\ lost' = lost \cup {t.id : t \in tickets}
        /\ UNCHANGED <<phone, views, request, outdated, shown>>
    BY <1>2 DEF Streams!Unload, Streams!TicketIds
  <2> QED  BY <2>1 DEF TicketInv, TicketTypes, GrantsDated, Older, Dated, Streams!Phones, Streams!RevokedForGood
<1>3. ASSUME NEW q \in Viewers, Streams!Open(q) PROVE TicketInv'
  <2>1. /\ request[q] = None /\ phone # None /\ phone \in Streams!Phones
        /\ request' = [request EXCEPT ![q] = phone]
        /\ UNCHANGED <<phone, tickets, views, outdated, lost, shown>>
    BY <1>3 DEF Streams!Open, Streams!history, TicketInv, TicketTypes
  <2>2. q \notin outdated /\ phone.ver \in Nat
    BY <2>1 DEF TicketInv, GrantsDated, Streams!Phones
  <2>3. \A r \in Viewers : request'[r] = IF r = q THEN phone ELSE request[r]
    BY <2>1 DEF TicketInv, TicketTypes
  <2>4. TicketTypes'
    BY <2>1, <2>3 DEF TicketInv, TicketTypes, Streams!Phones
  <2>5. GrantsDated'
    BY <2>1, <2>2, <2>3 DEF TicketInv, GrantsDated, Older, Dated
  <2> QED  BY <2>1, <2>4, <2>5 DEF TicketInv, Streams!RevokedForGood
<1>4. ASSUME NEW q \in Viewers, Streams!Fails(q) PROVE TicketInv'
  <2>1. /\ request' = [request EXCEPT ![q] = None] /\ outdated' = outdated \ {q}
        /\ UNCHANGED <<phone, tickets, views, lost, shown>>
    BY <1>4 DEF Streams!Fails
  <2>2. \A r \in Viewers : request'[r] = IF r = q THEN None ELSE request[r]
    BY <2>1 DEF TicketInv, TicketTypes
  <2>3. TicketTypes'
    BY <2>1, <2>2 DEF TicketInv, TicketTypes, Streams!Phones
  <2>4. GrantsDated'
    BY <2>1, <2>2 DEF TicketInv, GrantsDated, Older, Dated
  <2> QED  BY <2>1, <2>3, <2>4 DEF TicketInv, Streams!RevokedForGood
<1>5. ASSUME NEW r \in Rooms, Streams!Prune(r) PROVE TicketInv'
  <2>1. /\ phone # None /\ phone \in Streams!Phones /\ phone.rooms \in SUBSET Rooms
        /\ phone' = [phone EXCEPT !.rooms = @ \ {r}]
        /\ UNCHANGED <<tickets, views, request, outdated, lost, shown>>
    BY <1>5 DEF Streams!Prune, Streams!history, TicketInv, TicketTypes, Streams!Phones, Streams!Scopes
  <2>2. phone' \in Streams!Phones /\ phone'.ver = phone.ver
    BY <2>1 DEF Streams!Phones, Streams!Scopes
  <2>3. TicketTypes'
    BY <2>1, <2>2 DEF TicketInv, TicketTypes, Streams!Phones
  <2>4. GrantsDated'
    BY <2>1, <2>2 DEF TicketInv, GrantsDated, Older, Dated
  <2> QED  BY <2>1, <2>3, <2>4 DEF TicketInv, Streams!RevokedForGood
<1>6. CASE Streams!Move \/ Streams!Tick \/ UNCHANGED Streams!vars
  <2>1. UNCHANGED <<phone, tickets, views, request, outdated, lost, shown>>
    BY <1>6 DEF Streams!Move, Streams!Tick, Streams!vars, Streams!history
  <2> QED  BY <2>1 DEF TicketInv, TicketTypes, GrantsDated, Older, Dated, Streams!Phones, Streams!RevokedForGood
<1> QED  BY <1>1, <1>2, <1>3, <1>4, <1>5, <1>6

(* The invariant the result below rests on. *)
THEOREM TicketsInvariant == Streams!Spec => []TicketInv
<1>1. Streams!Init => TicketInv
  BY TicketsStart
<1>2. TicketInv /\ [Streams!Next]_(Streams!vars) => TicketInv'
  BY MintKeeps, FetchKeeps, EditKeeps, RestKeeps DEF Streams!Next
<1> QED  BY <1>1, <1>2, PTL DEF Streams!Spec

(* For any rooms, requests, limits and times: once a phone is edited or         *)
(* removed, no stream is opened by what it held before, not even by a ticket    *)
(* made after that for a request let in before.                                 *)
THEOREM RevokedStreamsEnd == Streams!Spec => []Streams!RevokedForGood
<1>1. TicketInv => Streams!RevokedForGood
  BY DEF TicketInv
<1> QED  BY <1>1, TicketsInvariant, PTL


(* The table of tickets: few, no two of one number, and each lasts as long as    *)
(* it was made for, the later the longer.                                        *)
TicketTable ==
    /\ IsFiniteSet(tickets) /\ Cardinality(tickets) <= MaxTickets
    /\ \A t, u \in tickets : t.id = u.id => t = u
    /\ \A t \in tickets : t.id \in 1 .. views /\ t.until = ends[t.id]
    /\ viewNow \in 0 .. ViewTime /\ views \in 0 .. MaxViews /\ place \in Streams!Places
    /\ ends \in [1 .. MaxViews -> Nat]
    /\ \A i \in 1 .. views : ends[i] <= viewNow + TicketTTL
    /\ \A i, k \in 1 .. views : i <= k => ends[i] <= ends[k]

(* What is not outdated is of the phone as it is. *)
OfThisPhone(g) == phone # None /\ g.ver = phone.ver
UpToDate ==
    /\ \A t \in tickets : t.id \notin lost => OfThisPhone(t.grant)
    /\ \A q \in Viewers : request[q] # None /\ q \notin outdated => OfThisPhone(request[q])

(* NewestHonoured needs both: the proxy drops what an edit has outdated, and     *)
(* mint drops the ticket that ends first, which is the oldest.                   *)
TicketsKept == TicketInv /\ TicketTable /\ UpToDate /\ Streams!NewestHonoured

(* The instance has the operator of the library module it extends. *)
LEMMA StreamsCounts == \A set : Streams!Cardinality(set) = Cardinality(set)
BY DEF Streams!Cardinality, Cardinality

LEMMA StreamConstants ==
    /\ MaxVer \in Nat \ {0} /\ MaxTickets \in Nat \ {0}
    /\ MaxViews \in Nat /\ ViewTime \in Nat /\ TicketTTL \in Nat
BY StreamAssumption

(* mint makes room by one ticket, and that is older than those it has to keep. *)
LEMMA RoomKeeps ==
    ASSUME TicketTable, NEW ts \in SUBSET tickets
    PROVE  /\ Streams!Room(ts) \subseteq ts /\ Cardinality(Streams!Room(ts)) < MaxTickets
           /\ IsFiniteSet(Streams!Room(ts))
           /\ \A t \in ts : t.id + MaxTickets > views + 1 => t \in Streams!Room(ts)
<1>1. /\ IsFiniteSet(ts) /\ Cardinality(ts) \in Nat /\ Cardinality(ts) <= MaxTickets
      /\ \A t \in ts : t.id \in 1 .. views /\ t.until = ends[t.id] /\ t.until \in Nat
      /\ \A t, u \in ts : t.id = u.id => t = u
      /\ \A t, u \in ts : t.id <= u.id => t.until <= u.until
      /\ views \in Nat /\ views <= MaxViews
  <2>1. IsFiniteSet(ts) /\ Cardinality(ts) <= Cardinality(tickets)
    BY FS_Subset DEF TicketTable
  <2>2. Cardinality(ts) \in Nat /\ Cardinality(tickets) \in Nat
    BY <2>1, FS_CardinalityType DEF TicketTable
  <2>3. views \in Nat /\ views <= MaxViews
    BY StreamConstants DEF TicketTable
  <2>4. \A t \in ts : t.id \in 1 .. views /\ t.until = ends[t.id] /\ t.until \in Nat
    BY <2>3, StreamConstants DEF TicketTable
  <2>5. Cardinality(ts) <= MaxTickets
    BY <2>1, <2>2, StreamConstants DEF TicketTable
  <2>6. \A t, u \in ts : t.id = u.id => t = u
    BY DEF TicketTable
  <2>7. \A t, u \in ts : t.id <= u.id => t.until <= u.until
    BY <2>4 DEF TicketTable
  <2> QED  BY <2>1, <2>2, <2>3, <2>4, <2>5, <2>6, <2>7
<1>2. CASE Cardinality(ts) < MaxTickets
  <2>1. Streams!Room(ts) = ts
    BY <1>2, StreamsCounts DEF Streams!Room
  <2> QED  BY <1>1, <1>2, <2>1
<1>3. CASE ~(Cardinality(ts) < MaxTickets)
  <2> DEFINE rest == {t \in ts : \E u \in ts : u.until < t.until \/ (u.until = t.until /\ u.id < t.id)}
  <2>1. Streams!Room(ts) = rest
    BY <1>3, StreamsCounts DEF Streams!Room
  <2>2. ts # {} /\ Cardinality(ts) = MaxTickets
    BY <1>1, <1>3, FS_EmptySet, StreamConstants
  <2>3. PICK oldest \in ts : \A t \in ts : oldest.id <= t.id
    <3>1. \A t \in ts : t.id \in Nat
      BY <1>1
    <3> QED  BY <2>2, <3>1, FirstOf
  <2>4. oldest \notin rest
    <3> SUFFICES ASSUME NEW u \in ts, u.until < oldest.until \/ (u.until = oldest.until /\ u.id < oldest.id)
                 PROVE  FALSE
      OBVIOUS
    <3>1. oldest.id <= u.id /\ oldest.until <= u.until
      BY <1>1, <2>3
    <3> QED  BY <1>1, <3>1
  <2>5. rest \subseteq ts \ {oldest}
    BY <2>4
  <2>6. IsFiniteSet(ts \ {oldest}) /\ Cardinality(ts \ {oldest}) = Cardinality(ts) - 1
    BY <1>1, FS_RemoveElement
  <2>7. IsFiniteSet(rest) /\ Cardinality(rest) < MaxTickets
    <3> HIDE DEF rest
    <3>1. IsFiniteSet(rest) /\ Cardinality(rest) <= Cardinality(ts \ {oldest})
      BY <2>5, <2>6, FS_Subset
    <3>2. Cardinality(rest) \in Nat
      BY <3>1, FS_CardinalityType
    <3> QED  BY <1>1, <2>2, <2>6, <3>1, <3>2
  <2>8. ASSUME NEW t \in ts, t.id + MaxTickets > views + 1 PROVE t \in rest
    <3>1. CASE t = oldest
      <4>1. \A u \in ts : u.id \in t.id .. views
        BY <1>1, <2>3, <3>1
      <4>2. t.id \in Int /\ views \in Int /\ t.id <= views
        BY <1>1
      <4>3. Cardinality(ts) <= Cardinality(t.id .. views)
        BY <1>1, <4>1, <4>2, Numbered
      <4>4. Cardinality(t.id .. views) = views - t.id + 1
        BY <4>2, FS_Interval
      <4> QED  BY <1>1, <2>2, <2>8, <4>2, <4>3, <4>4, StreamConstants
    <3>2. CASE t # oldest
      <4>1. oldest.id < t.id /\ oldest.until <= t.until
        BY <1>1, <2>3, <3>2
      <4>2. oldest.until < t.until \/ (oldest.until = t.until /\ oldest.id < t.id)
        BY <1>1, <4>1
      <4> QED  BY <4>2
    <3> QED  BY <3>1, <3>2
  <2> HIDE DEF rest
  <2> QED  BY <2>1, <2>5, <2>7, <2>8
<1> QED  BY <1>2, <1>3

LEMMA MintKeepsTable ==
    ASSUME TicketsKept, NEW q \in Viewers, Streams!Mint(q)
    PROVE  TicketTable' /\ UpToDate' /\ Streams!NewestHonoured'
<1> DEFINE ticket == [id |-> views + 1, until |-> viewNow + TicketTTL, grant |-> request[q]]
           alive == {t \in tickets : Streams!Live(t)}
           rest == Streams!Room(alive)
<1>1. /\ request[q] # None /\ views < MaxViews /\ views' = views + 1 /\ tickets' = rest \cup {ticket}
      /\ request' = [request EXCEPT ![q] = None] /\ outdated' = outdated \ {q}
      /\ lost' = IF q \in outdated THEN lost \cup {views + 1} ELSE lost
      /\ ends' = [ends EXCEPT ![views + 1] = viewNow + TicketTTL]
      /\ UNCHANGED <<viewNow, phone, place>>
  BY DEF Streams!Mint, Streams!Grant
<1>2. /\ rest \subseteq alive /\ IsFiniteSet(rest) /\ Cardinality(rest) < MaxTickets
      /\ \A t \in alive : t.id + MaxTickets > views + 1 => t \in rest
      /\ Cardinality(rest) \in Nat
  <2>1. alive \in SUBSET tickets
    OBVIOUS
  <2> HIDE DEF alive
  <2> QED  BY <2>1, RoomKeeps, FS_CardinalityType DEF TicketsKept
<1>3. /\ views \in Nat /\ viewNow \in Nat /\ viewNow \in 0 .. ViewTime /\ views + 1 \in 1 .. MaxViews
      /\ viewNow + TicketTTL \in Nat
  BY <1>1, StreamConstants DEF TicketsKept, TicketTable
<1>4. /\ ends' \in [1 .. MaxViews -> Nat] /\ ends'[views + 1] = viewNow + TicketTTL
      /\ \A i \in 1 .. views : ends'[i] = ends[i] /\ ends[i] \in Nat
  <2>1. ends \in [1 .. MaxViews -> Nat] /\ \A i \in 1 .. views : i \in 1 .. MaxViews /\ i # views + 1
    BY <1>1, <1>3, StreamConstants DEF TicketsKept, TicketTable
  <2> QED  BY <1>1, <1>3, <2>1
<1>5. \A t \in rest : t \in tickets /\ t.id \in 1 .. views /\ t.until = ends'[t.id]
  BY <1>2, <1>4 DEF TicketsKept, TicketTable
<1>6. TicketTable'
  <2>1. IsFiniteSet(tickets') /\ Cardinality(tickets') <= MaxTickets
    <3> HIDE DEF rest, ticket
    <3>1. IsFiniteSet(rest \cup {ticket}) 
          /\ Cardinality(rest \cup {ticket}) = IF ticket \in rest THEN Cardinality(rest) ELSE Cardinality(rest) + 1
      BY <1>2, FS_AddElement
    <3>2. Cardinality(rest \cup {ticket}) \in Nat
      BY <3>1, FS_CardinalityType
    <3> QED  BY <1>1, <1>2, <3>1, <3>2, StreamConstants
  <2>2. \A t, u \in tickets' : t.id = u.id => t = u
    BY <1>1, <1>3, <1>5 DEF TicketsKept, TicketTable
  <2>3. \A t \in tickets' : t.id \in 1 .. views' /\ t.until = ends'[t.id]
    BY <1>1, <1>3, <1>4, <1>5
  <2>4. \A i \in 1 .. views' : ends'[i] <= viewNow + TicketTTL
    BY <1>1, <1>3, <1>4 DEF TicketsKept, TicketTable
  <2>5. \A i, k \in 1 .. views' : i <= k => ends'[i] <= ends'[k]
    BY <1>1, <1>3, <1>4 DEF TicketsKept, TicketTable
  <2>6. views' \in 0 .. MaxViews /\ place' \in Streams!Places
    BY <1>1, <1>3 DEF TicketsKept, TicketTable
  <2> HIDE DEF rest, ticket
  <2> QED  BY <1>1, <1>3, <1>4, <2>1, <2>2, <2>3, <2>4, <2>5, <2>6 DEF TicketTable, Streams!Places
<1>7. UpToDate'
  <2>1. \A t \in rest : t.id \notin lost' => OfThisPhone(t.grant)
    BY <1>1, <1>5 DEF TicketsKept, UpToDate
  <2>2. views + 1 \notin lost' => OfThisPhone(request[q])
    BY <1>1 DEF TicketsKept, UpToDate
  <2>3. \A p \in Viewers : request'[p] # None => p # q /\ request'[p] = request[p]
    BY <1>1 DEF TicketsKept, TicketInv, TicketTypes
  <2>4. \A t \in tickets' : t.id \notin lost' => OfThisPhone(t.grant)
    BY <1>1, <2>1, <2>2
  <2>5. \A p \in Viewers : request'[p] # None /\ p \notin outdated' => OfThisPhone(request'[p])
    BY <1>1, <2>3 DEF TicketsKept, UpToDate
  <2> HIDE DEF rest, ticket
  <2> QED  BY <1>1, <2>4, <2>5 DEF UpToDate, OfThisPhone
<1>8. Streams!NewestHonoured'
  <2>1. ASSUME NEW i \in 1 .. views', i + MaxTickets > views', i \notin lost', viewNow < ends'[i]
        PROVE  \E t \in tickets' : t.id = i
    <3>1. CASE i = views + 1
      <4>1. ticket \in tickets' /\ ticket.id = i
        BY <1>1, <3>1
      <4> QED  BY <4>1
    <3>2. CASE i # views + 1
      <4>1. i \in 1 .. views /\ i + MaxTickets > views + 1 /\ i \notin lost /\ viewNow < ends[i]
        BY <1>1, <1>3, <1>4, <2>1, <3>2
      <4>2. PICK t \in tickets : t.id = i
        BY <1>3, <4>1, StreamConstants DEF TicketsKept, Streams!NewestHonoured, Streams!TicketIds
      <4>3. t \in alive
        BY <4>1, <4>2 DEF TicketsKept, TicketTable, Streams!Live
      <4> HIDE DEF alive, rest, ticket
      <4>4. t \in rest
        BY <1>2, <4>1, <4>2, <4>3
      <4> QED  BY <1>1, <4>2, <4>4
    <3> QED  BY <3>1, <3>2
  <2>2. Cardinality(tickets') <= MaxTickets
    BY <1>6 DEF TicketTable
  <2> HIDE DEF rest, ticket
  <2> QED  BY <1>1, <2>1, <2>2, StreamsCounts DEF Streams!NewestHonoured, Streams!TicketIds
<1> QED  BY <1>6, <1>7, <1>8

(* Tickets that go are out of their time or lost. *)
LEMMA FewerTickets ==
    ASSUME TicketTable, tickets' \subseteq tickets, place' \in Streams!Places,
           UNCHANGED <<viewNow, views, ends>>
    PROVE  TicketTable'
<1>1. IsFiniteSet(tickets') /\ Cardinality(tickets') <= Cardinality(tickets)
  BY FS_Subset DEF TicketTable
<1>2. Cardinality(tickets') \in Nat /\ Cardinality(tickets) \in Nat
  BY <1>1, FS_CardinalityType DEF TicketTable
<1>3. Cardinality(tickets') <= MaxTickets
  BY <1>1, <1>2, StreamConstants DEF TicketTable
<1> QED  BY <1>1, <1>3 DEF TicketTable, Streams!Places

LEMMA FetchKeepsTable ==
    ASSUME TicketsKept, NEW t \in tickets, Streams!Fetch(t)
    PROVE  TicketTable' /\ UpToDate' /\ Streams!NewestHonoured'
<1>1. /\ UNCHANGED <<viewNow, phone, place, views, request, outdated, lost, ends>>
      /\ tickets' \subseteq tickets
      /\ \A u \in tickets : u \in tickets' \/ (u = t /\ (~Streams!Live(t) \/ Streams!Revoked(t)))
  BY DEF Streams!Fetch
<1>2. TicketTable'
  BY <1>1, FewerTickets DEF TicketsKept, TicketTable
<1>3. UpToDate'
  BY <1>1 DEF TicketsKept, UpToDate, OfThisPhone
<1>4. ASSUME NEW i \in 1 .. views, i + MaxTickets > views, i \notin lost, viewNow < ends[i]
      PROVE  \E u \in tickets' : u.id = i
  <2>1. PICK u \in tickets : u.id = i
    BY <1>4 DEF TicketsKept, Streams!NewestHonoured, Streams!TicketIds
  <2>2. Streams!Live(u) /\ ~Streams!Revoked(u)
    BY <1>4, <2>1 DEF TicketsKept, TicketTable, UpToDate, OfThisPhone, Streams!Live, Streams!Revoked
  <2> QED  BY <1>1, <2>1, <2>2
<1>5. Streams!NewestHonoured'
  <2>1. Cardinality(tickets') <= MaxTickets
    BY <1>2 DEF TicketTable
  <2> QED  BY <1>1, <1>4, <2>1, StreamsCounts DEF Streams!NewestHonoured, Streams!TicketIds
<1> QED  BY <1>2, <1>3, <1>5

(* An edit, a removal or an unload leaves nothing that has to be honoured. *)
LEMMA ChangeKeepsTable ==
    ASSUME TicketsKept, (\E p \in Streams!Phones : Streams!Edit(p)) \/ Streams!Unpair \/ Streams!Unload
    PROVE  TicketTable' /\ UpToDate' /\ Streams!NewestHonoured'
<1>1. /\ UNCHANGED <<viewNow, place, views, request, ends>> /\ tickets' \subseteq tickets
      /\ lost' = lost \cup Streams!TicketIds(tickets)
      /\ \/ tickets' = {} /\ UNCHANGED <<phone, outdated>>
         \/ outdated' = {q \in Viewers : request[q] # None}
  BY DEF Streams!Edit, Streams!Unpair, Streams!Unload, Streams!Outdated
<1>2. TicketTable'
  BY <1>1, FewerTickets DEF TicketsKept, TicketTable
<1>3. \A t \in tickets : t.id \in lost'
  BY <1>1 DEF Streams!TicketIds
<1>4. UpToDate'
  BY <1>1, <1>3 DEF TicketsKept, UpToDate, OfThisPhone
<1>5. \A i \in 1 .. views : i + MaxTickets > views /\ i \notin lost' => ~(viewNow < ends[i])
  BY <1>1 DEF TicketsKept, Streams!NewestHonoured
<1>6. Streams!NewestHonoured'
  <2>1. Cardinality(tickets') <= MaxTickets
    BY <1>2 DEF TicketTable
  <2> QED  BY <1>1, <1>5, <2>1, StreamsCounts DEF Streams!NewestHonoured
<1> QED  BY <1>2, <1>4, <1>6

LEMMA RestKeepsTable ==
    ASSUME TicketsKept,
           \/ \E q \in Viewers : Streams!Open(q) \/ Streams!Fails(q)
           \/ \E r \in Rooms : Streams!Prune(r)
           \/ Streams!Move \/ Streams!Tick \/ UNCHANGED Streams!vars
    PROVE  TicketTable' /\ UpToDate' /\ Streams!NewestHonoured'
<1>1. /\ UNCHANGED <<tickets, views, ends, lost>> /\ place' \in Streams!Places
      /\ viewNow' = viewNow \/ (viewNow' = viewNow + 1 /\ viewNow < ViewTime)
      /\ \/ phone' = phone
         \/ /\ phone # None /\ phone.rooms # None
            /\ \E r \in Rooms : phone' = [phone EXCEPT !.rooms = @ \ {r}]
      /\ \/ request' = request /\ outdated' = outdated
         \/ /\ phone # None /\ UNCHANGED <<phone, outdated>>
            /\ \E q \in Viewers : request' = [request EXCEPT ![q] = phone]
         \/ \E q \in Viewers : request' = [request EXCEPT ![q] = None] /\ outdated' = outdated \ {q}
  <2>1. ASSUME NEW q \in Viewers, Streams!Open(q) \/ Streams!Fails(q)
        PROVE  /\ UNCHANGED <<viewNow, tickets, views, ends, lost, phone, place>>
               /\ \/ phone # None /\ outdated' = outdated /\ request' = [request EXCEPT ![q] = phone]
                  \/ request' = [request EXCEPT ![q] = None] /\ outdated' = outdated \ {q}
    BY <2>1 DEF Streams!Open, Streams!Fails, Streams!history
  <2>2. ASSUME NEW r \in Rooms, Streams!Prune(r)
        PROVE  /\ UNCHANGED <<viewNow, tickets, views, ends, lost, place, request, outdated>>
               /\ phone # None /\ phone.rooms # None /\ phone' = [phone EXCEPT !.rooms = @ \ {r}]
    BY <2>2 DEF Streams!Prune, Streams!history
  <2>3. ASSUME Streams!Move \/ Streams!Tick \/ UNCHANGED Streams!vars
        PROVE  /\ UNCHANGED <<tickets, views, ends, lost, phone, request, outdated>>
               /\ place' \in Streams!Places
               /\ viewNow' = viewNow \/ (viewNow' = viewNow + 1 /\ viewNow < ViewTime)
    BY <2>3 DEF TicketsKept, TicketTable, Streams!Move, Streams!Tick, Streams!vars, Streams!history
  <2>4. place \in Streams!Places
    BY DEF TicketsKept, TicketTable
  <2> QED  BY <2>1, <2>2, <2>3, <2>4
<1>2. TicketTable'
  <2>1. viewNow \in 0 .. ViewTime /\ viewNow' \in 0 .. ViewTime /\ viewNow <= viewNow'
    BY <1>1, StreamConstants DEF TicketsKept, TicketTable
  <2>2. \A i \in 1 .. views : ends[i] <= viewNow' + TicketTTL
    <3> SUFFICES ASSUME NEW i \in 1 .. views PROVE ends[i] <= viewNow' + TicketTTL
      OBVIOUS
    <3>1. ends[i] \in Nat /\ ends[i] <= viewNow + TicketTTL
      BY StreamConstants DEF TicketsKept, TicketTable
    <3> QED  BY <2>1, <3>1, StreamConstants
  <2> QED  BY <1>1, <2>1, <2>2 DEF TicketsKept, TicketTable, Streams!Places
<1>3. \A g : OfThisPhone(g) => OfThisPhone(g)'
  <2>1. phone \in {None} \cup Streams!Phones
    BY DEF TicketsKept, TicketInv, TicketTypes
  <2>2. CASE phone' = phone
    BY <2>2 DEF OfThisPhone
  <2>3. ASSUME phone # None, phone.rooms # None, NEW r \in Rooms,
               phone' = [phone EXCEPT !.rooms = @ \ {r}]
        PROVE  phone' # None /\ phone'.ver = phone.ver
    <3>1. phone' \in [ver : Nat, rooms : {None} \cup SUBSET Rooms, access : {"none", "rooms", "all"}]
          /\ phone'.ver = phone.ver
      BY <2>1, <2>3, StreamConstants DEF Streams!Phones, Streams!Scopes, Streams!Access
    <3> QED  BY <3>1, StreamAssumption
  <2> QED  BY <1>1, <2>2, <2>3 DEF OfThisPhone
<1>4. UpToDate'
  <2>1. \A t \in tickets' : t.id \notin lost' => OfThisPhone(t.grant)'
    BY <1>1, <1>3 DEF TicketsKept, UpToDate
  <2>2. \A q \in Viewers : request'[q] # None /\ q \notin outdated' => OfThisPhone(request'[q])
    BY <1>1 DEF TicketsKept, UpToDate, TicketInv, TicketTypes, OfThisPhone
  <2>3. \A q \in Viewers : request'[q] # None /\ q \notin outdated' => OfThisPhone(request[q])'
    BY <1>1, <1>3, <2>2 DEF OfThisPhone
  <2> QED  BY <2>1, <2>3 DEF UpToDate
<1>5. Streams!NewestHonoured'
  <2>1. \A i \in 1 .. views : viewNow' < ends[i] => viewNow < ends[i]
    BY <1>1, StreamConstants DEF TicketsKept, TicketTable
  <2> QED  BY <1>1, <2>1 DEF TicketsKept, Streams!NewestHonoured
<1> QED  BY <1>2, <1>4, <1>5

LEMMA TicketsKeptStart == Streams!Init => TicketsKept
<1> SUFFICES ASSUME Streams!Init PROVE TicketsKept
  OBVIOUS
<1>1. Cardinality(tickets) = 0 /\ IsFiniteSet(tickets)
  BY FS_EmptySet DEF Streams!Init
<1>2. TicketTable
  BY <1>1, StreamConstants DEF Streams!Init, TicketTable, Streams!Places
<1>3. UpToDate /\ Streams!NewestHonoured
  BY <1>1, StreamsCounts, StreamConstants DEF Streams!Init, UpToDate, Streams!NewestHonoured
<1> QED  BY <1>2, <1>3, TicketsStart DEF TicketsKept

LEMMA TicketsKeptStep == TicketsKept /\ [Streams!Next]_(Streams!vars) => TicketsKept'
<1> SUFFICES ASSUME TicketsKept, [Streams!Next]_(Streams!vars) PROVE TicketsKept'
  OBVIOUS
<1>1. TicketInv'
  BY MintKeeps, FetchKeeps, EditKeeps, RestKeeps DEF Streams!Next, TicketsKept
<1>2. TicketTable' /\ UpToDate' /\ Streams!NewestHonoured'
  BY MintKeepsTable, FetchKeepsTable, ChangeKeepsTable, RestKeepsTable DEF Streams!Next
<1> QED  BY <1>1, <1>2 DEF TicketsKept

LEMMA TicketsTyped == TicketsKept => Streams!TypeOK
BY StreamConstants DEF TicketsKept, TicketInv, TicketTypes, TicketTable, Streams!TypeOK

(* For any rooms, requests, limits and times: the table stays within its limit, *)
(* and of the tickets made last each is there until its time is over or its     *)
(* phone or hub changed.                                                        *)
THEOREM NewestTicketsHonoured == Streams!Spec => []Streams!NewestHonoured
<1>1. TicketsKept => Streams!NewestHonoured
  BY DEF TicketsKept
<1> QED  BY <1>1, TicketsKeptStart, TicketsKeptStep, PTL DEF Streams!Spec

-----------------------------------------------------------------------------
(* The log-in and its lockouts (Login). *)

Calls == [step : {"idle", "unknown", "issue", "redeem", "verify"},
             name : {None} \cup Login!Names, id : Nat]
Counters == [failures : 0 .. (MaxFailures - 1), until : Nat, level : 0 .. Login!LastStep]

LoginTypes ==
    /\ loginNow \in Nat /\ issued \in 0 .. MaxIssued
    /\ entries \in [Login!Names -> {None} \cup Counters] /\ due \in [Login!Names -> Nat]
    /\ logins \in [1 .. MaxIssued -> Nat]
    /\ \A c \in challenges : c.id \in 1 .. issued
    /\ loginJob \in [LoginJobs -> Calls]
    /\ \A j \in LoginJobs : loginJob[j].step = "unknown" => loginJob[j].name \in Login!Names
    /\ \A j \in LoginJobs : loginJob[j].step \in {"redeem", "verify"} => loginJob[j].id \in 1 .. issued

(* A lockout ends no later than the next one would. *)
Escalates == \A n \in Login!Names : entries[n] # None =>
    entries[n].until <= loginNow + LockoutSteps[entries[n].level + 1]

ThrottleInv == Escalates /\ Login!LockoutLasts

(* A challenge is in one place: open, taken by one request, or answered. *)
InOnePlace ==
    /\ \A c \in challenges : logins[c.id] = 0
    /\ \A c \in challenges, j \in LoginJobs : loginJob[j].step = "verify" => loginJob[j].id # c.id
    /\ \A j \in LoginJobs : loginJob[j].step = "verify" => logins[loginJob[j].id] = 0
    /\ \A j, k \in LoginJobs :
         loginJob[j].step = "verify" /\ loginJob[k].step = "verify" /\ loginJob[j].id = loginJob[k].id => j = k
    /\ \A id \in 1 .. MaxIssued : id > issued => logins[id] = 0

LoginInv == LoginTypes /\ ThrottleInv /\ InOnePlace /\ Login!LoginOnce

(* The instance has the operator of the library module it extends. *)
LEMMA LoginCounts == \A set : Login!Cardinality(set) = Cardinality(set)
BY DEF Login!Cardinality, Cardinality

LEMMA LoginConstants ==
    /\ MaxIssued \in Nat /\ LoginTime \in Nat /\ ChallengeTTL \in Nat
    /\ MaxFailures \in Nat \ {0} /\ MaxChallenges \in Nat \ {0}
    /\ LockoutSteps \in Seq(Nat) /\ Len(LockoutSteps) \in Nat \ {0}
    /\ \A i, k \in 1 .. Len(LockoutSteps) : i <= k => LockoutSteps[i] <= LockoutSteps[k]
    /\ None \notin Counters
BY LoginAssumption DEF Counters, Login!LastStep

LEMMA LoginStarts == Login!Init => LoginInv
BY LoginConstants DEF Login!Init, Login!Idle, Calls, LoginInv, LoginTypes, ThrottleInv, Escalates, InOnePlace,
       Login!LoginOnce, Login!LockoutLasts

(* record_failure: the counter it leaves is of its type, and neither its lockout *)
(* ends earlier than the one there was nor later than the next.                  *)
LEMMA CountedGrows ==
    ASSUME loginNow \in Nat, NEW e \in {None} \cup Counters,
           e # None => e.until <= loginNow + LockoutSteps[e.level + 1]
    PROVE  /\ Login!Counted(e) \in Counters
           /\ Login!Counted(e).until <= loginNow + LockoutSteps[Login!Counted(e).level + 1]
           /\ e # None => Login!Counted(e).until >= e.until
<1> DEFINE step == Login!Smaller(Login!Level(e), Login!LastStep)
           next == Login!Smaller(step + 1, Login!LastStep)
<1>1. /\ Login!LastStep \in Nat /\ Login!LastStep = Len(LockoutSteps) - 1
      /\ \A i \in 0 .. Login!LastStep : LockoutSteps[i + 1] \in Nat
  BY LoginConstants DEF Login!LastStep
<1>2. /\ Login!Level(e) \in 0 .. Login!LastStep /\ step = Login!Level(e)
      /\ next \in 0 .. Login!LastStep /\ step <= next
  BY <1>1 DEF Login!Level, Login!Smaller, Counters
<1>3. LockoutSteps[step + 1] <= LockoutSteps[next + 1]
  <2>1. \A i, k \in 0 .. Login!LastStep : i <= k => LockoutSteps[i + 1] <= LockoutSteps[k + 1]
    <3> SUFFICES ASSUME NEW i \in 0 .. Login!LastStep, NEW k \in 0 .. Login!LastStep, i <= k
                 PROVE  LockoutSteps[i + 1] <= LockoutSteps[k + 1]
      OBVIOUS
    <3>1. i + 1 \in 1 .. Len(LockoutSteps) /\ k + 1 \in 1 .. Len(LockoutSteps) /\ i + 1 <= k + 1
      BY LoginConstants, <1>1
    <3> QED  BY LoginConstants, <3>1
  <2> HIDE DEF step, next
  <2>2. step \in 0 .. Login!LastStep
    BY <1>2
  <2> QED  BY <1>2, <2>1, <2>2
<1>4. CASE (IF e = None THEN 0 ELSE e.failures) + 1 >= MaxFailures
  <2>1. Login!Counted(e) = [failures |-> 0, until |-> loginNow + LockoutSteps[step + 1], level |-> next]
    BY <1>4 DEF Login!Counted
  <2>2. loginNow + LockoutSteps[step + 1] \in Nat /\ loginNow + LockoutSteps[step + 1] <= loginNow + LockoutSteps[next + 1]
    BY <1>1, <1>2, <1>3
  <2>3. e # None => loginNow + LockoutSteps[step + 1] >= e.until
    BY <1>2 DEF Login!Level, Counters
  <2> QED  BY LoginConstants, <1>2, <2>1, <2>2, <2>3 DEF Counters
<1>5. CASE ~((IF e = None THEN 0 ELSE e.failures) + 1 >= MaxFailures)
  <2>1. Login!Counted(e) = [failures |-> (IF e = None THEN 0 ELSE e.failures) + 1,
                        until |-> IF e = None THEN 0 ELSE e.until, level |-> Login!Level(e)]
    BY <1>5 DEF Login!Counted
  <2>2. e = None => 0 <= loginNow + LockoutSteps[Login!Level(e) + 1]
    BY <1>1, <1>2
  <2>3. e # None => Login!Level(e) = e.level
    BY DEF Login!Level
  <2>4. (IF e = None THEN 0 ELSE e.failures) + 1 \in 0 .. (MaxFailures - 1)
    BY LoginConstants, <1>5 DEF Counters
  <2> QED  BY <1>1, <1>2, <2>1, <2>2, <2>3, <2>4 DEF Counters
<1> QED  BY <1>4, <1>5

(* A failure counted for one key, and keys evicted that were not locked out. *)
LEMMA FailedKeeps ==
    ASSUME LoginInv, NEW n \in Login!Names, Login!Failed(n), loginNow' = loginNow
    PROVE  /\ entries' \in [Login!Names -> {None} \cup Counters] /\ due' \in [Login!Names -> Nat]
           /\ ThrottleInv'
<1> DEFINE counter == Login!Counted(entries[n])
<1>1. /\ counter \in Counters /\ counter.until <= loginNow + LockoutSteps[counter.level + 1]
      /\ entries[n] # None => counter.until >= entries[n].until
  BY CountedGrows DEF LoginInv, LoginTypes, ThrottleInv, Escalates
<1>2. PICK out \in Login!Evicts(n) :
        /\ entries' = [m \in Login!Names |-> IF m = n THEN counter
                                        ELSE IF m \in out THEN None ELSE entries[m]]
        /\ due' = [due EXCEPT ![n] = IF counter.until > loginNow /\ counter.until > @ THEN counter.until ELSE @]
  BY DEF Login!Failed
<1>3. \A m \in out : m \in Login!Names /\ ~Login!Locked(m) /\ entries[m] # None
  BY DEF Login!Evicts, Login!AnyOf, Login!Held
<1>4. entries' \in [Login!Names -> {None} \cup Counters] /\ due' \in [Login!Names -> Nat]
  BY <1>1, <1>2 DEF LoginInv, LoginTypes, Counters
<1>5. Escalates'
  BY <1>1, <1>2 DEF LoginInv, ThrottleInv, Escalates
<1>6. Login!LockoutLasts'
  <2> SUFFICES ASSUME NEW m \in Login!Names, due'[m] > loginNow
               PROVE  entries'[m] # None /\ entries'[m].until >= due'[m]
    BY DEF Login!LockoutLasts
  <2>1. loginNow \in Nat /\ due \in [Login!Names -> Nat] /\ counter \in Counters /\ None \notin Counters
    BY LoginConstants, <1>1 DEF LoginInv, LoginTypes, Counters
  <2>2. due[m] > loginNow => entries[m] # None /\ entries[m].until >= due[m]
    BY DEF LoginInv, ThrottleInv, Login!LockoutLasts
  <2>3. CASE m = n
    BY <1>1, <1>2, <2>1, <2>2, <2>3 DEF LoginInv, LoginTypes, Counters
  <2>4. CASE m # n
    <3>1. due'[m] = due[m]
      BY <1>2, <2>1, <2>4
    <3>2. entries[m] \in Counters
      BY <2>2, <3>1 DEF LoginInv, LoginTypes
    <3>3. m \notin out
      BY <1>3, <2>1, <2>2, <3>1, <3>2 DEF Login!Locked, Counters
    <3> QED  BY <1>2, <2>2, <2>4, <3>1, <3>3
  <2> QED  BY <2>3, <2>4
<1> QED  BY <1>4, <1>5, <1>6 DEF ThrottleInv

(* What does not touch the counters or the time leaves the lockouts as they are. *)
LEMMA LockoutsSame ==
    ASSUME LoginInv, UNCHANGED <<loginNow, entries, due>> PROVE ThrottleInv'
BY DEF LoginInv, ThrottleInv, Escalates, Login!LockoutLasts

(* A counter that is removed and its lockout's end with it. *)
LEMMA ClearedKeeps ==
    ASSUME LoginInv, NEW n \in Login!Names, Login!Cleared(n), loginNow' = loginNow
    PROVE  /\ entries' \in [Login!Names -> {None} \cup Counters] /\ due' \in [Login!Names -> Nat]
           /\ ThrottleInv'
<1>1. /\ entries \in [Login!Names -> {None} \cup Counters] /\ due \in [Login!Names -> Nat]
      /\ entries' = [entries EXCEPT ![n] = None] /\ due' = [due EXCEPT ![n] = 0] /\ loginNow \in Nat
  BY DEF Login!Cleared, LoginInv, LoginTypes
<1>2. Escalates'
  BY <1>1 DEF LoginInv, ThrottleInv, Escalates
<1>3. Login!LockoutLasts'
  BY <1>1 DEF LoginInv, ThrottleInv, Login!LockoutLasts
<1> QED  BY <1>1, <1>2, <1>3 DEF ThrottleInv

LEMMA AskKeeps ==
    ASSUME LoginInv, NEW j \in LoginJobs, NEW n \in Login!Names, Login!Ask(j, n) PROVE LoginInv'
<1>1. UNCHANGED <<loginNow, entries, challenges, issued, logins, due>>
  BY DEF Login!Ask, Login!history
<1>2. PICK r \in Calls : loginJob' = [loginJob EXCEPT ![j] = r] /\ r.name \in Login!Names
                           /\ r.step \in {"issue", "unknown"}
  <2>1. /\ [Login!Idle EXCEPT !.step = "issue", !.name = n] \in Calls
        /\ [Login!Idle EXCEPT !.step = "issue", !.name = n].name = n
        /\ [Login!Idle EXCEPT !.step = "issue", !.name = n].step = "issue"
        /\ [Login!Idle EXCEPT !.step = "unknown", !.name = n] \in Calls
        /\ [Login!Idle EXCEPT !.step = "unknown", !.name = n].name = n
        /\ [Login!Idle EXCEPT !.step = "unknown", !.name = n].step = "unknown"
    BY DEF Login!Idle, Calls
  <2>2. \/ loginJob' = [loginJob EXCEPT ![j] = [Login!Idle EXCEPT !.step = "issue", !.name = n]]
        \/ loginJob' = [loginJob EXCEPT ![j] = [Login!Idle EXCEPT !.step = "unknown", !.name = n]]
    BY DEF Login!Ask
  <2> QED  BY <2>1, <2>2
<1>3. LoginTypes'
  BY <1>1, <1>2 DEF LoginInv, LoginTypes
<1>4. InOnePlace'
  BY <1>1, <1>2 DEF LoginInv, LoginTypes, InOnePlace
<1> QED  BY <1>1, <1>3, <1>4, LockoutsSame DEF LoginInv, Login!LoginOnce

LEMMA UnknownKeeps ==
    ASSUME LoginInv, NEW j \in LoginJobs, Login!Unknown(j) PROVE LoginInv'
<1>1. /\ UNCHANGED <<loginNow, challenges, issued, logins>>
      /\ loginJob' = [loginJob EXCEPT ![j] = Login!Idle] /\ Login!Failed(loginJob[j].name) /\ loginJob[j].name \in Login!Names
  BY DEF Login!Unknown, Login!Ends, Login!At, LoginInv, LoginTypes
<1>2. Login!Idle \in Calls /\ Login!Idle.step = "idle"
  BY DEF Login!Idle, Calls
<1>3. LoginTypes' /\ ThrottleInv'
  BY <1>1, <1>2, FailedKeeps DEF LoginInv, LoginTypes
<1>4. InOnePlace'
  BY <1>1, <1>2 DEF LoginInv, LoginTypes, InOnePlace
<1> QED  BY <1>1, <1>3, <1>4 DEF LoginInv, Login!LoginOnce

LEMMA IssueKeeps ==
    ASSUME LoginInv, NEW j \in LoginJobs, Login!Issue(j) PROVE LoginInv'
<1>1. /\ UNCHANGED <<loginNow, entries, due, logins>> /\ loginJob' = [loginJob EXCEPT ![j] = Login!Idle]
      /\ issued < MaxIssued /\ issued' = issued + 1
      /\ \A c \in challenges' : c \in challenges \/ c.id = issued + 1
  BY DEF Login!Issue, Login!Ends, Login!Newest, Login!Fresh
<1>2. Login!Idle \in Calls /\ Login!Idle.step = "idle"
  BY DEF Login!Idle, Calls
<1>3. LoginTypes'
  <2>1. issued \in 0 .. MaxIssued /\ issued' \in 0 .. MaxIssued
    BY LoginConstants, <1>1 DEF LoginInv, LoginTypes
  <2>2. \A c \in challenges' : c.id \in 1 .. issued'
    BY <1>1, <2>1 DEF LoginInv, LoginTypes
  <2>3. loginJob' \in [LoginJobs -> Calls]
    BY <1>1, <1>2 DEF LoginInv, LoginTypes
  <2>4. \A k \in LoginJobs : loginJob'[k].step = "unknown" => loginJob'[k].name \in Login!Names
    BY <1>1, <1>2 DEF LoginInv, LoginTypes
  <2>5. \A k \in LoginJobs :
          loginJob'[k].step \in {"redeem", "verify"} => loginJob'[k].id \in 1 .. issued'
    BY <1>1, <1>2, <2>1 DEF LoginInv, LoginTypes
  <2> QED  BY <1>1, <2>1, <2>2, <2>3, <2>4, <2>5 DEF LoginInv, LoginTypes
<1>4. InOnePlace'
  <2>1. /\ logins[issued + 1] = 0 /\ issued \in Nat
        /\ \A id \in 1 .. MaxIssued : id > issued + 1 => logins[id] = 0
    BY LoginConstants, <1>1 DEF LoginInv, LoginTypes, InOnePlace
  <2>2. \A k \in LoginJobs : loginJob'[k].step = "verify" =>
          loginJob'[k] = loginJob[k] /\ loginJob[k].id # issued + 1
    BY <1>1, <1>2 DEF LoginInv, LoginTypes
  <2>3. \A c \in challenges' : logins[c.id] = 0
    BY <1>1, <2>1 DEF LoginInv, InOnePlace
  <2>4. \A c \in challenges', k \in LoginJobs : loginJob'[k].step = "verify" => loginJob'[k].id # c.id
    BY <1>1, <2>2 DEF LoginInv, InOnePlace
  <2>5. \A k \in LoginJobs : loginJob'[k].step = "verify" => logins[loginJob'[k].id] = 0
    BY <2>2 DEF LoginInv, InOnePlace
  <2>6. \A i, k \in LoginJobs :
          loginJob'[i].step = "verify" /\ loginJob'[k].step = "verify" /\ loginJob'[i].id = loginJob'[k].id => i = k
    BY <2>2 DEF LoginInv, InOnePlace
  <2> QED  BY <1>1, <2>1, <2>3, <2>4, <2>5, <2>6 DEF InOnePlace
<1> QED  BY <1>1, <1>3, <1>4, LockoutsSame DEF LoginInv, Login!LoginOnce

LEMMA RedeemKeeps ==
    ASSUME LoginInv, NEW j \in LoginJobs, NEW n \in Login!Names, NEW id \in 1 .. issued,
           Login!Redeem(j, n, id)
    PROVE  LoginInv'
<1>1. /\ UNCHANGED <<loginNow, entries, challenges, issued, logins, due>>
      /\ loginJob' = [loginJob EXCEPT ![j] = [step |-> "redeem", name |-> n, id |-> id]]
  BY DEF Login!Redeem, Login!history
<1>2. LoginTypes'
  BY <1>1 DEF LoginInv, LoginTypes, Calls
<1>3. InOnePlace'
  BY <1>1 DEF LoginInv, LoginTypes, InOnePlace
<1> QED  BY <1>1, <1>2, <1>3, LockoutsSame DEF LoginInv, Login!LoginOnce

(* The challenge leaves the table as it comes into one request's hands. *)
LEMMA PopKeeps ==
    ASSUME LoginInv, NEW j \in LoginJobs, Login!Pop(j) PROVE LoginInv'
<1>1. /\ UNCHANGED <<loginNow, entries, issued, logins, due>> /\ loginJob[j].step = "redeem"
      /\ challenges' = {c \in Login!Fresh : c.id # loginJob[j].id} /\ Login!Fresh \subseteq challenges
      /\ \/ Login!Goes(j, "verify") /\ \E c \in challenges : c.id = loginJob[j].id
         \/ Login!Ends(j)
  BY DEF Login!Pop, Login!At, Login!Fresh
<1>2. Login!Idle \in Calls /\ Login!Idle.step = "idle"
  BY DEF Login!Idle, Calls
<1>3. CASE Login!Ends(j)
  <2>1. loginJob' = [loginJob EXCEPT ![j] = Login!Idle]
    BY <1>3 DEF Login!Ends
  <2>2. LoginTypes'
    BY <1>1, <1>2, <2>1 DEF LoginInv, LoginTypes
  <2>3. InOnePlace'
    BY <1>1, <1>2, <2>1 DEF LoginInv, LoginTypes, InOnePlace
  <2> QED  BY <1>1, <2>2, <2>3, LockoutsSame DEF LoginInv, Login!LoginOnce
<1>4. CASE Login!Goes(j, "verify") /\ \E c \in challenges : c.id = loginJob[j].id
  <2>1. /\ loginJob' = [loginJob EXCEPT ![j].step = "verify"] /\ loginJob' \in [LoginJobs -> Calls]
        /\ loginJob'[j].step = "verify" /\ loginJob'[j].id = loginJob[j].id
        /\ \A k \in LoginJobs : k # j => loginJob'[k] = loginJob[k]
    BY <1>4 DEF Login!Goes, LoginInv, LoginTypes, Calls
  <2>2. logins[loginJob[j].id] = 0 /\ \A k \in LoginJobs : loginJob[k].step = "verify" => loginJob[k].id # loginJob[j].id
    BY <1>4 DEF LoginInv, InOnePlace
  <2>3. LoginTypes'
    <3>1. \A k \in LoginJobs : loginJob'[k].step = "unknown" => loginJob'[k].name \in Login!Names
      BY <2>1 DEF LoginInv, LoginTypes
    <3>2. \A k \in LoginJobs : loginJob'[k].step \in {"redeem", "verify"} => loginJob'[k].id \in 1 .. issued
      BY <1>1, <2>1 DEF LoginInv, LoginTypes
    <3> QED  BY <1>1, <2>1, <3>1, <3>2 DEF LoginInv, LoginTypes
  <2>4. InOnePlace'
    <3>1. \A c \in challenges' : logins'[c.id] = 0
      BY <1>1 DEF LoginInv, InOnePlace
    <3>2. \A c \in challenges', k \in LoginJobs : loginJob'[k].step = "verify" => loginJob'[k].id # c.id
      BY <1>1, <2>1 DEF LoginInv, InOnePlace
    <3>3. \A k \in LoginJobs : loginJob'[k].step = "verify" => logins'[loginJob'[k].id] = 0
      BY <1>1, <2>1, <2>2 DEF LoginInv, InOnePlace
    <3>4. \A i, k \in LoginJobs :
            loginJob'[i].step = "verify" /\ loginJob'[k].step = "verify" /\ loginJob'[i].id = loginJob'[k].id => i = k
      BY <2>1, <2>2 DEF LoginInv, InOnePlace
    <3> QED  BY <1>1, <3>1, <3>2, <3>3, <3>4 DEF LoginInv, InOnePlace
  <2> QED  BY <1>1, <2>3, <2>4, LockoutsSame DEF LoginInv, Login!LoginOnce
<1> QED  BY <1>1, <1>3, <1>4

LEMMA VerifyKeeps ==
    ASSUME LoginInv, NEW j \in LoginJobs, NEW good \in BOOLEAN, Login!Verify(j, good) PROVE LoginInv'
<1>1. /\ UNCHANGED <<loginNow, challenges, issued>> /\ loginJob[j].step = "verify"
      /\ loginJob' = [loginJob EXCEPT ![j] = Login!Idle] /\ Phone \in Login!Names
      /\ \/ Login!Cleared(Phone) /\ logins' = [logins EXCEPT ![loginJob[j].id] = @ + 1]
         \/ Login!Failed(Phone) /\ UNCHANGED logins
  BY DEF Login!Verify, Login!At, Login!Ends, Login!Names
<1>2. Login!Idle \in Calls /\ Login!Idle.step = "idle"
  BY DEF Login!Idle, Calls
<1>3. loginJob[j].id \in 1 .. issued /\ loginJob[j].id \in 1 .. MaxIssued /\ logins[loginJob[j].id] = 0
  BY LoginConstants, <1>1 DEF LoginInv, LoginTypes, InOnePlace
<1>4. /\ entries' \in [Login!Names -> {None} \cup Counters] /\ due' \in [Login!Names -> Nat]
      /\ ThrottleInv'
  BY <1>1, ClearedKeeps, FailedKeeps
<1>5. /\ logins' \in [1 .. MaxIssued -> Nat]
      /\ \A id \in 1 .. MaxIssued : id # loginJob[j].id => logins'[id] = logins[id]
      /\ logins'[loginJob[j].id] \in 0 .. 1
  <2>1. logins \in [1 .. MaxIssued -> Nat]
    BY DEF LoginInv, LoginTypes
  <2>2. CASE logins' = [logins EXCEPT ![loginJob[j].id] = @ + 1]
    BY <1>3, <2>1, <2>2
  <2>3. CASE logins' = logins
    BY <1>3, <2>1, <2>3
  <2> QED  BY <1>1, <2>2, <2>3
<1>6. LoginTypes'
  BY <1>1, <1>2, <1>4, <1>5 DEF LoginInv, LoginTypes
<1>7. InOnePlace'
  <2>1. \A c \in challenges : c.id # loginJob[j].id /\ c.id \in 1 .. MaxIssued
    BY LoginConstants, <1>1 DEF LoginInv, LoginTypes, InOnePlace
  <2>2. \A k \in LoginJobs : loginJob'[k].step = "verify" =>
          k # j /\ loginJob'[k] = loginJob[k] /\ loginJob[k].id # loginJob[j].id /\ loginJob[k].id \in 1 .. MaxIssued
    BY LoginConstants, <1>1, <1>2 DEF LoginInv, LoginTypes, InOnePlace
  <2>3. \A c \in challenges' : logins'[c.id] = 0
    BY <1>1, <1>5, <2>1 DEF LoginInv, InOnePlace
  <2>4. \A c \in challenges', k \in LoginJobs : loginJob'[k].step = "verify" => loginJob'[k].id # c.id
    BY <1>1, <2>2 DEF LoginInv, InOnePlace
  <2>5. \A k \in LoginJobs : loginJob'[k].step = "verify" => logins'[loginJob'[k].id] = 0
    BY <1>5, <2>2 DEF LoginInv, InOnePlace
  <2>6. \A i, k \in LoginJobs :
          loginJob'[i].step = "verify" /\ loginJob'[k].step = "verify" /\ loginJob'[i].id = loginJob'[k].id => i = k
    BY <2>2 DEF LoginInv, InOnePlace
  <2>7. \A id \in 1 .. MaxIssued : id > issued' => logins'[id] = 0
    BY <1>1, <1>3, <1>5 DEF LoginInv, LoginTypes, InOnePlace
  <2> QED  BY <2>3, <2>4, <2>5, <2>6, <2>7 DEF InOnePlace
<1>8. Login!LoginOnce'
  BY <1>5 DEF LoginInv, LoginTypes, Login!LoginOnce
<1> QED  BY <1>4, <1>6, <1>7, <1>8 DEF LoginInv

LEMMA OthersKeep ==
    ASSUME LoginInv, Login!Unpair \/ Login!Tick \/ Login!Restart \/ UNCHANGED Login!vars PROVE LoginInv'
<1>1. CASE Login!Unpair
  <2>1. UNCHANGED <<loginNow, challenges, issued, loginJob, logins>> /\ Login!Cleared(Phone) /\ Phone \in Login!Names
    BY <1>1 DEF Login!Unpair, Login!Names
  <2>2. LoginTypes' /\ ThrottleInv'
    BY <2>1, ClearedKeeps DEF LoginInv, LoginTypes
  <2> QED  BY <2>1, <2>2 DEF LoginInv, InOnePlace, Login!LoginOnce
<1>2. CASE Login!Tick
  <2>1. /\ UNCHANGED <<entries, challenges, issued, loginJob, logins>> /\ loginNow' = loginNow + 1 /\ loginNow \in Nat
        /\ due' = [n \in Login!Names |-> IF due[n] > loginNow' THEN due[n] ELSE 0]
    BY <1>2 DEF Login!Tick, LoginInv, LoginTypes
  <2>2. LoginTypes'
    BY <2>1 DEF LoginInv, LoginTypes
  <2>3. Escalates'
    <3> SUFFICES ASSUME NEW n \in Login!Names, entries[n] # None
                 PROVE  entries[n].until <= loginNow + 1 + LockoutSteps[entries[n].level + 1]
      BY <2>1 DEF Escalates
    <3>1. entries[n] \in Counters /\ entries[n].until <= loginNow + LockoutSteps[entries[n].level + 1]
      BY DEF LoginInv, LoginTypes, ThrottleInv, Escalates
    <3>2. entries[n].level + 1 \in 1 .. Len(LockoutSteps)
      BY LoginConstants, <3>1 DEF Counters, Login!LastStep
    <3>3. LockoutSteps[entries[n].level + 1] \in Nat
      BY LoginConstants, <3>2
    <3> QED  BY <2>1, <3>1, <3>3 DEF Counters
  <2>4. Login!LockoutLasts'
    <3> SUFFICES ASSUME NEW n \in Login!Names, due'[n] > loginNow'
                 PROVE  entries[n] # None /\ entries[n].until >= due'[n]
      BY <2>1 DEF Login!LockoutLasts
    <3>1. due[n] \in Nat
      BY DEF LoginInv, LoginTypes
    <3>2. due'[n] = due[n] /\ due[n] > loginNow
      BY <2>1, <3>1
    <3> QED  BY <3>2 DEF LoginInv, ThrottleInv, Login!LockoutLasts
  <2> QED  BY <2>1, <2>2, <2>3, <2>4 DEF LoginInv, ThrottleInv, InOnePlace, Login!LoginOnce
<1>3. CASE Login!Restart
  <2>1. /\ UNCHANGED <<loginNow, issued, logins>> /\ entries' = [n \in Login!Names |-> None]
        /\ challenges' = {} /\ loginJob' = [j \in LoginJobs |-> Login!Idle] /\ due' = [n \in Login!Names |-> 0]
    BY <1>3 DEF Login!Restart
  <2>2. Login!Idle \in Calls /\ Login!Idle.step = "idle"
    BY DEF Login!Idle, Calls
  <2>3. LoginTypes'
    BY <2>1, <2>2 DEF LoginInv, LoginTypes
  <2>4. ThrottleInv'
    BY <2>1 DEF LoginInv, LoginTypes, ThrottleInv, Escalates, Login!LockoutLasts
  <2>5. InOnePlace'
    BY <2>1, <2>2 DEF LoginInv, InOnePlace
  <2> QED  BY <2>1, <2>3, <2>4, <2>5 DEF LoginInv, Login!LoginOnce
<1>4. CASE UNCHANGED Login!vars
  <2>1. UNCHANGED <<loginNow, entries, challenges, issued, loginJob, logins, due>>
    BY <1>4 DEF Login!vars, Login!history
  <2> QED  BY <2>1, LockoutsSame DEF LoginInv, LoginTypes, InOnePlace, Login!LoginOnce
<1> QED  BY <1>1, <1>2, <1>3, <1>4

LEMMA LoginStep == LoginInv /\ [Login!Next]_(Login!vars) => LoginInv'
BY AskKeeps, UnknownKeeps, IssueKeeps, RedeemKeeps, PopKeeps, VerifyKeeps, OthersKeep DEF Login!Next

(* The invariant the three results below rest on. *)
THEOREM LoginInvariant == Login!Spec => []LoginInv
BY LoginStarts, LoginStep, PTL DEF Login!Spec

(* For any names, requests and limits: however many requests answer a challenge, *)
(* it brings one token.                                                          *)
THEOREM ChallengeOnce == Login!Spec => []Login!LoginOnce
<1>1. LoginInv => Login!LoginOnce
  BY DEF LoginInv
<1> QED  BY <1>1, LoginInvariant, PTL

(* For any names, requests, limits and lockouts that do not get shorter: no      *)
(* failure that was under way, and no other name's, ends a lockout early.        *)
THEOREM LockoutHolds == Login!Spec => []Login!LockoutLasts
<1>1. LoginInv => Login!LockoutLasts
  BY DEF LoginInv, ThrottleInv
<1> QED  BY <1>1, LoginInvariant, PTL

(* The table of challenges: few, no two of one number, and the newest are in it. *)
ChallengesKept ==
    /\ IsFiniteSet(challenges) /\ Cardinality(challenges) <= MaxChallenges
    /\ \A c, d \in challenges : c.id = d.id => c = d
    /\ \A c \in open : c.id \in 1 .. issued /\ c.until \in Nat
    /\ Login!NewestKept

(* What is kept of a table when a challenge is made leaves it a place. *)
LEMMA NewestFew ==
    ASSUME NEW cs, IsFiniteSet(cs), \A c \in cs : c.id \in Nat,
           \A c, d \in cs : c.id = d.id => c = d
    PROVE  /\ Login!Newest(cs) \subseteq cs /\ IsFiniteSet(Login!Newest(cs))
           /\ Cardinality(Login!Newest(cs)) <= MaxChallenges - 1
<1> DEFINE rest == Login!Newest(cs)
<1>1. rest \subseteq cs /\ IsFiniteSet(rest) /\ Cardinality(rest) \in Nat
  BY FS_Subset, FS_CardinalityType DEF Login!Newest
<1>2. CASE rest = {}
  BY <1>1, <1>2, FS_EmptySet, LoginConstants
<1>3. CASE rest # {}
  <2>1. PICK c \in rest : \A d \in rest : c.id <= d.id
    BY <1>1, <1>3, FirstOf
  <2> DEFINE above == {d \in cs : d.id > c.id}
  <2>2. Cardinality(above) < MaxChallenges - 1 /\ IsFiniteSet(above) /\ Cardinality(above) \in Nat
      <3>1. Cardinality(above) < MaxChallenges - 1
      BY <2>1, LoginCounts DEF Login!Newest
    <3>2. above \subseteq cs
      OBVIOUS
    <3> HIDE DEF above
    <3> QED  BY <3>1, <3>2, FS_Subset, FS_CardinalityType
  <2>3. rest \ {c} \subseteq above
    BY <1>1, <2>1
  <2>4. Cardinality(rest \ {c}) <= Cardinality(above)
    BY <2>2, <2>3, FS_Subset
  <2>5. Cardinality(rest \ {c}) = Cardinality(rest) - 1
    BY <1>1, FS_RemoveElement
  <2> QED  BY <1>1, <2>2, <2>4, <2>5, LoginConstants
<1> QED  BY <1>1, <1>2, <1>3

LEMMA IssueKeepsNewest ==
    ASSUME LoginInv, ChallengesKept, NEW j \in LoginJobs, Login!Issue(j) PROVE ChallengesKept'
<1> DEFINE one == [id |-> issued + 1, until |-> loginNow + ChallengeTTL]
           rest == Login!Newest(Login!Fresh)
<1>1. /\ loginNow' = loginNow /\ issued' = issued + 1 /\ issued \in Nat /\ loginNow \in Nat
      /\ challenges' = rest \cup {one} /\ open' = open \cup {one}
      /\ Login!Fresh \subseteq challenges
  BY DEF Login!Issue, Login!Fresh, LoginInv, LoginTypes
<1>2. /\ IsFiniteSet(Login!Fresh) /\ \A c \in Login!Fresh : c.id \in 1 .. issued
      /\ \A c, d \in Login!Fresh : c.id = d.id => c = d
  BY <1>1, FS_Subset DEF LoginInv, LoginTypes, ChallengesKept
<1>3. rest \subseteq Login!Fresh /\ IsFiniteSet(rest) /\ Cardinality(rest) <= MaxChallenges - 1
      /\ Cardinality(rest) \in Nat
  <2>1. \A c \in Login!Fresh : c.id \in Nat
    BY <1>2
  <2> QED  BY <1>2, <2>1, NewestFew, FS_CardinalityType
<1>4. IsFiniteSet(challenges') /\ Cardinality(challenges') <= MaxChallenges
  <2>1. Cardinality(rest \cup {one}) <= Cardinality(rest) + 1 /\ IsFiniteSet(rest \cup {one})
    <3> HIDE DEF rest, one
    <3> QED  BY <1>3, FS_AddElement
  <2>2. Cardinality(rest \cup {one}) \in Nat
    BY <2>1, FS_CardinalityType
  <2> QED  BY <1>1, <1>3, <2>1, <2>2, LoginConstants
<1>5. \A c, d \in challenges' : c.id = d.id => c = d
  BY <1>1, <1>2, <1>3
<1>6. \A c \in open' : c.id \in 1 .. issued' /\ c.until \in Nat
  BY <1>1, LoginConstants DEF ChallengesKept
<1>7. Login!NewestKept'
  <2> SUFFICES ASSUME NEW c \in open, c # one, c.until > loginNow, c.id + MaxChallenges > issued + 1
               PROVE  c \in rest
    BY <1>1 DEF Login!NewestKept
  <2>1. c.id \in 1 .. issued
    BY DEF ChallengesKept
  <2>2. c \in challenges /\ c \in Login!Fresh
    BY <1>1, <2>1, LoginConstants DEF ChallengesKept, Login!NewestKept, Login!Fresh
  <2> DEFINE above == {d \in Login!Fresh : d.id > c.id}
  <2>3. /\ \A d \in above : d.id \in (c.id + 1) .. issued
        /\ \A d, e \in above : d.id = e.id => d = e
    BY <1>2, <2>1
  <2>4. IsFiniteSet(above) /\ Cardinality(above) <= Cardinality((c.id + 1) .. issued)
    <3> HIDE DEF above
    <3>1. c.id + 1 \in Int /\ issued \in Int
      BY <1>1, <2>1
    <3> QED  BY <2>3, <3>1, Numbered
  <2>5. Cardinality((c.id + 1) .. issued) = issued - c.id
    <3>1. c.id + 1 \in Int /\ issued \in Int
      BY <1>1, <2>1
    <3>2. Cardinality((c.id + 1) .. issued) = IF c.id + 1 > issued THEN 0 ELSE issued - (c.id + 1) + 1
      BY <3>1, FS_Interval
    <3> QED  BY <1>1, <2>1, <3>1, <3>2
  <2>6. Cardinality(above) < MaxChallenges - 1
    <3>1. Cardinality(above) \in Nat
      BY <2>4, FS_CardinalityType
    <3> QED  BY <1>1, <2>1, <2>4, <2>5, <3>1, LoginConstants
  <2>7. rest = {e \in Login!Fresh :
                  Cardinality({d \in Login!Fresh : d.id > e.id}) < MaxChallenges - 1}
    BY LoginCounts DEF Login!Newest
  <2> QED  BY <2>2, <2>6, <2>7
<1> QED  BY <1>4, <1>5, <1>6, <1>7 DEF ChallengesKept

LEMMA ChallengesGo ==
    ASSUME LoginInv, ChallengesKept,
           \/ \E j \in LoginJobs : Login!Pop(j)
           \/ Login!Tick \/ Login!Restart
           \/ UNCHANGED <<loginNow, challenges, open, issued>>
    PROVE  ChallengesKept'
<1>1. ASSUME NEW j \in LoginJobs, Login!Pop(j) PROVE ChallengesKept'
  <2>1. /\ UNCHANGED <<loginNow, issued>>
        /\ challenges' = {c \in Login!Fresh : c.id # loginJob[j].id}
        /\ open' = {c \in open : c.id # loginJob[j].id}
    BY <1>1 DEF Login!Pop
  <2>2. challenges' \subseteq challenges
    BY <2>1 DEF Login!Fresh
  <2>3. IsFiniteSet(challenges') /\ Cardinality(challenges') <= MaxChallenges
    <3>1. IsFiniteSet(challenges') /\ Cardinality(challenges') <= Cardinality(challenges)
      BY <2>2, FS_Subset DEF ChallengesKept
    <3>2. Cardinality(challenges') \in Nat /\ Cardinality(challenges) \in Nat
      BY <3>1, FS_CardinalityType DEF ChallengesKept
    <3> QED  BY <3>1, <3>2, LoginConstants DEF ChallengesKept
  <2>4. Login!NewestKept'
    BY <2>1 DEF ChallengesKept, Login!NewestKept, Login!Fresh
  <2> QED  BY <2>1, <2>2, <2>3, <2>4 DEF ChallengesKept
<1>2. CASE Login!Tick
  <2>1. /\ UNCHANGED <<challenges, issued>> /\ loginNow' = loginNow + 1 /\ loginNow \in Nat
        /\ open' \subseteq open
    BY <1>2 DEF Login!Tick, LoginInv, LoginTypes
  <2>2. Login!NewestKept'
    BY <2>1 DEF ChallengesKept, Login!NewestKept
  <2> QED  BY <2>1, <2>2 DEF ChallengesKept
<1>3. CASE Login!Restart
  <2>1. challenges' = {} /\ open' = {}
    BY <1>3 DEF Login!Restart
  <2>2. IsFiniteSet({}) /\ Cardinality({}) <= MaxChallenges
    BY FS_EmptySet, LoginConstants
  <2> QED  BY <2>1, <2>2 DEF ChallengesKept, Login!NewestKept
<1>4. CASE UNCHANGED <<loginNow, challenges, open, issued>>
  BY <1>4 DEF ChallengesKept, Login!NewestKept
<1> QED  BY <1>1, <1>2, <1>3, <1>4

LEMMA ChallengesStep ==
    LoginInv /\ ChallengesKept /\ [Login!Next]_(Login!vars) => ChallengesKept'
<1> SUFFICES ASSUME LoginInv, ChallengesKept, [Login!Next]_(Login!vars) PROVE ChallengesKept'
  OBVIOUS
<1>1. \A j \in LoginJobs, n \in Login!Names : Login!Ask(j, n) => UNCHANGED <<loginNow, challenges, open, issued>>
  BY DEF Login!Ask, Login!history
<1>2. \A j \in LoginJobs : Login!Unknown(j) => UNCHANGED <<loginNow, challenges, open, issued>>
  BY DEF Login!Unknown
<1>3. \A j \in LoginJobs, n \in Login!Names, id \in 1 .. issued :
        Login!Redeem(j, n, id) => UNCHANGED <<loginNow, challenges, open, issued>>
  BY DEF Login!Redeem, Login!history
<1>4. \A j \in LoginJobs, good \in BOOLEAN :
        Login!Verify(j, good) => UNCHANGED <<loginNow, challenges, open, issued>>
  BY DEF Login!Verify
<1>5. Login!Unpair \/ UNCHANGED Login!vars => UNCHANGED <<loginNow, challenges, open, issued>>
  BY DEF Login!Unpair, Login!vars, Login!history
<1> QED  BY <1>1, <1>2, <1>3, <1>4, <1>5, IssueKeepsNewest, ChallengesGo DEF Login!Next

(* For any names, requests and limits: the newest challenges, as many as a phone *)
(* may have, are there until their time is over or they are answered.            *)
THEOREM NewestChallengesKept == Login!Spec => []Login!NewestKept
<1>1. Login!Init => ChallengesKept
  BY FS_EmptySet, LoginConstants DEF Login!Init, ChallengesKept, Login!NewestKept
<1>2. ChallengesKept => Login!NewestKept
  BY DEF ChallengesKept
<1> QED  BY <1>1, <1>2, ChallengesStep, LoginInvariant, PTL DEF Login!Spec

LoginClock == loginNow \in 0 .. LoginTime /\ enrolled \in BOOLEAN

LEMMA LoginClockStep == LoginClock /\ [Login!Next]_(Login!vars) => LoginClock'
<1> SUFFICES ASSUME LoginClock, [Login!Next]_(Login!vars) PROVE LoginClock'
  OBVIOUS
<1>1. CASE Login!Tick
  BY <1>1, LoginConstants DEF LoginClock, Login!Tick
<1>2. CASE Login!Unpair
  BY <1>2 DEF LoginClock, Login!Unpair
<1>3. CASE Login!Restart \/ UNCHANGED Login!vars
  BY <1>3 DEF LoginClock, Login!Restart, Login!vars
<1>4. ASSUME NEW j \in LoginJobs,
             \/ Login!Unknown(j) \/ Login!Issue(j) \/ Login!Pop(j)
             \/ \E n \in Login!Names : Login!Ask(j, n)
             \/ \E n \in Login!Names, id \in 1 .. issued : Login!Redeem(j, n, id)
             \/ \E good \in BOOLEAN : Login!Verify(j, good)
      PROVE  LoginClock'
  <2>1. UNCHANGED <<loginNow, enrolled>>
    BY <1>4 DEF Login!Unknown, Login!Issue, Login!Pop, Login!Ask, Login!Redeem, Login!Verify
  <2> QED  BY <2>1 DEF LoginClock
<1> QED  BY <1>1, <1>2, <1>3, <1>4 DEF Login!Next

LEMMA LoginTyped == LoginInv /\ ChallengesKept /\ LoginClock => Login!TypeOK
<1> SUFFICES ASSUME LoginInv, ChallengesKept, LoginClock PROVE Login!TypeOK
  OBVIOUS
<1>1. \A n \in Login!Names : entries[n] # None => entries[n] \in Counters
  BY DEF LoginInv, LoginTypes
<1>2. Login!Cardinality(challenges) <= MaxChallenges
  BY LoginCounts DEF ChallengesKept
<1>3. \A j \in LoginJobs : loginJob[j].step \in {"idle", "unknown", "issue", "redeem", "verify"}
  BY DEF LoginInv, LoginTypes, Calls
<1>4. issued \in 0 .. MaxIssued
  BY DEF LoginInv, LoginTypes
<1> QED  BY <1>1, <1>2, <1>3, <1>4 DEF Login!TypeOK, Counters, LoginClock

(* All that the log-in keeps to. *)
LoginKept == LoginInv /\ ChallengesKept /\ LoginClock

LEMMA LoginKeptStarts == Login!Init => LoginKept
<1>1. Login!Init => ChallengesKept
  BY FS_EmptySet, LoginConstants DEF Login!Init, ChallengesKept, Login!NewestKept
<1>2. Login!Init => LoginClock
  BY LoginConstants DEF Login!Init, LoginClock
<1> QED  BY <1>1, <1>2, LoginStarts DEF LoginKept

LEMMA LoginKeptStep == LoginKept /\ [Login!Next]_(Login!vars) => LoginKept'
BY LoginStep, ChallengesStep, LoginClockStep DEF LoginKept

-----------------------------------------------------------------------------
(* The tunnel (Tunnel), when a person saves options while no job runs. *)

TunnelSteps == {"idle", "listen", "advertise", "sync", "withdraw", "restore", "list", "info",
                "auto", "start", "stop", "manual", "probe", "restart"}
TunnelTasks == [step : TunnelSteps, on : BOOLEAN, running : BOOLEAN, dom : {None} \cup Domains]

TunnelWorld ==
    /\ domain \in {None} \cup Domains /\ tunnelApplied \in {None} \cup Domains
    /\ url \in Tunnel!Urls /\ tunnelOn \in BOOLEAN /\ cooling \in BOOLEAN /\ clean \in BOOLEAN
    /\ addon \in Tunnel!Addons
TunnelTypes == TunnelWorld /\ tunnelJob \in [TunnelJobs -> TunnelTasks]

(* The add-on is as the options say, and so is the URL. *)
Settled ==
    /\ domain # None => url \in {Path, domain}
    /\ addon # None =>
         IF domain = None THEN addon.boot = "auto"
         ELSE addon.running = tunnelOn /\ addon.boot = (IF tunnelOn THEN "auto" ELSE "manual")

(* What a job knows at each of its steps. *)
ChangeBegins(t) == t.step \in {"listen", "advertise", "sync", "withdraw", "restore"} =>
    /\ ~clean
    /\ t.step \in {"advertise", "sync"} => t.dom = domain
    /\ t.step \in {"withdraw", "restore"} => domain = None
Reconciles(t) == t.step \in {"list", "info", "auto", "start", "stop", "manual"} =>
    /\ ~clean /\ domain # None /\ url = domain /\ t.on = tunnelOn
    /\ t.step \in {"auto", "start"} => tunnelOn
    /\ t.step \in {"stop", "manual"} => ~tunnelOn
    /\ t.step = "auto" /\ addon # None => t.running = addon.running
    /\ t.step = "start" /\ addon # None => addon.boot = "auto"
    /\ t.step = "manual" /\ addon # None => ~addon.running
Watches(t) == t.step \in {"probe", "restart"} =>
    domain # None /\ tunnelOn /\ (clean => Settled)

(* TunnelAsSaved speaks of the hub at rest; until then, the one job there is    *)
(* has read the options as they are and does what they ask for.                 *)
TunnelInv ==
    /\ TunnelTypes
    /\ \A j, k \in TunnelJobs : tunnelJob[j].step # "idle" /\ tunnelJob[k].step # "idle" => j = k
    /\ \A j \in TunnelJobs : /\ ChangeBegins(tunnelJob[j]) /\ Reconciles(tunnelJob[j])
                             /\ Watches(tunnelJob[j])
    /\ Tunnel!Calm /\ clean => Settled

LEMMA TunnelStarts == Tunnel!Init => TunnelInv
<1> SUFFICES ASSUME Tunnel!Init PROVE TunnelInv
  OBVIOUS
<1>1. Tunnel!Idle \in TunnelTasks
  BY DEF Tunnel!Idle, TunnelTasks, TunnelSteps
<1>2. tunnelJob \in [TunnelJobs -> TunnelTasks]
  BY <1>1 DEF Tunnel!Init
<1>3. /\ domain \in {None} \cup Domains /\ tunnelApplied \in {None} \cup Domains
    /\ url \in Tunnel!Urls
  BY DEF Tunnel!Init, Tunnel!Urls
<1>4. tunnelOn \in BOOLEAN /\ cooling \in BOOLEAN /\ clean \in BOOLEAN
  BY DEF Tunnel!Init
<1>5. \A j \in TunnelJobs : tunnelJob[j].step = "idle"
  BY DEF Tunnel!Init, Tunnel!Idle
<1>6. addon \in Tunnel!Addons /\ ~clean
  BY DEF Tunnel!Init, Tunnel!Addons
<1> QED  BY <1>2, <1>3, <1>4, <1>5, <1>6 DEF TunnelInv, TunnelTypes, TunnelWorld, ChangeBegins, Reconciles, Watches

(* A step of one job leaves the others as they are. *)
Turned(j) == tunnelJob' \in [TunnelJobs -> TunnelTasks]
             /\ \A k \in TunnelJobs : k # j => tunnelJob'[k] = tunnelJob[k]
SameTask(j) == /\ tunnelJob'[j].on = tunnelJob[j].on /\ tunnelJob'[j].dom = tunnelJob[j].dom
               /\ tunnelJob'[j].running = tunnelJob[j].running

LEMMA TasksTurn ==
    ASSUME TunnelTypes, NEW j \in TunnelJobs
    PROVE  /\ Tunnel!Ends(j) => Turned(j) /\ tunnelJob'[j].step = "idle"
           /\ \A s \in TunnelSteps : Tunnel!Goes(j, s) => Turned(j) /\ SameTask(j) /\ tunnelJob'[j].step = s
           /\ \A s \in TunnelSteps, d \in {None} \cup Domains :
                tunnelJob' = [tunnelJob EXCEPT ![j].step = s, ![j].dom = d] =>
                Turned(j) /\ tunnelJob'[j].step = s /\ tunnelJob'[j].dom = d
           /\ \A s \in TunnelSteps, b \in BOOLEAN :
                tunnelJob' = [tunnelJob EXCEPT ![j].step = s, ![j].running = b] =>
                Turned(j) /\ /\ tunnelJob'[j].step = s /\ tunnelJob'[j].running = b
                             /\ tunnelJob'[j].on = tunnelJob[j].on
           /\ Tunnel!Reconcile(j) => Turned(j) /\
                IF domain = None THEN tunnelJob'[j].step = "idle"
                ELSE tunnelJob'[j].step = "list" /\ tunnelJob'[j].on = tunnelOn
<1> DEFINE old == tunnelJob[j]
<1>1. tunnelJob \in [TunnelJobs -> TunnelTasks] /\ old \in TunnelTasks /\ tunnelOn \in BOOLEAN
  BY DEF TunnelTypes, TunnelWorld
<1>2. Tunnel!Idle \in TunnelTasks /\ Tunnel!Idle.step = "idle"
  BY DEF Tunnel!Idle, TunnelTasks, TunnelSteps
<1>3. Tunnel!Ends(j) => Turned(j) /\ tunnelJob'[j].step = "idle"
  BY <1>1, <1>2 DEF Tunnel!Ends, Turned
<1>4. ASSUME NEW s \in TunnelSteps, Tunnel!Goes(j, s)
      PROVE  Turned(j) /\ SameTask(j) /\ tunnelJob'[j].step = s
  <2>1. [old EXCEPT !.step = s] \in TunnelTasks /\ [old EXCEPT !.step = s].step = s
        /\ [old EXCEPT !.step = s].on = old.on /\ [old EXCEPT !.step = s].dom = old.dom
        /\ [old EXCEPT !.step = s].running = old.running
    BY <1>1 DEF TunnelTasks
  <2>2. tunnelJob' = [tunnelJob EXCEPT ![j] = [old EXCEPT !.step = s]]
    BY <1>1, <1>4 DEF Tunnel!Goes
  <2> QED  BY <1>1, <2>1, <2>2 DEF Turned, SameTask
<1>5. ASSUME NEW s \in TunnelSteps, NEW d \in {None} \cup Domains,
             tunnelJob' = [tunnelJob EXCEPT ![j].step = s, ![j].dom = d]
      PROVE  Turned(j) /\ tunnelJob'[j].step = s /\ tunnelJob'[j].dom = d
  <2>1. [old EXCEPT !.step = s, !.dom = d] \in TunnelTasks
        /\ [old EXCEPT !.step = s, !.dom = d].step = s /\ [old EXCEPT !.step = s, !.dom = d].dom = d
    BY <1>1 DEF TunnelTasks
  <2>2. tunnelJob' = [tunnelJob EXCEPT ![j] = [old EXCEPT !.step = s, !.dom = d]]
    BY <1>1, <1>5
  <2> QED  BY <1>1, <2>1, <2>2 DEF Turned
<1>6. ASSUME NEW s \in TunnelSteps, NEW b \in BOOLEAN,
             tunnelJob' = [tunnelJob EXCEPT ![j].step = s, ![j].running = b]
      PROVE  Turned(j) /\ /\ tunnelJob'[j].step = s /\ tunnelJob'[j].running = b
                          /\ tunnelJob'[j].on = tunnelJob[j].on
  <2>1. [old EXCEPT !.step = s, !.running = b] \in TunnelTasks
        /\ [old EXCEPT !.step = s, !.running = b].step = s /\ [old EXCEPT !.step = s, !.running = b].running = b
        /\ [old EXCEPT !.step = s, !.running = b].on = old.on
    BY <1>1 DEF TunnelTasks
  <2>2. tunnelJob' = [tunnelJob EXCEPT ![j] = [old EXCEPT !.step = s, !.running = b]]
    BY <1>1, <1>6
  <2> QED  BY <1>1, <2>1, <2>2 DEF Turned
<1>7. ASSUME Tunnel!Reconcile(j)
      PROVE  Turned(j) /\ IF domain = None THEN tunnelJob'[j].step = "idle"
                          ELSE tunnelJob'[j].step = "list" /\ tunnelJob'[j].on = tunnelOn
  <2> DEFINE begun == [Tunnel!Idle EXCEPT !.step = "list", !.on = tunnelOn]
  <2>1. begun \in TunnelTasks /\ begun.step = "list" /\ begun.on = tunnelOn
    BY <1>1 DEF Tunnel!Idle, TunnelTasks, TunnelSteps
  <2>2. domain # None => tunnelJob' = [tunnelJob EXCEPT ![j] = begun]
    BY <1>7 DEF Tunnel!Reconcile
  <2> HIDE DEF begun
  <2>3. CASE domain # None
    BY <1>1, <2>1, <2>2, <2>3 DEF Turned
  <2>4. CASE domain = None
    BY <1>3, <1>7, <2>4 DEF Tunnel!Reconcile
  <2> QED  BY <2>3, <2>4
<1> HIDE DEF old
<1> QED  BY <1>3, <1>4, <1>5, <1>6, <1>7

(* While one job goes on, no other does: its step is all there is to look at. *)
LEMMA OneJob ==
    ASSUME TunnelInv, NEW j \in TunnelJobs, Turned(j), TunnelWorld',
           tunnelJob[j].step # "idle" \/ Tunnel!Calm,
           ChangeBegins(tunnelJob[j])', Reconciles(tunnelJob[j])', Watches(tunnelJob[j])',
           tunnelJob'[j].step = "idle" /\ clean' => Settled'
    PROVE  TunnelInv'
<1>1. \A k \in TunnelJobs : k # j => tunnelJob[k].step = "idle"
  BY DEF TunnelInv, Tunnel!Calm, Tunnel!At
<1>2. \A k \in TunnelJobs : k # j => tunnelJob'[k].step = "idle"
  BY <1>1 DEF Turned
<1>3. \A k \in TunnelJobs : (ChangeBegins(tunnelJob[k]) /\ Reconciles(tunnelJob[k])
                             /\ Watches(tunnelJob[k]))'
  BY <1>2 DEF ChangeBegins, Reconciles, Watches
<1>4. (Tunnel!Calm /\ clean => Settled)'
  BY DEF Tunnel!Calm, Tunnel!At
<1> QED  BY <1>2, <1>3, <1>4 DEF TunnelInv, TunnelTypes, Turned

(* A job of the options or of the watchdog begins. *)
LEMMA TunnelBegins ==
    ASSUME TunnelInv, NEW j \in TunnelJobs,
           Tunnel!Save(j) \/ Tunnel!Watch(j)
    PROVE  TunnelInv'
<1>1. TunnelTypes
  BY DEF TunnelInv
<1>2. CASE Tunnel!Save(j)
  <2>1. /\ Tunnel!Calm /\ domain' \in {None} \cup Domains /\ tunnelOn' \in BOOLEAN /\ clean' = FALSE
        /\ Tunnel!Goes(j, "listen") /\ UNCHANGED <<tunnelApplied, url, addon, cooling>>
    BY <1>2 DEF Tunnel!Save, Tunnel!Free
  <2>2. Turned(j) /\ tunnelJob'[j].step = "listen"
    BY <1>1, <2>1, TasksTurn DEF TunnelSteps
  <2>3. TunnelWorld'
    BY <1>1, <2>1 DEF TunnelTypes, TunnelWorld, Tunnel!Urls, Tunnel!Addons
  <2>4. ChangeBegins(tunnelJob[j])' /\ Reconciles(tunnelJob[j])' /\ Watches(tunnelJob[j])'
    BY <2>1, <2>2 DEF ChangeBegins, Reconciles, Watches
  <2> QED  BY <2>1, <2>2, <2>3, <2>4, OneJob
<1>3. CASE Tunnel!Watch(j)
  <2>1. /\ Tunnel!Calm /\ domain # None /\ tunnelOn /\ Tunnel!Goes(j, "probe")
        /\ UNCHANGED <<domain, tunnelOn, tunnelApplied, url, addon, cooling, clean>>
    BY <1>3 DEF Tunnel!Watch, Tunnel!Free, Tunnel!options
  <2>2. Turned(j) /\ tunnelJob'[j].step = "probe"
    BY <1>1, <2>1, TasksTurn DEF TunnelSteps
  <2>3. TunnelWorld'
    BY <1>1, <2>1 DEF TunnelTypes, TunnelWorld, Tunnel!Urls, Tunnel!Addons
  <2>4. clean' => Settled'
    BY <2>1 DEF TunnelInv, Settled
  <2>5. ChangeBegins(tunnelJob[j])' /\ Reconciles(tunnelJob[j])' /\ Watches(tunnelJob[j])'
    BY <2>1, <2>2, <2>4 DEF ChangeBegins, Reconciles, Watches
  <2> QED  BY <2>1, <2>2, <2>3, <2>5, OneJob
<1> QED  BY <1>2, <1>3

(* The update listener, the write of the URL, and the boot mode given back. *)
LEMMA TunnelListens ==
    ASSUME TunnelInv, NEW j \in TunnelJobs,
           Tunnel!Listen(j) \/ Tunnel!Advertise(j) \/ Tunnel!Withdraw(j) \/ Tunnel!Restore(j)
    PROVE  TunnelInv'
<1> USE DEF Tunnel!At, Tunnel!options
<1>1. TunnelTypes /\ ChangeBegins(tunnelJob[j]) /\ tunnelJob[j] \in TunnelTasks
  BY DEF TunnelInv, TunnelTypes
<1>2. tunnelJob[j].step \in {"listen", "advertise", "sync", "withdraw", "restore"} /\ ~clean
  BY <1>1 DEF Tunnel!Listen, Tunnel!Advertise, Tunnel!Withdraw, Tunnel!Restore, ChangeBegins
<1>3. tunnelJob[j].dom \in {None} \cup Domains
  BY <1>1 DEF TunnelTasks
<1>4. TunnelWorld'
  <2>1. CASE Tunnel!Listen(j)
    BY <1>1, <2>1 DEF Tunnel!Listen, TunnelTypes, TunnelWorld, Tunnel!Urls, Tunnel!Addons
  <2>2. CASE Tunnel!Advertise(j) \/ Tunnel!Withdraw(j)
    BY <1>1, <1>3, <2>2 DEF Tunnel!Advertise, Tunnel!Withdraw, TunnelTypes, TunnelWorld, Tunnel!Urls, Tunnel!Addons
  <2>3. CASE Tunnel!Restore(j)
    BY <1>1, <2>3 DEF Tunnel!Restore, TunnelTypes, TunnelWorld, Tunnel!Urls, Tunnel!Addons
  <2> QED  BY <2>1, <2>2, <2>3
<1>5. /\ Turned(j)
      /\ ChangeBegins(tunnelJob[j])' /\ Reconciles(tunnelJob[j])' /\ Watches(tunnelJob[j])'
      /\ tunnelJob'[j].step = "idle" /\ clean' => Settled'
  <2>1. CASE Tunnel!Listen(j)
    <3>1. UNCHANGED <<domain, tunnelOn, url, addon, clean>>
      BY <2>1 DEF Tunnel!Listen
    <3>2. \/ domain # None /\ tunnelJob' = [tunnelJob EXCEPT ![j].step = "advertise", ![j].dom = domain]
          \/ domain # None /\ url = domain /\ Tunnel!Reconcile(j)
          \/ domain = None /\ tunnelJob' = [tunnelJob EXCEPT ![j].step = "withdraw", ![j].dom = tunnelApplied]
          \/ domain = None /\ (Tunnel!Ends(j) \/ Tunnel!Goes(j, "restore"))
      BY <2>1 DEF Tunnel!Listen
    <3>3. domain \in {None} \cup Domains /\ tunnelApplied \in {None} \cup Domains
      BY <1>1 DEF TunnelTypes, TunnelWorld
    <3>4. Turned(j) /\ \/ tunnelJob'[j].step = "advertise" /\ tunnelJob'[j].dom = domain
                       \/ /\ tunnelJob'[j].step = "list" /\ tunnelJob'[j].on = tunnelOn
                          /\ domain # None /\ url = domain
                       \/ tunnelJob'[j].step \in {"withdraw", "restore"} /\ domain = None
                       \/ tunnelJob'[j].step = "idle"
      BY <1>1, <3>2, <3>3, TasksTurn DEF TunnelSteps
    <3> QED  BY <1>2, <3>1, <3>4 DEF ChangeBegins, Reconciles, Watches
  <2>2. CASE Tunnel!Advertise(j)
    <3>1. /\ UNCHANGED <<domain, tunnelOn, addon, clean>> /\ tunnelJob[j].dom = domain
          /\ (url' = domain /\ Tunnel!Reconcile(j)) \/ Tunnel!Ends(j)
      BY <1>1, <2>2 DEF Tunnel!Advertise, ChangeBegins
    <3>2. Turned(j) /\ \/ /\ tunnelJob'[j].step = "list" /\ tunnelJob'[j].on = tunnelOn
                          /\ domain # None /\ url' = domain
                       \/ tunnelJob'[j].step = "idle"
      BY <1>1, <3>1, TasksTurn
    <3> QED  BY <1>2, <3>1, <3>2 DEF ChangeBegins, Reconciles, Watches
  <2>3. CASE Tunnel!Withdraw(j)
    <3>1. /\ UNCHANGED <<domain, clean>> /\ domain = None
          /\ Tunnel!Goes(j, "restore") \/ Tunnel!Ends(j)
      BY <1>1, <2>3 DEF Tunnel!Withdraw, ChangeBegins
    <3>2. Turned(j) /\ tunnelJob'[j].step \in {"restore", "idle"}
      BY <1>1, <3>1, TasksTurn DEF TunnelSteps
    <3> QED  BY <1>2, <3>1, <3>2 DEF ChangeBegins, Reconciles, Watches
  <2>4. CASE Tunnel!Restore(j)
    <3>1. /\ UNCHANGED domain /\ domain = None /\ Tunnel!Ends(j)
          /\ addon' = IF addon = None THEN None ELSE [addon EXCEPT !.boot = "auto"]
      BY <1>1, <2>4 DEF Tunnel!Restore, ChangeBegins
    <3>2. Turned(j) /\ tunnelJob'[j].step = "idle"
      BY <1>1, <3>1, TasksTurn
    <3>3. addon' # None => addon'.boot = "auto"
      BY <1>1, <3>1 DEF TunnelTypes, TunnelWorld, Tunnel!Addons
    <3> QED  BY <3>1, <3>2, <3>3 DEF ChangeBegins, Reconciles, Watches, Settled
  <2> QED  BY <2>1, <2>2, <2>3, <2>4
<1> QED  BY <1>2, <1>4, <1>5, OneJob

(* Reconciling, up to the calls that change the add-on. *)
LEMMA TunnelReads ==
    ASSUME TunnelInv, NEW j \in TunnelJobs,
           Tunnel!Fails(j) \/ Tunnel!Discover(j) \/ Tunnel!State(j)
    PROVE  TunnelInv'
<1> USE DEF Tunnel!At, Tunnel!options
<1>1. TunnelTypes /\ Reconciles(tunnelJob[j]) /\ tunnelJob[j] \in TunnelTasks
  BY DEF TunnelInv, TunnelTypes
<1>2. tunnelJob[j].step # "idle" /\ UNCHANGED <<domain, tunnelOn, tunnelApplied, url, addon, cooling>>
  BY DEF Tunnel!Fails, Tunnel!Discover, Tunnel!State
<1>3. clean' \in BOOLEAN
  BY <1>1 DEF Tunnel!Fails, Tunnel!Discover, Tunnel!State, TunnelTypes, TunnelWorld
<1>4. TunnelWorld'
  BY <1>1, <1>2, <1>3 DEF TunnelTypes, TunnelWorld, Tunnel!Urls, Tunnel!Addons
<1>5. /\ Turned(j)
      /\ ChangeBegins(tunnelJob[j])' /\ Reconciles(tunnelJob[j])' /\ Watches(tunnelJob[j])'
      /\ tunnelJob'[j].step = "idle" /\ clean' => Settled'
  <2>1. CASE Tunnel!Fails(j)
    <3>1. ~clean' /\ Turned(j) /\ tunnelJob'[j].step = "idle"
      BY <1>1, <2>1, TasksTurn DEF Tunnel!Fails
    <3> QED  BY <3>1 DEF ChangeBegins, Reconciles, Watches
  <2>2. CASE Tunnel!Discover(j)
    <3>1. tunnelJob[j].step = "list" /\ clean' = clean /\ (Tunnel!Ends(j) \/ Tunnel!Goes(j, "info"))
      BY <2>2 DEF Tunnel!Discover
    <3>2. Turned(j) /\ (tunnelJob'[j].step = "idle" \/ (tunnelJob'[j].step = "info" /\ SameTask(j)))
      BY <1>1, <3>1, TasksTurn DEF TunnelSteps
    <3> QED  BY <1>1, <1>2, <3>1, <3>2 DEF ChangeBegins, Reconciles, Watches, SameTask
  <2>3. CASE Tunnel!State(j)
    <3> DEFINE next == CASE tunnelJob[j].on /\ (~addon.running \/ addon.boot # "auto") -> "auto"
                         [] ~tunnelJob[j].on /\ addon.running -> "stop"
                         [] ~tunnelJob[j].on /\ ~addon.running /\ addon.boot # "manual" -> "manual"
                         [] OTHER -> "idle"
    <3>1. /\ tunnelJob[j].step = "info" /\ addon # None
          /\ IF next = "idle" THEN Tunnel!Ends(j)
             ELSE tunnelJob' = [tunnelJob EXCEPT ![j].step = next, ![j].running = addon.running]
          /\ clean' = (clean \/ (next = "idle" /\ tunnelJob[j].on = tunnelOn))
      BY <2>3 DEF Tunnel!State
    <3>2. addon.running \in BOOLEAN /\ addon.boot \in {"auto", "manual"}
      BY <1>1, <3>1 DEF TunnelTypes, TunnelWorld, Tunnel!Addons
    <3>3. ~clean /\ domain # None /\ url = domain /\ tunnelJob[j].on = tunnelOn
      BY <1>1, <3>1 DEF Reconciles
    <3>4. CASE tunnelJob[j].on /\ (~addon.running \/ addon.boot # "auto")
      <4>1. next = "auto"
        BY <3>4
      <4>2. ~clean' /\ tunnelJob' = [tunnelJob EXCEPT ![j].step = "auto", ![j].running = addon.running]
        BY <3>1, <3>3, <4>1
      <4>3. /\ Turned(j) /\ tunnelJob'[j].step = "auto" /\ tunnelJob'[j].running = addon.running
            /\ tunnelJob'[j].on = tunnelJob[j].on
        BY <1>1, <3>2, <4>2, TasksTurn DEF TunnelSteps
      <4> HIDE DEF next
      <4> QED  BY <1>2, <3>3, <3>4, <4>2, <4>3 DEF ChangeBegins, Reconciles, Watches
    <3>5. CASE ~tunnelJob[j].on /\ addon.running
      <4>1. next = "stop"
        BY <3>5
      <4>2. ~clean' /\ tunnelJob' = [tunnelJob EXCEPT ![j].step = "stop", ![j].running = addon.running]
        BY <3>1, <3>3, <4>1
      <4>3. Turned(j) /\ tunnelJob'[j].step = "stop" /\ tunnelJob'[j].on = tunnelJob[j].on
        BY <1>1, <3>2, <4>2, TasksTurn DEF TunnelSteps
      <4> HIDE DEF next
      <4> QED  BY <1>2, <3>3, <3>5, <4>2, <4>3 DEF ChangeBegins, Reconciles, Watches
    <3>6. CASE ~tunnelJob[j].on /\ ~addon.running /\ addon.boot # "manual"
      <4>1. next = "manual"
        BY <3>6
      <4>2. ~clean' /\ tunnelJob' = [tunnelJob EXCEPT ![j].step = "manual", ![j].running = addon.running]
        BY <3>1, <3>3, <4>1
      <4>3. Turned(j) /\ tunnelJob'[j].step = "manual" /\ tunnelJob'[j].on = tunnelJob[j].on
        BY <1>1, <3>2, <4>2, TasksTurn DEF TunnelSteps
      <4> HIDE DEF next
      <4> QED  BY <1>2, <3>3, <3>6, <4>2, <4>3 DEF ChangeBegins, Reconciles, Watches
    <3>7. CASE /\ ~(tunnelJob[j].on /\ (~addon.running \/ addon.boot # "auto"))
               /\ ~(~tunnelJob[j].on /\ addon.running)
               /\ ~(~tunnelJob[j].on /\ ~addon.running /\ addon.boot # "manual")
      <4>1. next = "idle"
        BY <3>7
      <4>2. Turned(j) /\ tunnelJob'[j].step = "idle"
        BY <1>1, <3>1, <4>1, TasksTurn
      <4>3. addon.running = tunnelOn /\ addon.boot = (IF tunnelOn THEN "auto" ELSE "manual")
        BY <3>2, <3>3, <3>7, <1>1 DEF TunnelTasks
      <4> HIDE DEF next
      <4> QED  BY <1>2, <3>3, <4>2, <4>3 DEF ChangeBegins, Reconciles, Watches, Settled
    <3> QED  BY <3>4, <3>5, <3>6, <3>7
  <2> QED  BY <2>1, <2>2, <2>3
<1> QED  BY <1>2, <1>4, <1>5, OneJob

(* The calls that the Supervisor carries out. *)
LEMMA TunnelCalls ==
    ASSUME TunnelInv, NEW j \in TunnelJobs,
           Tunnel!SetAuto(j) \/ Tunnel!StartAddon(j) \/ Tunnel!StopAddon(j) \/ Tunnel!SetManual(j)
    PROVE  TunnelInv'
<1> USE DEF Tunnel!At, Tunnel!options, Tunnel!Call
<1>1. TunnelTypes /\ Reconciles(tunnelJob[j]) /\ tunnelJob[j] \in TunnelTasks
  BY DEF TunnelInv, TunnelTypes
<1>2. /\ tunnelJob[j].step \in {"auto", "start", "stop", "manual"} /\ addon # None
      /\ UNCHANGED <<domain, tunnelOn, tunnelApplied, url, cooling>>
  BY DEF Tunnel!SetAuto, Tunnel!StartAddon, Tunnel!StopAddon, Tunnel!SetManual
<1>3. /\ addon \in [running : BOOLEAN, boot : {"auto", "manual"}] /\ clean \in BOOLEAN
      /\ tunnelOn \in BOOLEAN /\ tunnelJob[j].running \in BOOLEAN
  BY <1>1, <1>2 DEF TunnelTypes, TunnelWorld, Tunnel!Addons, TunnelTasks
<1>4. ~clean /\ domain # None /\ url = domain /\ tunnelJob[j].on = tunnelOn
  BY <1>1, <1>2 DEF Reconciles
<1>5. /\ Turned(j) /\ addon' \in [running : BOOLEAN, boot : {"auto", "manual"}] /\ clean' \in BOOLEAN
      /\ ChangeBegins(tunnelJob[j])' /\ Reconciles(tunnelJob[j])' /\ Watches(tunnelJob[j])'
      /\ tunnelJob'[j].step = "idle" /\ clean' => Settled'
  <2>1. CASE Tunnel!SetAuto(j)
    <3>1. /\ addon' = [addon EXCEPT !.boot = "auto"] /\ tunnelOn
          /\ tunnelJob[j].running = addon.running
          /\ IF addon.running THEN Tunnel!Ends(j) /\ clean' = (clean \/ tunnelJob[j].on = tunnelOn)
             ELSE Tunnel!Goes(j, "start") /\ clean' = clean
      BY <1>1, <1>2, <2>1 DEF Tunnel!SetAuto, Reconciles
    <3>2. addon' \in [running : BOOLEAN, boot : {"auto", "manual"}] /\ addon'.boot = "auto" /\ addon'.running = addon.running
      BY <1>3, <3>1
    <3>3. Turned(j) /\ \/ addon.running /\ tunnelJob'[j].step = "idle"
                       \/ clean' = clean /\ tunnelJob'[j].step = "start" /\ SameTask(j)
      BY <1>1, <3>1, TasksTurn DEF TunnelSteps
    <3>4. clean' \in BOOLEAN
      BY <1>3, <3>1
    <3>5. CASE addon.running /\ tunnelJob'[j].step = "idle"
      BY <1>2, <1>4, <3>1, <3>2, <3>3, <3>4, <3>5 DEF ChangeBegins, Reconciles, Watches, Settled
    <3>6. CASE clean' = clean /\ tunnelJob'[j].step = "start" /\ SameTask(j)
      BY <1>2, <1>3, <1>4, <3>1, <3>2, <3>3, <3>6 DEF ChangeBegins, Reconciles, Watches, SameTask
    <3> QED  BY <3>3, <3>5, <3>6
  <2>2. CASE Tunnel!StartAddon(j)
    <3>1. /\ addon' = [addon EXCEPT !.running = TRUE] /\ tunnelOn /\ addon.boot = "auto"
          /\ Tunnel!Ends(j) /\ clean' = (clean \/ tunnelJob[j].on = tunnelOn)
      BY <1>1, <1>2, <2>2 DEF Tunnel!StartAddon, Reconciles
    <3>2. addon' \in [running : BOOLEAN, boot : {"auto", "manual"}] /\ addon'.boot = "auto" /\ addon'.running = TRUE
      BY <1>3, <3>1
    <3>3. Turned(j) /\ tunnelJob'[j].step = "idle" /\ clean' \in BOOLEAN
      BY <1>1, <1>3, <3>1, TasksTurn
    <3> QED  BY <1>2, <1>3, <1>4, <3>1, <3>2, <3>3 DEF ChangeBegins, Reconciles, Watches, Settled
  <2>3. CASE Tunnel!StopAddon(j)
    <3>1. addon' = [addon EXCEPT !.running = FALSE] /\ ~tunnelOn /\ clean' = clean /\ Tunnel!Goes(j, "manual")
      BY <1>1, <1>2, <2>3 DEF Tunnel!StopAddon, Reconciles
    <3>2. addon' \in [running : BOOLEAN, boot : {"auto", "manual"}] /\ addon'.running = FALSE
      BY <1>3, <3>1
    <3>3. Turned(j) /\ tunnelJob'[j].step = "manual" /\ SameTask(j)
      BY <1>1, <3>1, TasksTurn DEF TunnelSteps
    <3> QED  BY <1>2, <1>3, <1>4, <3>1, <3>2, <3>3 DEF ChangeBegins, Reconciles, Watches, SameTask
  <2>4. CASE Tunnel!SetManual(j)
    <3>1. /\ addon' = [addon EXCEPT !.boot = "manual"] /\ ~tunnelOn /\ ~addon.running
          /\ Tunnel!Ends(j) /\ clean' = (clean \/ tunnelJob[j].on = tunnelOn)
      BY <1>1, <1>2, <2>4 DEF Tunnel!SetManual, Reconciles
    <3>2. addon' \in [running : BOOLEAN, boot : {"auto", "manual"}] /\ addon'.boot = "manual" /\ addon'.running = addon.running
      BY <1>3, <3>1
    <3>3. Turned(j) /\ tunnelJob'[j].step = "idle" /\ clean' \in BOOLEAN
      BY <1>1, <1>3, <3>1, TasksTurn
    <3> QED  BY <1>2, <1>3, <1>4, <3>1, <3>2, <3>3 DEF ChangeBegins, Reconciles, Watches, Settled
  <2> QED  BY <2>1, <2>2, <2>3, <2>4
<1>6. TunnelWorld'
  BY <1>1, <1>2, <1>5 DEF TunnelTypes, TunnelWorld, Tunnel!Urls, Tunnel!Addons
<1> QED  BY <1>2, <1>5, <1>6, OneJob

(* The watchdog: what it starts is switched on. *)
LEMMA TunnelWatches ==
    ASSUME TunnelInv, NEW j \in TunnelJobs, Tunnel!Probe(j) \/ Tunnel!RestartAddon(j)
    PROVE  TunnelInv'
<1> USE DEF Tunnel!At, Tunnel!options
<1>1. TunnelTypes /\ Watches(tunnelJob[j])
  BY DEF TunnelInv
<1>2. /\ tunnelJob[j].step \in {"probe", "restart"} /\ UNCHANGED <<domain, tunnelOn, tunnelApplied, url, clean>>
      /\ domain # None /\ tunnelOn /\ (clean => Settled)
      /\ addon' = addon \/ (addon # None /\ addon' = [addon EXCEPT !.running = TRUE])
      /\ cooling' = cooling \/ cooling' = TRUE
      /\ Tunnel!Ends(j) \/ Tunnel!Goes(j, "restart")
  BY <1>1 DEF Watches, Tunnel!Probe, Tunnel!RestartAddon
<1>3. Turned(j) /\ tunnelJob'[j].step \in {"idle", "restart"}
  BY <1>1, <1>2, TasksTurn DEF TunnelSteps
<1>4. addon' \in Tunnel!Addons /\ (addon' # addon => addon'.boot = addon.boot /\ addon'.running = TRUE /\ addon # None)
  BY <1>1, <1>2 DEF TunnelTypes, TunnelWorld, Tunnel!Addons
<1>5. TunnelWorld'
  BY <1>1, <1>2, <1>4 DEF TunnelTypes, TunnelWorld, Tunnel!Urls, Tunnel!Addons
<1>6. clean' => Settled'
  BY <1>2, <1>4 DEF Settled
<1>7. ChangeBegins(tunnelJob[j])' /\ Reconciles(tunnelJob[j])' /\ Watches(tunnelJob[j])'
  BY <1>2, <1>3, <1>6 DEF ChangeBegins, Reconciles, Watches
<1> QED  BY <1>2, <1>3, <1>5, <1>6, <1>7, OneJob

(* What else happens, happens when no job goes on, or is a start of the hub. *)
LEMMA TunnelRestKeeps ==
    ASSUME TunnelInv,
           \/ Tunnel!Cooled \/ Tunnel!Meddle \/ UNCHANGED Tunnel!vars
           \/ \E j \in TunnelJobs : Tunnel!SetUrl(j) \/ Tunnel!Boot(j)
    PROVE  TunnelInv'
<1> USE DEF Tunnel!At, Tunnel!options
<1>1. TunnelTypes
  BY DEF TunnelInv
<1>2. CASE Tunnel!Cooled \/ UNCHANGED Tunnel!vars
  <2>1. UNCHANGED <<domain, tunnelOn, tunnelApplied, url, tunnelJob, addon, clean>> /\ cooling' \in BOOLEAN
    BY <1>1, <1>2 DEF Tunnel!Cooled, Tunnel!vars, TunnelTypes, TunnelWorld
  <2>2. TunnelTypes'
    BY <1>1, <2>1 DEF TunnelTypes, TunnelWorld, Tunnel!Urls, Tunnel!Addons
  <2> QED  BY <2>1, <2>2 DEF TunnelInv, ChangeBegins, Reconciles, Watches, Settled, Tunnel!Calm
<1>3. CASE Tunnel!Meddle
  <2>1. /\ UNCHANGED <<domain, tunnelOn, tunnelApplied, url, tunnelJob, cooling>> /\ clean' = FALSE
        /\ addon' \in Tunnel!Addons /\ \A k \in TunnelJobs : tunnelJob[k].step = "idle"
    BY <1>3 DEF Tunnel!Meddle, Tunnel!Calm
  <2>2. TunnelTypes'
    BY <1>1, <2>1 DEF TunnelTypes, TunnelWorld, Tunnel!Urls, Tunnel!Addons
  <2> QED  BY <2>1, <2>2 DEF TunnelInv, ChangeBegins, Reconciles, Watches
<1>4. ASSUME NEW j \in TunnelJobs, Tunnel!SetUrl(j) PROVE TunnelInv'
  <2>1. PICK u \in {Path} \cup Domains :
          /\ url' = u /\ tunnelApplied' = domain
          /\ IF u = Path \/ u = domain THEN UNCHANGED <<domain, tunnelOn>> /\ UNCHANGED tunnelJob
             ELSE domain' = u /\ tunnelOn' = (domain = None \/ tunnelOn) /\ Tunnel!Goes(j, "listen")
    BY <1>4 DEF Tunnel!SetUrl
  <2>2. Tunnel!Calm /\ clean' = FALSE /\ UNCHANGED <<addon, cooling>>
    BY <1>4 DEF Tunnel!SetUrl, Tunnel!Free
  <2>3. url' \in Tunnel!Urls /\ tunnelApplied' \in {None} \cup Domains /\ tunnelOn' \in BOOLEAN
        /\ domain' \in {None} \cup Domains
    BY <1>1, <2>1 DEF TunnelTypes, TunnelWorld, Tunnel!Urls
  <2>4. TunnelWorld'
    BY <1>1, <2>2, <2>3 DEF TunnelTypes, TunnelWorld, Tunnel!Urls, Tunnel!Addons
  <2>5. CASE UNCHANGED tunnelJob
    BY <1>1, <2>2, <2>4, <2>5 DEF TunnelInv, TunnelTypes, Tunnel!Calm, ChangeBegins, Reconciles, Watches
  <2>6. CASE Tunnel!Goes(j, "listen")
    <3>1. Turned(j) /\ tunnelJob'[j].step = "listen"
      BY <1>1, <2>6, TasksTurn DEF TunnelSteps
    <3>2. ChangeBegins(tunnelJob[j])' /\ Reconciles(tunnelJob[j])' /\ Watches(tunnelJob[j])'
      BY <2>2, <3>1 DEF ChangeBegins, Reconciles, Watches
    <3> QED  BY <2>2, <2>4, <3>1, <3>2, OneJob
  <2> QED  BY <2>1, <2>5, <2>6
<1>5. ASSUME NEW j \in TunnelJobs, Tunnel!Boot(j) PROVE TunnelInv'
  <2>1. \E t \in {[Tunnel!Idle EXCEPT !.step = "sync", !.dom = domain],
                  [Tunnel!Idle EXCEPT !.step = "list", !.on = tunnelOn], Tunnel!Idle} :
          /\ tunnelJob' = [k \in TunnelJobs |-> IF k = j THEN t ELSE Tunnel!Idle]
          /\ t = [Tunnel!Idle EXCEPT !.step = "list", !.on = tunnelOn] => domain # None /\ url = domain
    <3>1. CASE domain # None /\ url # domain
      <4>1. [Tunnel!Idle EXCEPT !.step = "sync", !.dom = domain].step = "sync"
            /\ [Tunnel!Idle EXCEPT !.step = "list", !.on = tunnelOn].step = "list"
        BY DEF Tunnel!Idle
      <4> HIDE DEF Tunnel!Idle
      <4> QED  BY <1>5, <3>1, <4>1 DEF Tunnel!Boot
    <3>2. CASE domain # None /\ url = domain
      BY <1>5, <3>2 DEF Tunnel!Boot
    <3>3. CASE domain = None
      <4>1. Tunnel!Idle # [Tunnel!Idle EXCEPT !.step = "list", !.on = tunnelOn]
        BY DEF Tunnel!Idle
      <4> QED  BY <1>5, <3>3, <4>1 DEF Tunnel!Boot
    <3> QED  BY <3>1, <3>2, <3>3
  <2>2. PICK t \in TunnelTasks :
          /\ tunnelJob' = [k \in TunnelJobs |-> IF k = j THEN t ELSE Tunnel!Idle]
          /\ \/ t.step = "idle"
             \/ t.step = "sync" /\ t.dom = domain
             \/ t.step = "list" /\ t.on = tunnelOn /\ domain # None /\ url = domain
    <3>1. domain \in {None} \cup Domains /\ tunnelOn \in BOOLEAN
      BY <1>1 DEF TunnelTypes, TunnelWorld
    <3>2. /\ [Tunnel!Idle EXCEPT !.step = "sync", !.dom = domain] \in TunnelTasks
          /\ [Tunnel!Idle EXCEPT !.step = "sync", !.dom = domain].step = "sync"
          /\ [Tunnel!Idle EXCEPT !.step = "sync", !.dom = domain].dom = domain
      BY <3>1 DEF Tunnel!Idle, TunnelTasks, TunnelSteps
    <3>3. /\ [Tunnel!Idle EXCEPT !.step = "list", !.on = tunnelOn] \in TunnelTasks
          /\ [Tunnel!Idle EXCEPT !.step = "list", !.on = tunnelOn].step = "list"
          /\ [Tunnel!Idle EXCEPT !.step = "list", !.on = tunnelOn].on = tunnelOn
      BY <3>1 DEF Tunnel!Idle, TunnelTasks, TunnelSteps
    <3>4. Tunnel!Idle \in TunnelTasks /\ Tunnel!Idle.step = "idle"
      BY DEF Tunnel!Idle, TunnelTasks, TunnelSteps
    <3> QED  BY <2>1, <3>2, <3>3, <3>4
  <2>3. Tunnel!Idle \in TunnelTasks /\ Tunnel!Idle.step = "idle"
    BY DEF Tunnel!Idle, TunnelTasks, TunnelSteps
  <2>4. tunnelJob' \in [TunnelJobs -> TunnelTasks] /\ tunnelJob'[j] = t
        /\ \A k \in TunnelJobs : k # j => tunnelJob'[k].step = "idle"
    BY <2>2, <2>3
  <2>5. clean' = FALSE /\ cooling' = FALSE /\ UNCHANGED <<domain, tunnelOn, url>>
        /\ tunnelApplied' \in {None, domain}
    BY <1>5 DEF Tunnel!Boot
  <2>6. addon' \in Tunnel!Addons
    <3>1. CASE addon = None
      BY <1>5, <3>1 DEF Tunnel!Boot, Tunnel!Addons
    <3>2. CASE addon # None
      <4>1. addon \in [running : BOOLEAN, boot : {"auto", "manual"}]
        BY <1>1, <3>2 DEF TunnelTypes, TunnelWorld, Tunnel!Addons
      <4>2. (addon.boot = "auto") \in BOOLEAN
        OBVIOUS
      <4>3. [addon EXCEPT !.running = (addon.boot = "auto")] \in [running : BOOLEAN, boot : {"auto", "manual"}]
        BY <4>1, <4>2
      <4>4. addon' = [addon EXCEPT !.running = (addon.boot = "auto")] \/ addon' = addon
        BY <1>5, <3>2 DEF Tunnel!Boot
      <4> QED  BY <4>1, <4>3, <4>4 DEF Tunnel!Addons
    <3> QED  BY <3>1, <3>2
  <2>7. TunnelWorld'
    BY <1>1, <2>5, <2>6 DEF TunnelTypes, TunnelWorld, Tunnel!Urls, Tunnel!Addons
  <2> QED  BY <2>2, <2>4, <2>5, <2>7 DEF TunnelInv, TunnelTypes, ChangeBegins, Reconciles, Watches
<1> QED  BY <1>2, <1>3, <1>4, <1>5

LEMMA TunnelKept == TunnelInv /\ [Tunnel!Next]_(Tunnel!vars) => TunnelInv'
BY TunnelBegins, TunnelListens, TunnelReads, TunnelCalls, TunnelWatches, TunnelRestKeeps DEF Tunnel!Next

(* For any domains and jobs: once the jobs are done and went well, the add-on   *)
(* and the advertised URL are as the options say.                               *)
THEOREM TunnelEndsAsSaved == Tunnel!Spec => []Tunnel!TunnelAsSaved
<1>1. TunnelInv => Tunnel!TunnelAsSaved
  BY DEF TunnelInv, Settled, Tunnel!TunnelAsSaved
<1> QED  BY <1>1, TunnelStarts, TunnelKept, PTL DEF Tunnel!Spec

-----------------------------------------------------------------------------
(* The push relay (Relay), when a person submits while the hub is not being set up. *)

RelayEntries == [relay : {None} \cup Relays, code : 0 .. MaxCodes, req : 0 .. MaxCodes]
Snapshots == [relay : {None} \cup Relays, req : 0 .. MaxCodes]
Registrars == [relay : Relays, code : 0 .. MaxCodes, step : {"try", "sent", "done"}]

RelayTypes ==
    /\ entry \in RelayEntries /\ relayApplied \in {None} \cup Snapshots
    /\ push \in {None} \cup Relays /\ reg \in {None} \cup Registrars
    /\ entryState \in Relay!Phases /\ listening \in BOOLEAN
    /\ aims \in Seq(Relays) /\ Len(aims) <= MaxCodes /\ reloads \in 0 .. Len(aims)
    /\ told \subseteq Relays \X (0 .. Len(aims))

(* What was applied is what is saved. *)
Current == relayApplied \in Snapshots /\ relayApplied.relay = entry.relay

(* What runs was started for the relay that is saved, since it ends when a      *)
(* person saves another, and has the code that is saved until it is accepted.   *)
RelayRuns ==
    /\ entryState \in {"down", "starting", "identity", "unloading", "failed"} => push = None /\ reg = None
    /\ entryState = "identity" => Current /\ entry.relay # None
    /\ push # None => Current /\ push = entry.relay
    /\ reg # None => /\ Current /\ reg.relay = entry.relay
                     /\ reg.step # "done" => reg.code = entry.code
                     /\ reg.step = "sent" => <<reg.relay, reg.code>> \in told

CodesKept ==
    /\ entry.code # 0 => entry.code = Len(aims) /\ aims[Len(aims)] = entry.relay
    /\ \A t \in told : t[2] # 0 => aims[t[2]] = t[1]
    /\ entry.code = 0 /\ aims # <<>> => <<aims[Len(aims)], Len(aims)>> \in told

RelayInv == RelayTypes /\ RelayRuns /\ CodesKept

LEMMA RelayStarts == Relay!Init => RelayInv
<1> SUFFICES ASSUME Relay!Init PROVE RelayInv
  OBVIOUS
<1>1. /\ entryState = "down" /\ listening = FALSE /\ reloads = 0
      /\ relayApplied = None /\ push = None /\ reg = None /\ told = {}
  BY DEF Relay!Init
<1>2. PICK r \in Relays :
        \/ entry = [relay |-> r, code |-> 1, req |-> 0] /\ aims = <<r>>
        \/ \E s \in {None, r} : entry = [relay |-> s, code |-> 0, req |-> 0] /\ aims = <<>>
  BY DEF Relay!Init
<1>3. entry \in RelayEntries /\ aims \in Seq(Relays) /\ Len(aims) <= MaxCodes /\ Len(aims) \in Nat
  <2>1. 0 \in 0 .. MaxCodes /\ 1 \in 0 .. MaxCodes /\ 1 <= MaxCodes /\ 0 <= MaxCodes
    BY RelayAssumption
  <2>2. CASE entry = [relay |-> r, code |-> 1, req |-> 0] /\ aims = <<r>>
    BY <2>1, <2>2 DEF RelayEntries
  <2>3. ASSUME NEW s \in {None, r}, entry = [relay |-> s, code |-> 0, req |-> 0], aims = <<>>
        PROVE  entry \in RelayEntries /\ aims \in Seq(Relays) /\ Len(aims) <= MaxCodes /\ Len(aims) \in Nat
    BY <2>1, <2>3 DEF RelayEntries
  <2> QED  BY <1>2, <2>2, <2>3
<1>4. RelayTypes
  <2>1. reloads \in 0 .. Len(aims)
    BY <1>1, <1>3
  <2>2. told \subseteq Relays \X (0 .. Len(aims))
    BY <1>1
  <2>3. entryState \in Relay!Phases /\ listening \in BOOLEAN
    BY <1>1 DEF Relay!Phases
  <2> QED  BY <1>1, <1>3, <2>1, <2>2, <2>3 DEF RelayTypes
<1>5. CodesKept
  BY <1>1, <1>2 DEF CodesKept
<1> QED  BY <1>1, <1>4, <1>5 DEF RelayInv, RelayRuns

(* A person submits a relay with a code: nothing runs until the reload. *)
LEMMA SubmitKeeps ==
    ASSUME RelayInv, NEW r \in Relays, Relay!Submit(r)
    PROVE  RelayInv'
<1> DEFINE saved1 == [relay |-> r, code |-> Len(aims) + 1, req |-> Len(aims) + 1]
<1>1. /\ aims \in Seq(Relays) /\ Len(aims) \in Nat /\ MaxCodes \in Nat /\ Len(aims) < MaxCodes
      /\ reloads \in 0 .. Len(aims) /\ RelayTypes
  BY RelayAssumption DEF RelayInv, RelayTypes, Relay!Submit, Relay!Submitted, Relay!MaySubmit, Relay!Last
<1>2. /\ aims' = Append(aims, r) /\ push' = None /\ reg' = None
      /\ UNCHANGED <<relayApplied, entryState, listening, told>>
      /\ entryState \notin {"identity", "late"}
      /\ Relay!Update(saved1)
  BY DEF Relay!Submit, Relay!Submitted, Relay!Quiesce, Relay!MaySubmit, Relay!Last
<1>3. entry' = saved1 /\ reloads' \in {reloads, reloads + 1}
  BY <1>1, <1>2 DEF Relay!Update
<1>4. /\ aims' \in Seq(Relays) /\ Len(aims') = Len(aims) + 1 /\ aims'[Len(aims) + 1] = r
      /\ \A i \in 1 .. Len(aims) : aims'[i] = aims[i]
  BY <1>1, <1>2
<1>5. entry' \in RelayEntries /\ entry'.code = Len(aims') /\ entry'.code # 0 /\ entry'.relay = r
  BY <1>1, <1>3, <1>4 DEF RelayEntries
<1>6. RelayTypes'
  <2>1. Len(aims') <= MaxCodes /\ reloads' \in 0 .. Len(aims')
    BY <1>1, <1>3, <1>4
  <2>2. told' \subseteq Relays \X (0 .. Len(aims'))
    BY <1>1, <1>2, <1>4 DEF RelayTypes
  <2> QED  BY <1>1, <1>2, <1>4, <1>5, <2>1, <2>2 DEF RelayTypes, Snapshots, Relay!Phases
<1>7. CodesKept'
  <2>1. \A t \in told : t[2] # 0 => t[2] \in 1 .. Len(aims) /\ aims[t[2]] = t[1]
    BY <1>1 DEF RelayInv, RelayTypes, CodesKept
  <2> QED  BY <1>2, <1>4, <1>5, <2>1 DEF CodesKept
<1>8. RelayRuns'
  BY <1>2 DEF RelayRuns
<1> QED  BY <1>6, <1>7, <1>8 DEF RelayInv

(* The registrar sends the code that is saved, and a success takes that one out. *)
LEMMA RegistrarKeeps ==
    ASSUME RelayInv, Relay!Post \/ Relay!Retry \/ Relay!Accepted \/ Relay!Refused
    PROVE  RelayInv'
<1>1. /\ reg # None /\ reg \in Registrars /\ Current /\ reg.relay = entry.relay
      /\ entryState \notin {"down", "starting", "identity", "unloading", "failed"}
      /\ UNCHANGED <<relayApplied, push, entryState, listening, reloads, aims>>
  <2>1. reg # None
    BY DEF Relay!Post, Relay!Retry, Relay!Accepted, Relay!Refused, Relay!Sent
  <2>2. Current /\ reg.relay = entry.relay
    BY <2>1 DEF RelayInv, RelayRuns
  <2>3. CASE Relay!Accepted
    <3>1. Relay!Update([entry EXCEPT !.code = 0, !.req = 0])
          /\ UNCHANGED <<relayApplied, push, entryState, listening, aims>>
      BY <2>3 DEF Relay!Accepted, Relay!history
    <3>2. [entry EXCEPT !.code = 0, !.req = 0].code = 0
      BY DEF RelayInv, RelayTypes, RelayEntries
    <3>3. reloads' = reloads
      BY <3>1, <3>2 DEF Relay!Update
    <3> QED  BY <2>1, <2>2, <3>1, <3>3 DEF RelayInv, RelayTypes, RelayRuns
  <2>4. CASE ~Relay!Accepted
    BY <2>1, <2>2, <2>4 DEF Relay!Post, Relay!Retry, Relay!Refused, Relay!history, RelayInv, RelayTypes, RelayRuns
  <2> QED  BY <2>3, <2>4
<1>2. /\ entry \in RelayEntries /\ Len(aims) \in Nat /\ RelayTypes /\ MaxCodes \in Nat
      /\ reg.relay \in Relays /\ reg.code \in 0 .. MaxCodes
  BY <1>1, RelayAssumption DEF RelayInv, RelayTypes, Registrars
<1>3. CASE Relay!Post
  <2>1. /\ reg.step = "try" /\ reg' = [reg EXCEPT !.step = "sent"] /\ entry' = entry
        /\ told' = told \cup {<<reg.relay, reg.code>>}
    BY <1>3 DEF Relay!Post
  <2>2. reg' \in Registrars /\ reg'.relay = reg.relay /\ reg'.code = reg.code /\ reg'.step = "sent"
    BY <1>1, <2>1 DEF Registrars
  <2>3. reg.code = entry.code /\ (entry.code # 0 => entry.code = Len(aims) /\ aims[Len(aims)] = entry.relay)
    BY <1>1, <2>1 DEF RelayInv, RelayRuns, CodesKept
  <2>4. told' \subseteq Relays \X (0 .. Len(aims))
    BY <1>2, <2>1, <2>3 DEF RelayTypes
  <2>5. RelayTypes'
    BY <1>1, <1>2, <2>1, <2>2, <2>4 DEF RelayTypes, Relay!Phases, Snapshots, RelayEntries
  <2>6. CodesKept'
    BY <1>1, <2>1, <2>3 DEF RelayInv, CodesKept
  <2>7. RelayRuns'
    BY <1>1, <2>1, <2>2, <2>3 DEF RelayInv, RelayRuns, Current, Snapshots
  <2> QED  BY <2>5, <2>6, <2>7 DEF RelayInv
<1>4. CASE Relay!Retry \/ Relay!Refused
  <2>1. /\ UNCHANGED <<entry, told>>
        /\ \/ reg.step = "sent" /\ reg' = [reg EXCEPT !.step = "try"]
           \/ reg' = [reg EXCEPT !.step = "done", !.code = 0]
    BY <1>4 DEF Relay!Retry, Relay!Refused, Relay!Sent, Relay!history
  <2>2. /\ reg' \in Registrars /\ reg'.relay = reg.relay /\ reg'.step \in {"try", "done"}
        /\ reg'.step # "done" => reg'.code = reg.code /\ reg.step = "sent"
    <3>1. 0 \in 0 .. MaxCodes
      BY <1>2
    <3> QED  BY <1>1, <2>1, <3>1 DEF Registrars
  <2>3. RelayTypes'
    BY <1>1, <1>2, <2>1, <2>2 DEF RelayTypes, Relay!Phases, Snapshots, RelayEntries
  <2>4. RelayRuns'
    BY <1>1, <2>1, <2>2 DEF RelayInv, RelayRuns, Current, Snapshots
  <2> QED  BY <1>1, <2>1, <2>3, <2>4 DEF RelayInv, CodesKept
<1>5. CASE Relay!Accepted
  <2> DEFINE cut == [entry EXCEPT !.code = 0, !.req = 0]
  <2>1. /\ reg.step = "sent" /\ reg' = [reg EXCEPT !.step = "done", !.code = 0] /\ told' = told
        /\ Relay!Update(cut)
    BY <1>5 DEF Relay!Accepted, Relay!Sent, Relay!history
  <2>2. cut \in RelayEntries /\ cut.relay = entry.relay /\ cut.code = 0
    <3>1. 0 \in 0 .. MaxCodes
      BY <1>2
    <3> QED  BY <1>2, <3>1 DEF RelayEntries
  <2>3. entry' = cut
    BY <1>1, <2>1, <2>2 DEF Relay!Update, Relay!ReloadRequired, Current
  <2>4. reg' \in Registrars /\ reg'.relay = reg.relay /\ reg'.step = "done"
    <3>1. 0 \in 0 .. MaxCodes
      BY <1>2
    <3> QED  BY <1>1, <2>1, <3>1 DEF Registrars
  <2> HIDE DEF cut
  <2>5. RelayTypes'
    BY <1>1, <1>2, <2>1, <2>2, <2>3, <2>4 DEF RelayTypes, Relay!Phases, Snapshots, RelayEntries
  <2>6. CodesKept'
    <3>1. <<reg.relay, reg.code>> \in told /\ reg.code = entry.code
      BY <1>1, <2>1 DEF RelayInv, RelayRuns
    <3> QED  BY <1>1, <2>1, <2>2, <2>3, <3>1 DEF RelayInv, CodesKept
  <2>7. RelayRuns'
    BY <1>1, <2>2, <2>3, <2>4 DEF RelayInv, RelayRuns, Current, Snapshots
  <2> QED  BY <2>5, <2>6, <2>7 DEF RelayInv
<1> QED  BY <1>3, <1>4, <1>5

(* Set-up takes in what is saved, and starts what runs from that. *)
LEMMA SetUpKeeps ==
    ASSUME RelayInv, Relay!Start \/ Relay!StartPush \/ Relay!GoPush \/ Relay!Up
    PROVE  RelayInv'
<1>1. RelayTypes /\ entry \in RelayEntries /\ Len(aims) \in Nat /\ reloads \in 0 .. Len(aims)
  BY DEF RelayInv, RelayTypes
<1>2. UNCHANGED <<entry, aims, told>> /\ entryState' \in Relay!Phases
  BY DEF Relay!Start, Relay!StartPush, Relay!GoPush, Relay!Up, Relay!history, Relay!Phases
<1>3. CodesKept'
  BY <1>2 DEF RelayInv, CodesKept
<1>4. Relay!Snapshot \in Snapshots /\ Relay!Snapshot.relay = entry.relay
  BY <1>1 DEF Relay!Snapshot, Snapshots, RelayEntries
<1>5. CASE Relay!Start \/ Relay!StartPush
  <2>1. /\ UNCHANGED <<push, reg, listening>> /\ push = None /\ reg = None
        /\ relayApplied' = Relay!Snapshot \/ relayApplied' = relayApplied
        /\ entryState' = "identity" => relayApplied' = Relay!Snapshot /\ entry.relay # None
    BY <1>5 DEF Relay!Start, Relay!StartPush, RelayInv, RelayRuns
  <2>2. reloads' \in 0 .. Len(aims)
    BY <1>1, <1>5 DEF Relay!Start, Relay!StartPush
  <2>3. RelayTypes'
    BY <1>1, <1>2, <1>4, <2>1, <2>2 DEF RelayTypes, Snapshots, Relay!Phases, RelayEntries
  <2>4. RelayRuns'
    BY <1>2, <1>4, <2>1 DEF RelayRuns, Current, Snapshots
  <2> QED  BY <1>3, <2>3, <2>4 DEF RelayInv
<1>6. CASE Relay!GoPush
  <2>1. /\ Current /\ entry.relay # None /\ push = None /\ reg = None
        /\ UNCHANGED <<relayApplied, listening, reloads>> /\ entryState' = "late"
        /\ \/ push' = entry.relay /\ reg' = [relay |-> entry.relay, code |-> entry.code, step |-> "try"]
           \/ push' = None /\ reg' = None
    BY <1>6 DEF Relay!GoPush, RelayInv, RelayRuns, Current
  <2>2. push' \in {None, entry.relay} /\ entry.relay \in Relays
    BY <1>1, <2>1 DEF RelayEntries
  <2>3. reg' = None \/ (reg' \in Registrars /\ reg'.relay = entry.relay /\ reg'.code = entry.code /\ reg'.step = "try")
    BY <1>1, <2>1, <2>2 DEF Registrars, RelayEntries
  <2>4. RelayTypes'
    BY <1>1, <1>2, <2>1, <2>2, <2>3 DEF RelayTypes, Snapshots, Relay!Phases, RelayEntries
  <2>5. RelayRuns'
    BY <1>2, <2>1, <2>2, <2>3 DEF RelayRuns, Current, Snapshots
  <2> QED  BY <1>3, <2>4, <2>5 DEF RelayInv
<1>7. CASE Relay!Up
  <2>1. UNCHANGED <<relayApplied, push, reg, reloads>> /\ listening' = TRUE /\ entryState' = "up"
    BY <1>7 DEF Relay!Up, Relay!runtime
  <2>2. RelayTypes'
    BY <1>1, <1>2, <2>1 DEF RelayTypes, Snapshots, Relay!Phases, RelayEntries
  <2>3. RelayRuns'
    BY <1>2, <2>1 DEF RelayInv, RelayRuns, Current, Snapshots
  <2> QED  BY <1>3, <2>2, <2>3 DEF RelayInv
<1> QED  BY <1>5, <1>6, <1>7

(* Whatever ends the hub's set-up, or begins its unload, ends what runs. *)
LEMMA UnloadKeeps ==
    ASSUME RelayInv,
           \/ Relay!SetupFails \/ Relay!Reload \/ Relay!Unloaded \/ Relay!ReloadRefused
           \/ Relay!Restart \/ UNCHANGED Relay!vars
    PROVE  RelayInv'
<1>1. RelayTypes /\ Len(aims) \in Nat /\ reloads \in 0 .. Len(aims)
  BY DEF RelayInv, RelayTypes
<1>2. UNCHANGED <<entry, aims, told>>
  BY DEF Relay!SetupFails, Relay!Reload, Relay!Unloaded, Relay!ReloadRefused, Relay!Restart,
         Relay!vars, Relay!history
<1>3. CodesKept'
  BY <1>2 DEF RelayInv, CodesKept
<1>4. CASE UNCHANGED Relay!vars
  BY <1>4 DEF Relay!vars, Relay!runtime, Relay!history, RelayInv, RelayTypes, RelayRuns, CodesKept, Current,
       Snapshots, Relay!Phases, RelayEntries, Registrars
<1>5. CASE ~(UNCHANGED Relay!vars)
  <2>1. push' = None /\ reg' = None
    BY <1>5 DEF Relay!SetupFails, Relay!Reload, Relay!Unloaded, Relay!ReloadRefused, Relay!Restart,
         Relay!Quiesce, RelayInv, RelayRuns
  <2>2. /\ entryState' \in {"down", "unloading", "failed"} /\ listening' \in BOOLEAN
        /\ relayApplied' \in {None, relayApplied} /\ reloads' \in 0 .. Len(aims)
    <3>1. listening \in BOOLEAN
      BY <1>1 DEF RelayTypes
    <3>2. \/ reloads' \in {reloads, 0}
          \/ reloads > 0 /\ reloads' = reloads - 1
      BY <1>5 DEF Relay!SetupFails, Relay!Reload, Relay!Unloaded, Relay!ReloadRefused, Relay!Restart
    <3>3. reloads' \in 0 .. Len(aims)
      BY <1>1, <3>2
    <3>4. /\ entryState' \in {"down", "unloading", "failed"} /\ listening' \in {listening, FALSE}
          /\ relayApplied' \in {None, relayApplied}
      BY <1>5 DEF Relay!SetupFails, Relay!Reload, Relay!Unloaded, Relay!ReloadRefused, Relay!Restart
    <3> QED  BY <3>1, <3>3, <3>4
  <2>3. RelayTypes'
    BY <1>1, <1>2, <2>1, <2>2 DEF RelayTypes, Snapshots, Relay!Phases, RelayEntries
  <2> QED  BY <1>3, <2>1, <2>2, <2>3 DEF RelayInv, RelayRuns
<1> QED  BY <1>4, <1>5

LEMMA RelayKept == RelayInv /\ [Relay!Next]_(Relay!vars) => RelayInv'
BY SubmitKeeps, RegistrarKeeps, SetUpKeeps, UnloadKeeps DEF Relay!Next

(* For any relays and codes: what runs uses the relay that is saved, no relay   *)
(* is sent another's code, and the last code stays until its relay has it.      *)
THEOREM RelayUsesWhatIsSaved == Relay!Spec => []Relay!RelayAsSaved
<1>1. RelayInv => Relay!RelayAsSaved
  BY DEF RelayInv, RelayRuns, CodesKept, Relay!RelayAsSaved, Relay!Last
<1> QED  BY <1>1, RelayStarts, RelayKept, PTL DEF Relay!Spec

LEMMA OptionsTyped ==
    /\ TunnelInv => Tunnel!TypeOK
    /\ RelayInv => Relay!TypeOK
<1>1. ASSUME TunnelInv PROVE Tunnel!TypeOK
  BY <1>1 DEF TunnelInv, TunnelTypes, TunnelWorld, TunnelTasks, Tunnel!TypeOK
<1>2. ASSUME RelayInv PROVE Relay!TypeOK
  <2>1. Len(aims) \in Nat /\ Len(aims) <= MaxCodes /\ MaxCodes \in Nat /\ aims \in Seq(Relays)
    BY <1>2, RelayAssumption DEF RelayInv, RelayTypes
  <2>2. /\ entry.relay \in {None} \cup Relays /\ {entry.code, entry.req} \subseteq 0 .. MaxCodes
        /\ relayApplied # None => relayApplied.req \in 0 .. MaxCodes
        /\ reg # None => reg.relay \in Relays /\ reg.step \in {"try", "sent", "done"}
    BY <1>2 DEF RelayInv, RelayTypes, RelayEntries, Snapshots, Registrars
  <2>3. reloads \in 0 .. MaxCodes /\ told \subseteq Relays \X (0 .. MaxCodes)
    BY <1>2, <2>1 DEF RelayInv, RelayTypes
  <2> QED  BY <1>2, <2>1, <2>2, <2>3 DEF RelayInv, RelayTypes, Relay!TypeOK
<1> QED  BY <1>1, <1>2

-----------------------------------------------------------------------------
(* The water tanks (Tank). *)

AddSteps == {"idle", "clear", "create", "start", "wait", "undo"}
Provisions == [step : AddSteps, shelly : {None} \cup Shellies, token : 0 .. MaxMints]
Deletes == [step : {"idle", "script", "delete"}, shelly : {None} \cup Shellies, token : 0 .. MaxMints]

TankTypes ==
    /\ record \in [Shellies -> {None} \cup 1 .. MaxMints] /\ minted \in 0 .. MaxMints
    /\ reading \in [Shellies -> {None, "fresh", "stale"}]
    /\ scripts \in [Shellies -> SUBSET [token : 1 .. MaxMints, runs : BOOLEAN]]
    /\ add \in [Adds -> Provisions] /\ removal \in [Removals -> Deletes]
    /\ \A a \in Adds : add[a].step # "idle" => add[a].shelly \in Shellies /\ add[a].token \in 1 .. minted
    /\ \A r \in Removals : removal[r].step # "idle" => removal[r].shelly \in Shellies
    /\ \A s \in Shellies : record[s] = None \/ record[s] \in 1 .. minted

(* A provision under way has its record unless a request deleted it, and a token *)
(* that is its own: what it undoes is nobody else's.                             *)
OwnTokens ==
    /\ \A x \in answered : x.shelly \in Shellies /\ x.token \in 1 .. minted
    /\ \A a \in Adds : add[a].step # "idle" =>
         /\ record[add[a].shelly] = add[a].token \/ add[a].token \in deleted
         /\ \A x \in answered : x.token # add[a].token
         /\ \A b \in Adds : b # a /\ add[b].step # "idle" => add[b].token # add[a].token

ProvisionInv == TankTypes /\ OwnTokens /\ Tank!ProvisionKept

SweepTasks == [step : {"idle", "next", "emit"}, kind : {None} \cup Tank!Kinds,
               left : SUBSET Shellies, stale : SUBSET Shellies, at : {None} \cup Shellies]

(* A push that is on its way has its mark, and is the only one for that mark. *)
AlertInv ==
    /\ marks \subseteq Tank!Kinds \X Shellies /\ pushed \in [Tank!Kinds \X Shellies -> 0 .. 1]
    /\ \A x \in Tank!Kinds \X Shellies : pushed[x] = 1 => x \in marks
    /\ sweep \in [Sweeps -> SweepTasks]
    /\ \A w \in Sweeps : sweep[w].step = "emit" =>
         /\ <<sweep[w].kind, sweep[w].at>> \in marks
         /\ pushed[<<sweep[w].kind, sweep[w].at>>] = 0
         /\ \A v \in Sweeps : v # w /\ sweep[v].step = "emit" =>
              <<sweep[v].kind, sweep[v].at>> # <<sweep[w].kind, sweep[w].at>>

LEMMA TankConstants == /\ MaxMints \in Nat /\ 0 \in 0 .. MaxMints /\ None \notin Nat
                       /\ \A k \in 1 .. MaxMints : k # None
BY TankAssumption

LEMMA TankStarts == Tank!Init => ProvisionInv /\ AlertInv
<1> SUFFICES ASSUME Tank!Init PROVE ProvisionInv /\ AlertInv
  OBVIOUS
<1>1. /\ Tank!Idle \in Provisions /\ Tank!Idle \in Deletes /\ Tank!Idle.step = "idle"
      /\ Tank!NoSweep.step = "idle"
  BY TankConstants DEF Tank!Idle, Tank!NoSweep, Provisions, AddSteps, Deletes
<1>2. \A a \in Adds : add[a].step = "idle"
  BY <1>1 DEF Tank!Init
<1>3. \A r \in Removals : removal[r].step = "idle"
  BY <1>1 DEF Tank!Init
<1>4. minted \in 0 .. MaxMints
  BY TankConstants DEF Tank!Init
<1>5. TankTypes
  BY <1>1, <1>2, <1>3, <1>4 DEF Tank!Init, TankTypes
<1>6. OwnTokens /\ Tank!ProvisionKept
  BY <1>2 DEF Tank!Init, OwnTokens, Tank!ProvisionKept
<1>7. \A w \in Sweeps : sweep[w].step = "idle"
  BY <1>1 DEF Tank!Init
<1>8. Tank!NoSweep \in SweepTasks
  BY DEF Tank!NoSweep, SweepTasks
<1>9. AlertInv
  BY <1>7, <1>8 DEF Tank!Init, AlertInv
<1> QED  BY <1>5, <1>6, <1>9 DEF ProvisionInv

(* A provision's step: it goes on with its tank and its token, or it ends. *)
LEMMA ProvisionTurns ==
    ASSUME TankTypes, NEW a \in Adds
    PROVE  /\ \A s \in AddSteps : Tank!Adding(a, s) =>
                /\ add' \in [Adds -> Provisions] /\ add'[a].step = s
                /\ add'[a].shelly = add[a].shelly /\ add'[a].token = add[a].token
                /\ \A b \in Adds : b # a => add'[b] = add[b]
           /\ Tank!AddEnds(a) =>
                /\ add' \in [Adds -> Provisions] /\ add'[a].step = "idle"
                /\ \A b \in Adds : b # a => add'[b] = add[b]
<1> DEFINE was == add[a]
<1>1. add \in [Adds -> Provisions] /\ was \in Provisions
  BY DEF TankTypes
<1>2. ASSUME NEW s \in AddSteps, Tank!Adding(a, s)
      PROVE  /\ add' \in [Adds -> Provisions] /\ add'[a].step = s
             /\ add'[a].shelly = add[a].shelly /\ add'[a].token = add[a].token
             /\ \A b \in Adds : b # a => add'[b] = add[b]
  <2>1. /\ [was EXCEPT !.step = s] \in Provisions /\ [was EXCEPT !.step = s].step = s
        /\ [was EXCEPT !.step = s].shelly = was.shelly /\ [was EXCEPT !.step = s].token = was.token
    BY <1>1 DEF Provisions
  <2>2. add' = [add EXCEPT ![a] = [was EXCEPT !.step = s]]
    BY <1>1, <1>2 DEF Tank!Adding
  <2> QED  BY <1>1, <2>1, <2>2
<1>3. Tank!Idle \in Provisions /\ Tank!Idle.step = "idle"
  BY TankConstants DEF Tank!Idle, Provisions, AddSteps
<1>4. ASSUME Tank!AddEnds(a)
      PROVE  /\ add' \in [Adds -> Provisions] /\ add'[a].step = "idle"
             /\ \A b \in Adds : b # a => add'[b] = add[b]
  BY <1>1, <1>3, <1>4 DEF Tank!AddEnds
<1> QED  BY <1>2, <1>4

(* mint_device: a token there has not been, for a tank that has no record. *)
LEMMA MintProvisions ==
    ASSUME ProvisionInv, NEW a \in Adds, NEW s \in Shellies, Tank!Mint(a, s)
    PROVE  ProvisionInv'
<1> DEFINE begun == [step |-> "clear", shelly |-> s, token |-> minted + 1]
<1>1. /\ add[a].step = "idle" /\ record[s] = None /\ minted < MaxMints /\ minted' = minted + 1
      /\ record' = [record EXCEPT ![s] = minted + 1] /\ add' = [add EXCEPT ![a] = begun]
      /\ UNCHANGED <<reading, scripts, removal, answered, deleted>>
  BY DEF Tank!Mint, Tank!history
<1>2. minted \in Nat /\ minted + 1 \in 1 .. MaxMints /\ MaxMints \in Nat /\ TankTypes
  BY <1>1, TankConstants DEF ProvisionInv, TankTypes
<1>3. begun \in Provisions /\ begun.step = "clear" /\ begun.shelly = s /\ begun.token = minted + 1
  BY <1>2 DEF Provisions, AddSteps
<1> HIDE DEF begun
<1>4. /\ add' \in [Adds -> Provisions] /\ add'[a] = begun /\ \A b \in Adds : b # a => add'[b] = add[b]
      /\ record' \in [Shellies -> {None} \cup 1 .. MaxMints]
      /\ record'[s] = minted + 1 /\ \A u \in Shellies : u # s => record'[u] = record[u]
  BY <1>1, <1>2, <1>3 DEF TankTypes
<1>5. TankTypes'
  BY <1>1, <1>2, <1>3, <1>4 DEF TankTypes, Deletes
<1>6. \A b \in Adds : b # a /\ add[b].step # "idle" =>
        add[b].token # minted + 1 /\ (add[b].shelly # s \/ add[b].token \in deleted)
  BY <1>1, <1>2, TankConstants DEF ProvisionInv, TankTypes, OwnTokens
<1>7. \A x \in answered : x.token # minted + 1 /\ (x.shelly # s \/ x.token \in deleted)
  BY <1>1, <1>2, TankConstants DEF ProvisionInv, OwnTokens, Tank!ProvisionKept
<1>8. OwnTokens'
  <2>1. \A x \in answered' : x.shelly \in Shellies /\ x.token \in 1 .. minted'
    BY <1>1, <1>2 DEF ProvisionInv, OwnTokens
  <2>2. \A b \in Adds : b # a /\ add'[b].step # "idle" =>
          record'[add'[b].shelly] = add'[b].token \/ add'[b].token \in deleted'
    BY <1>1, <1>4, <1>6 DEF ProvisionInv, TankTypes, OwnTokens
  <2>3. record'[add'[a].shelly] = add'[a].token
    BY <1>3, <1>4
  <2>4. \A b \in Adds : add'[b].step # "idle" => \A x \in answered' : x.token # add'[b].token
    BY <1>1, <1>3, <1>4, <1>7 DEF ProvisionInv, OwnTokens
  <2>5. \A b, c \in Adds : b # c /\ add'[b].step # "idle" /\ add'[c].step # "idle" => add'[b].token # add'[c].token
    BY <1>3, <1>4, <1>6 DEF ProvisionInv, OwnTokens
  <2> QED  BY <2>1, <2>2, <2>3, <2>4, <2>5 DEF OwnTokens
<1>9. Tank!ProvisionKept'
  BY <1>1, <1>4, <1>7 DEF ProvisionInv, OwnTokens, Tank!ProvisionKept
<1> QED  BY <1>5, <1>8, <1>9 DEF ProvisionInv

(* The RPCs of a provision change no record. *)
LEMMA ScriptProvisions ==
    ASSUME ProvisionInv, NEW a \in Adds,
           Tank!Clear(a) \/ Tank!Create(a) \/ Tank!Start(a) \/ Tank!RpcFails(a)
    PROVE  ProvisionInv'
<1>1. /\ UNCHANGED <<record, reading, minted, removal, answered, deleted>> /\ add[a].step # "idle"
      /\ \E s \in {"create", "start", "wait", "undo"} : Tank!Adding(a, s)
  BY DEF Tank!Clear, Tank!Create, Tank!Start, Tank!RpcFails, Tank!hub, Tank!history
<1>2. TankTypes /\ add[a].shelly \in Shellies /\ add[a].token \in 1 .. MaxMints
  BY <1>1, TankConstants DEF ProvisionInv, TankTypes
<1>3. /\ add' \in [Adds -> Provisions] /\ add'[a].shelly = add[a].shelly /\ add'[a].token = add[a].token
      /\ \A b \in Adds : b # a => add'[b] = add[b]
  BY <1>1, <1>2, ProvisionTurns DEF AddSteps
<1>4. scripts' \in [Shellies -> SUBSET [token : 1 .. MaxMints, runs : BOOLEAN]]
  <2> DEFINE made == [token |-> add[a].token, runs |-> FALSE]
             started == [made EXCEPT !.runs = TRUE]
  <2>1. /\ made \in [token : 1 .. MaxMints, runs : BOOLEAN]
        /\ started \in [token : 1 .. MaxMints, runs : BOOLEAN]
    BY <1>2
  <2>3. \/ scripts' = scripts
        \/ \E x : scripts' = [scripts EXCEPT ![add[a].shelly] = @ \ {x}]
        \/ scripts' = [scripts EXCEPT ![add[a].shelly] = @ \cup {made}]
        \/ scripts' = [scripts EXCEPT ![add[a].shelly] = (@ \ {made}) \cup {started}]
    BY DEF Tank!Clear, Tank!Create, Tank!Start, Tank!RpcFails, Tank!Cleared
  <2> HIDE DEF made, started
  <2>4. scripts \in [Shellies -> SUBSET [token : 1 .. MaxMints, runs : BOOLEAN]]
    BY <1>2 DEF TankTypes
  <2> QED  BY <2>1, <2>3, <2>4
<1>5. \A b \in Adds : add'[b].step # "idle" =>
        add[b].step # "idle" /\ add'[b].shelly = add[b].shelly /\ add'[b].token = add[b].token
  BY <1>1, <1>3
<1>6. TankTypes'
  BY <1>1, <1>2, <1>3, <1>4, <1>5 DEF TankTypes, Deletes
<1>7. OwnTokens'
  BY <1>1, <1>5 DEF ProvisionInv, OwnTokens
<1> QED  BY <1>1, <1>6, <1>7 DEF ProvisionInv, Tank!ProvisionKept

(* It ends: answered, or undone if the record is its own. *)
LEMMA EndProvisions ==
    ASSUME ProvisionInv, NEW a \in Adds, Tank!Answer(a) \/ Tank!Undo(a)
    PROVE  ProvisionInv'
<1>1. add[a].step # "idle" /\ UNCHANGED <<minted, scripts, removal, deleted>> /\ Tank!AddEnds(a)
  BY DEF Tank!Answer, Tank!Undo, Tank!hub, Tank!history
<1>2. TankTypes /\ add[a].shelly \in Shellies /\ add[a].token \in 1 .. minted
      /\ record \in [Shellies -> {None} \cup 1 .. MaxMints]
  BY <1>1 DEF ProvisionInv, TankTypes
<1>3. add' \in [Adds -> Provisions] /\ add'[a].step = "idle" /\ \A b \in Adds : b # a => add'[b] = add[b]
  BY <1>1, <1>2, ProvisionTurns
<1>4. CASE Tank!Answer(a)
  <2>1. /\ UNCHANGED <<record, reading>>
        /\ answered' = answered \cup {[shelly |-> add[a].shelly, token |-> add[a].token]}
    BY <1>4 DEF Tank!Answer, Tank!hub
  <2>2. TankTypes'
    BY <1>1, <1>2, <1>3, <2>1 DEF TankTypes, Deletes
  <2>3. record[add[a].shelly] = add[a].token \/ add[a].token \in deleted
    BY <1>1 DEF ProvisionInv, OwnTokens
  <2>4. OwnTokens'
    BY <1>1, <1>2, <1>3, <2>1 DEF ProvisionInv, OwnTokens
  <2>5. Tank!ProvisionKept'
    BY <1>1, <2>1, <2>3 DEF ProvisionInv, Tank!ProvisionKept
  <2> QED  BY <2>2, <2>4, <2>5 DEF ProvisionInv
<1>5. CASE Tank!Undo(a)
  <2>1. /\ answered' = answered
        /\ IF record[add[a].shelly] = add[a].token
           THEN /\ record' = [record EXCEPT ![add[a].shelly] = None]
                /\ reading' = [reading EXCEPT ![add[a].shelly] = None]
           ELSE UNCHANGED <<record, reading>>
    BY <1>5 DEF Tank!Undo, Tank!OwnMint, Tank!history
  <2>2. /\ record' \in [Shellies -> {None} \cup 1 .. MaxMints]
        /\ reading' \in [Shellies -> {None, "fresh", "stale"}]
        /\ \A s \in Shellies : \/ record'[s] = record[s]
                               \/ /\ s = add[a].shelly /\ record[s] = add[a].token
                                  /\ record'[s] = None
    BY <1>2, <2>1 DEF TankTypes
  <2>3. TankTypes'
    BY <1>1, <1>2, <1>3, <2>2 DEF TankTypes, Deletes
  <2>4. \A s \in Shellies : record[s] # add[a].token => record'[s] = record[s]
    BY <2>2
  <2>5. OwnTokens'
    BY <1>1, <1>2, <1>3, <2>1, <2>4 DEF ProvisionInv, TankTypes, OwnTokens
  <2>6. Tank!ProvisionKept'
    BY <1>1, <2>1, <2>4 DEF ProvisionInv, OwnTokens, Tank!ProvisionKept
  <2> QED  BY <2>3, <2>5, <2>6 DEF ProvisionInv
<1> QED  BY <1>4, <1>5

LEMMA DeleteProvisions ==
    ASSUME ProvisionInv, NEW r \in Removals,
           (\E s \in Shellies : Tank!Remove(r, s)) \/ Tank!RemoveScript(r) \/ Tank!Delete(r)
    PROVE  ProvisionInv'
<1>1. TankTypes /\ UNCHANGED <<add, minted, answered>>
  BY DEF ProvisionInv, Tank!Remove, Tank!RemoveScript, Tank!Delete, Tank!hub, Tank!history
<1>2. removal \in [Removals -> Deletes] /\ removal[r] \in Deletes
      /\ scripts \in [Shellies -> SUBSET [token : 1 .. MaxMints, runs : BOOLEAN]]
  BY <1>1 DEF TankTypes
<1>3. ASSUME NEW s \in Shellies, Tank!Remove(r, s) PROVE ProvisionInv'
  <2> DEFINE begun == [Tank!Idle EXCEPT !.step = "script", !.shelly = s]
  <2>1. begun \in Deletes /\ begun.shelly = s
    BY TankConstants DEF Tank!Idle, Deletes
  <2>2. removal' = [removal EXCEPT ![r] = begun] /\ UNCHANGED <<record, reading, scripts, deleted>>
    BY <1>3 DEF Tank!Remove, Tank!hub, Tank!history
  <2> HIDE DEF begun
  <2>3. TankTypes'
    BY <1>1, <1>2, <2>1, <2>2 DEF TankTypes, Provisions
  <2> QED  BY <1>1, <2>2, <2>3 DEF ProvisionInv, OwnTokens, Tank!ProvisionKept
<1>4. CASE Tank!RemoveScript(r)
  <2> DEFINE next1 == [removal[r] EXCEPT !.step = "delete"]
  <2>1. next1 \in Deletes /\ next1.shelly = removal[r].shelly
    BY <1>2 DEF Deletes
  <2>2. removal[r].step = "script" /\ removal' = [removal EXCEPT ![r] = next1] /\ UNCHANGED <<record, reading, deleted>>
    BY <1>2, <1>4 DEF Tank!RemoveScript, Tank!hub, Tank!history
  <2> HIDE DEF next1
  <2>3. scripts' = scripts \/ \E x : scripts' = [scripts EXCEPT ![removal[r].shelly] = @ \ {x}]
    BY <1>4 DEF Tank!RemoveScript, Tank!Cleared
  <2>4. scripts' \in [Shellies -> SUBSET [token : 1 .. MaxMints, runs : BOOLEAN]]
    BY <1>2, <2>3
  <2>5. TankTypes'
    BY <1>1, <1>2, <2>1, <2>2, <2>4 DEF TankTypes, Provisions
  <2> QED  BY <1>1, <2>2, <2>5 DEF ProvisionInv, OwnTokens, Tank!ProvisionKept
<1>5. CASE Tank!Delete(r)
  <2> DEFINE gone == removal[r].shelly
  <2>1. /\ removal' = [removal EXCEPT ![r] = Tank!Idle] /\ scripts' = scripts
        /\ deleted' = deleted \cup ({record[gone]} \ {None})
        /\ record' = [record EXCEPT ![gone] = None] /\ reading' = [reading EXCEPT ![gone] = None]
    BY <1>5 DEF Tank!Delete
  <2>2. Tank!Idle \in Deletes /\ Tank!Idle.step = "idle"
    BY TankConstants DEF Tank!Idle, Deletes
  <2>3. /\ record' \in [Shellies -> {None} \cup 1 .. MaxMints]
        /\ reading' \in [Shellies -> {None, "fresh", "stale"}]
        /\ \A s \in Shellies : record'[s] = IF s = gone THEN None ELSE record[s]
    BY <1>1, <2>1 DEF TankTypes
  <2>4. TankTypes'
    BY <1>1, <1>2, <2>1, <2>2, <2>3 DEF TankTypes, Provisions
  <2>5. \A s \in Shellies, k \in Nat : record[s] = k \/ k \in deleted => record'[s] = k \/ k \in deleted'
    BY <2>1, <2>3, TankConstants
  <2> HIDE DEF gone
  <2>6. OwnTokens'
    <3>1. \A a \in Adds : add[a].step # "idle" => add[a].shelly \in Shellies /\ add[a].token \in Nat
      BY <1>1, TankConstants DEF TankTypes
    <3> QED  BY <1>1, <2>5, <3>1 DEF ProvisionInv, OwnTokens
  <2>7. Tank!ProvisionKept'
    <3>1. \A x \in answered : x.shelly \in Shellies /\ x.token \in Nat
      BY <1>1, TankConstants DEF ProvisionInv, OwnTokens, TankTypes
    <3> QED  BY <1>1, <2>5, <3>1 DEF ProvisionInv, Tank!ProvisionKept
  <2> QED  BY <2>4, <2>6, <2>7 DEF ProvisionInv
<1> QED  BY <1>3, <1>4, <1>5

(* Readings, sweeps, midnight and a restart. *)
LEMMA RestProvisions ==
    ASSUME ProvisionInv,
           \/ \E s \in Shellies : (\E x \in scripts[s] : Tank!Ingest(s, x)) \/ Tank!Silent(s) \/ Tank!Calibrate(s)
           \/ \E w \in Sweeps : \/ \E kind \in Tank!Kinds : Tank!StartSweep(w, kind)
                                \/ \E s \in Shellies : \/ Tank!CheckOffline(w, s) \/ Tank!CheckLow(w, s)
                                                       \/ Tank!Pass(w, s)
                                \/ Tank!Emit(w) \/ Tank!EndSweep(w)
           \/ Tank!NewDay \/ Tank!Restart \/ UNCHANGED Tank!vars
    PROVE  ProvisionInv'
<1>1. TankTypes
  BY DEF ProvisionInv
<1>2. UNCHANGED <<record, minted, scripts, answered, deleted>>
  BY DEF Tank!Ingest, Tank!Silent, Tank!Calibrate, Tank!StartSweep, Tank!CheckOffline, Tank!CheckLow,
         Tank!Pass, Tank!Emit, Tank!EndSweep, Tank!NewDay, Tank!Restart, Tank!vars, Tank!hub, Tank!history
<1>3. \/ UNCHANGED <<add, removal>>
      \/ add' = [a \in Adds |-> Tank!Idle] /\ removal' = [r \in Removals |-> Tank!Idle]
  <2>1. CASE Tank!Restart
    BY <2>1 DEF Tank!Restart
  <2>2. ASSUME NEW s \in Shellies, (\E x \in scripts[s] : Tank!Ingest(s, x)) \/ Tank!Silent(s) \/ Tank!Calibrate(s)
        PROVE  UNCHANGED <<add, removal>>
    BY <2>2 DEF Tank!Ingest, Tank!Silent, Tank!Calibrate, Tank!requests
  <2>3. ASSUME NEW w \in Sweeps,
               \/ \E kind \in Tank!Kinds : Tank!StartSweep(w, kind)
               \/ \E s \in Shellies : Tank!CheckOffline(w, s) \/ Tank!CheckLow(w, s) \/ Tank!Pass(w, s)
               \/ Tank!Emit(w) \/ Tank!EndSweep(w)
        PROVE  UNCHANGED <<add, removal>>
    BY <2>3 DEF Tank!StartSweep, Tank!CheckOffline, Tank!CheckLow, Tank!Pass, Tank!Emit, Tank!EndSweep, Tank!requests
  <2>4. Tank!NewDay \/ UNCHANGED Tank!vars => UNCHANGED <<add, removal>>
    BY DEF Tank!NewDay, Tank!vars, Tank!requests
  <2> QED  BY <2>1, <2>2, <2>3, <2>4
<1>4. \/ reading' = reading
      \/ \E s \in Shellies : \/ reading' = [reading EXCEPT ![s] = "fresh"]
                             \/ reading' = [reading EXCEPT ![s] = "stale"]
  <2>1. ASSUME NEW s \in Shellies, (\E x \in scripts[s] : Tank!Ingest(s, x)) \/ Tank!Silent(s) \/ Tank!Calibrate(s)
        PROVE  \/ reading' = reading \/ reading' = [reading EXCEPT ![s] = "fresh"]
               \/ reading' = [reading EXCEPT ![s] = "stale"]
    BY <2>1 DEF Tank!Ingest, Tank!Silent, Tank!Calibrate, Tank!hub
  <2>2. ASSUME NEW w \in Sweeps,
               \/ \E kind \in Tank!Kinds : Tank!StartSweep(w, kind)
               \/ \E s \in Shellies : Tank!CheckOffline(w, s) \/ Tank!CheckLow(w, s) \/ Tank!Pass(w, s)
               \/ Tank!Emit(w) \/ Tank!EndSweep(w)
        PROVE  reading' = reading
    BY <2>2 DEF Tank!StartSweep, Tank!CheckOffline, Tank!CheckLow, Tank!Pass, Tank!Emit, Tank!EndSweep, Tank!hub
  <2>3. Tank!NewDay \/ Tank!Restart \/ UNCHANGED Tank!vars => reading' = reading
    BY DEF Tank!NewDay, Tank!Restart, Tank!vars, Tank!hub
  <2> QED  BY <2>1, <2>2, <2>3
<1>5. Tank!Idle \in Provisions /\ Tank!Idle \in Deletes /\ Tank!Idle.step = "idle"
  BY TankConstants DEF Tank!Idle, Provisions, AddSteps, Deletes
<1>6. reading' \in [Shellies -> {None, "fresh", "stale"}]
  BY <1>1, <1>4 DEF TankTypes
<1>7. CASE UNCHANGED <<add, removal>>
  BY <1>1, <1>2, <1>6, <1>7 DEF ProvisionInv, TankTypes, OwnTokens, Tank!ProvisionKept, Provisions, Deletes
<1>8. CASE add' = [a \in Adds |-> Tank!Idle] /\ removal' = [r \in Removals |-> Tank!Idle]
  <2>1. /\ \A a \in Adds : add'[a].step = "idle"
        /\ \A r \in Removals : removal'[r].step = "idle"
        /\ add' \in [Adds -> Provisions] /\ removal' \in [Removals -> Deletes]
    BY <1>5, <1>8
  <2> QED  BY <1>1, <1>2, <1>6, <2>1 DEF ProvisionInv, TankTypes, OwnTokens, Tank!ProvisionKept
<1> QED  BY <1>3, <1>7, <1>8

LEMMA ProvisionsKept == ProvisionInv /\ [Tank!Next]_(Tank!vars) => ProvisionInv'
BY MintProvisions, ScriptProvisions, EndProvisions, DeleteProvisions, RestProvisions DEF Tank!Next

(* A sweep: only one that has found no mark emits for it. *)
LEMMA SweepTurns ==
    ASSUME AlertInv, NEW w \in Sweeps, NEW task \in SweepTasks,
           sweep' = [sweep EXCEPT ![w] = task], UNCHANGED <<marks, pushed>>, task.step # "emit"
    PROVE  AlertInv'
<1>1. /\ sweep' \in [Sweeps -> SweepTasks] /\ sweep'[w] = task
      /\ \A v \in Sweeps : v # w => sweep'[v] = sweep[v]
  BY DEF AlertInv
<1> QED  BY <1>1 DEF AlertInv, SweepTasks, Tank!Kinds

LEMMA SweepMarks ==
    ASSUME AlertInv, NEW w \in Sweeps, NEW s \in Shellies, Tank!CheckOffline(w, s) \/ Tank!CheckLow(w, s)
    PROVE  AlertInv'
<1> DEFINE was == sweep[w]
           task == [was EXCEPT !.step = "emit", !.at = s, !.left = @ \ {s}]
<1>1. /\ <<was.kind, s>> \notin marks /\ was.kind \in Tank!Kinds /\ was.step = "next"
      /\ sweep' = [sweep EXCEPT ![w].step = "emit", ![w].at = s, ![w].left = @ \ {s}]
      /\ marks' = marks \cup {<<was.kind, s>>} /\ pushed' = pushed
  BY DEF Tank!CheckOffline, Tank!CheckLow, Tank!Due, Tank!Marked, Tank!MarksAt, Tank!Kinds
<1>2. sweep \in [Sweeps -> SweepTasks] /\ was \in SweepTasks
  BY DEF AlertInv
<1>3. task \in SweepTasks /\ task.step = "emit" /\ task.at = s /\ task.kind = was.kind
  BY <1>2 DEF SweepTasks
<1>4. sweep' = [sweep EXCEPT ![w] = task]
  BY <1>1, <1>2
<1> HIDE DEF task
<1>5. /\ sweep' \in [Sweeps -> SweepTasks] /\ sweep'[w] = task
      /\ \A v \in Sweeps : v # w => sweep'[v] = sweep[v]
  BY <1>2, <1>3, <1>4
<1>6. pushed[<<was.kind, s>>] = 0 /\ <<was.kind, s>> \in Tank!Kinds \X Shellies
  BY <1>1 DEF AlertInv
<1>7. \A v \in Sweeps : v # w /\ sweep[v].step = "emit" => <<sweep[v].kind, sweep[v].at>> # <<was.kind, s>>
  BY <1>1 DEF AlertInv
<1> HIDE DEF was
<1>8. marks' \subseteq Tank!Kinds \X Shellies /\ pushed' \in [Tank!Kinds \X Shellies -> 0 .. 1]
      /\ \A x \in Tank!Kinds \X Shellies : pushed'[x] = 1 => x \in marks'
  BY <1>1, <1>6 DEF AlertInv
<1>9. \A v \in Sweeps : sweep'[v].step = "emit" =>
        /\ <<sweep'[v].kind, sweep'[v].at>> \in marks'
        /\ pushed'[<<sweep'[v].kind, sweep'[v].at>>] = 0
        /\ \A u \in Sweeps : u # v /\ sweep'[u].step = "emit" =>
             <<sweep'[u].kind, sweep'[u].at>> # <<sweep'[v].kind, sweep'[v].at>>
  <2>1. <<sweep'[w].kind, sweep'[w].at>> = <<was.kind, s>>
    BY <1>3, <1>5
  <2>2. \A v \in Sweeps : v # w /\ sweep'[v].step = "emit" =>
          /\ sweep'[v] = sweep[v] /\ <<sweep[v].kind, sweep[v].at>> \in marks
          /\ pushed[<<sweep[v].kind, sweep[v].at>>] = 0 /\ <<sweep[v].kind, sweep[v].at>> # <<was.kind, s>>
          /\ \A u \in Sweeps : u # v /\ u # w /\ sweep[u].step = "emit" =>
               <<sweep[u].kind, sweep[u].at>> # <<sweep[v].kind, sweep[v].at>>
    BY <1>5, <1>7 DEF AlertInv
  <2> QED  BY <1>1, <1>5, <1>6, <2>1, <2>2
<1> QED  BY <1>5, <1>8, <1>9 DEF AlertInv, Tank!Kinds, SweepTasks

LEMMA SweepEmits ==
    ASSUME AlertInv, NEW w \in Sweeps, Tank!Emit(w)
    PROVE  AlertInv'
<1> DEFINE was == sweep[w]
           task == [was EXCEPT !.step = "next", !.at = None]
           x == <<was.kind, was.at>>
<1>1. /\ was.step = "emit" /\ marks' = marks
      /\ sweep' = [sweep EXCEPT ![w].step = "next", ![w].at = None]
      /\ pushed' = [pushed EXCEPT ![x] = IF @ = 2 THEN 2 ELSE @ + 1]
  BY DEF Tank!Emit, Tank!Marked, Tank!MarksAt
<1>2. sweep \in [Sweeps -> SweepTasks] /\ was \in SweepTasks
  BY DEF AlertInv
<1>3. task \in SweepTasks /\ task.step = "next"
  BY <1>2 DEF SweepTasks
<1>4. sweep' = [sweep EXCEPT ![w] = task]
  BY <1>1, <1>2
<1> HIDE DEF task
<1>5. /\ sweep' \in [Sweeps -> SweepTasks] /\ sweep'[w].step = "next"
      /\ \A v \in Sweeps : v # w => sweep'[v] = sweep[v]
  BY <1>2, <1>3, <1>4
<1>6. /\ x \in marks /\ x \in Tank!Kinds \X Shellies /\ pushed[x] = 0
      /\ \A v \in Sweeps : v # w /\ sweep[v].step = "emit" => <<sweep[v].kind, sweep[v].at>> # x
  BY <1>1 DEF AlertInv
<1> HIDE DEF x, was
<1>7. /\ pushed' \in [Tank!Kinds \X Shellies -> 0 .. 1] /\ pushed'[x] = 1
      /\ \A y \in Tank!Kinds \X Shellies : y # x => pushed'[y] = pushed[y]
  BY <1>1, <1>6 DEF AlertInv
<1>8. \A v \in Sweeps : sweep'[v].step = "emit" =>
        /\ <<sweep'[v].kind, sweep'[v].at>> \in marks'
        /\ pushed'[<<sweep'[v].kind, sweep'[v].at>>] = 0
        /\ \A u \in Sweeps : u # v /\ sweep'[u].step = "emit" =>
             <<sweep'[u].kind, sweep'[u].at>> # <<sweep'[v].kind, sweep'[v].at>>
  <2>1. \A v \in Sweeps : sweep'[v].step = "emit" => v # w /\ sweep'[v] = sweep[v]
    BY <1>5
  <2> QED  BY <1>1, <1>6, <1>7, <2>1 DEF AlertInv
<1> QED  BY <1>1, <1>5, <1>6, <1>7, <1>8 DEF AlertInv, Tank!Kinds, SweepTasks

LEMMA AlertsKept == AlertInv /\ [Tank!Next]_(Tank!vars) => AlertInv'
<1> SUFFICES ASSUME AlertInv, [Tank!Next]_(Tank!vars) PROVE AlertInv'
  OBVIOUS
<1>1. ASSUME UNCHANGED <<sweep, marks, pushed>> PROVE AlertInv'
  BY <1>1 DEF AlertInv, Tank!Kinds, SweepTasks
<1>2. ASSUME NEW a \in Adds,
             \/ \E s \in Shellies : Tank!Mint(a, s)
             \/ Tank!Clear(a) \/ Tank!Create(a) \/ Tank!Start(a) \/ Tank!RpcFails(a)
             \/ Tank!Answer(a) \/ Tank!Undo(a)
      PROVE  UNCHANGED <<sweep, marks, pushed>>
  BY <1>2 DEF Tank!Mint, Tank!Clear, Tank!Create, Tank!Start, Tank!RpcFails, Tank!Answer, Tank!Undo, Tank!monitor
<1>3. ASSUME NEW r \in Removals, (\E s \in Shellies : Tank!Remove(r, s)) \/ Tank!RemoveScript(r) \/ Tank!Delete(r)
      PROVE  UNCHANGED <<sweep, marks, pushed>>
  BY <1>3 DEF Tank!Remove, Tank!RemoveScript, Tank!Delete, Tank!monitor
<1>4. ASSUME NEW s \in Shellies, (\E x \in scripts[s] : Tank!Ingest(s, x)) \/ Tank!Silent(s) \/ Tank!Calibrate(s)
      PROVE  UNCHANGED <<sweep, marks, pushed>>
  BY <1>4 DEF Tank!Ingest, Tank!Silent, Tank!Calibrate, Tank!monitor
<1>5. ASSUME NEW w \in Sweeps, NEW kind \in Tank!Kinds, Tank!StartSweep(w, kind) PROVE AlertInv'
  <2> DEFINE task == [step |-> "next", kind |-> kind, at |-> None,
                      left |-> {s \in Tank!Registered : reading[s] # None},
                      stale |-> {s \in Tank!Registered : reading[s] = "stale"}]
  <2>1. task \in SweepTasks /\ task.step = "next"
    BY DEF SweepTasks, Tank!Registered
  <2>2. sweep' = [sweep EXCEPT ![w] = task] /\ UNCHANGED <<marks, pushed>>
    BY <1>5 DEF Tank!StartSweep
  <2> HIDE DEF task
  <2> QED  BY <2>1, <2>2, SweepTurns
<1>6. ASSUME NEW w \in Sweeps, NEW s \in Shellies, Tank!Pass(w, s) PROVE AlertInv'
  <2> DEFINE was == sweep[w]
             task == [was EXCEPT !.left = @ \ {s}]
  <2>1. sweep \in [Sweeps -> SweepTasks] /\ was \in SweepTasks /\ was.step = "next"
    BY <1>6 DEF AlertInv, Tank!Pass
  <2>2. task \in SweepTasks /\ task.step = "next"
    BY <2>1 DEF SweepTasks
  <2>3. sweep' = [sweep EXCEPT ![w].left = @ \ {s}] /\ UNCHANGED <<marks, pushed>>
    BY <1>6 DEF Tank!Pass
  <2>4. sweep' = [sweep EXCEPT ![w] = task]
    BY <2>1, <2>3
  <2> HIDE DEF task
  <2> QED  BY <2>2, <2>3, <2>4, SweepTurns
<1>7. ASSUME NEW w \in Sweeps, Tank!EndSweep(w) PROVE AlertInv'
  <2>1. Tank!NoSweep \in SweepTasks /\ Tank!NoSweep.step = "idle"
    BY DEF Tank!NoSweep, SweepTasks
  <2>2. sweep' = [sweep EXCEPT ![w] = Tank!NoSweep] /\ UNCHANGED <<marks, pushed>>
    BY <1>7 DEF Tank!EndSweep
  <2> QED  BY <2>1, <2>2, SweepTurns
<1>8. CASE Tank!NewDay \/ Tank!Restart
  <2>1. Tank!NoSweep \in SweepTasks /\ Tank!NoSweep.step = "idle"
    BY DEF Tank!NoSweep, SweepTasks
  <2>2. /\ marks' = {} /\ pushed' = [x \in Tank!Kinds \X Shellies |-> 0]
        /\ sweep' \in [Sweeps -> SweepTasks] /\ \A w \in Sweeps : sweep'[w].step = "idle"
    BY <1>8, <2>1 DEF Tank!NewDay, Tank!Restart, AlertInv
  <2> QED  BY <2>2 DEF AlertInv, Tank!Kinds, SweepTasks
<1>9. CASE UNCHANGED Tank!vars
  BY <1>1, <1>9 DEF Tank!vars, Tank!monitor
<1> QED  BY <1>1, <1>2, <1>3, <1>4, <1>5, <1>6, <1>7, <1>8, <1>9, SweepMarks, SweepEmits DEF Tank!Next

(* All that the tanks keep to. *)
TankInv == ProvisionInv /\ AlertInv

LEMMA TankTyped == TankInv => /\ Tank!TypeOK /\ Tank!ProvisionKept /\ Tank!AlertedOnce
<1> SUFFICES ASSUME TankInv PROVE /\ Tank!TypeOK /\ Tank!ProvisionKept /\ Tank!AlertedOnce
  OBVIOUS
<1>1. Tank!TypeOK
  BY DEF TankInv, ProvisionInv, AlertInv, TankTypes, Tank!TypeOK, Tank!Tokens
<1>2. Tank!AlertedOnce
  BY DEF TankInv, AlertInv, Tank!AlertedOnce
<1> QED  BY <1>1, <1>2 DEF TankInv, ProvisionInv

LEMMA TankKept == TankInv /\ [Tank!Next]_(Tank!vars) => TankInv'
BY ProvisionsKept, AlertsKept DEF TankInv

-----------------------------------------------------------------------------
(* HQ's reminders (Reminder), when a verified request waits for no tick. *)

ReminderSteps == {"idle", "wait", "reserve", "previous", "send", "record"}
ReminderTasks == [step : ReminderSteps, req : {None} \cup Reminder!Requests, since : Nat]
Times == {None} \cup 0 .. ReminderTime

ReminderTypes ==
    /\ now \in 0 .. ReminderTime /\ key \in 1 .. 2
    /\ signed \subseteq Reminder!Requests
    /\ nonces \in [Nonces -> Times] /\ events \in [Events -> Times]
    /\ recorded \in [Events -> Times] /\ let \in [Nonces -> Nat]
    /\ reminderJob \in [ReminderJobs -> ReminderTasks]
    /\ lock \in {None} \cup ReminderJobs

(* HQ uses a nonce for one request. *)
Distinct == \A r, q \in signed : r.nonce = q.nonce => r = q

(* A job holds a request that arrived, and from the reservation on the lock;  *)
(* until then its request is recent.                                          *)
Delivers(j) ==
    /\ reminderJob[j].step # "idle" => reminderJob[j].req \in signed
    /\ reminderJob[j].step \in {"wait", "reserve"}
         => /\ reminderJob[j].since = now
            /\ reminderJob[j].req.at <= now + Skew /\ now <= reminderJob[j].req.at + Skew
    /\ reminderJob[j].step \in {"reserve", "previous", "send", "record"} => lock = j
    /\ reminderJob[j].step \in {"send", "record"} => events[reminderJob[j].req.event] = None

(* A nonce that was let through is in its table until its request is too old. *)
LetOnce(n) ==
    /\ let[n] \in 0 .. 1
    /\ let[n] = 1 =>
         /\ \E r \in signed : r.nonce = n
         /\ \/ nonces[n] # None /\ \A r \in signed : r.nonce = n => r.at <= nonces[n] + Skew
            \/ \A r \in signed : r.nonce = n => r.at + Skew < now

(* The row of an event is when it was recorded, or the cap took it. *)
RowKept(e) ==
    /\ recorded[e] # None => recorded[e] <= now
    /\ events[e] # None => recorded[e] = events[e]
    /\ recorded[e] # None /\ events[e] = None => Reminder!Overtaken(e)

ReminderInv ==
    /\ ReminderTypes /\ Distinct
    /\ \A j \in ReminderJobs : Delivers(j)
    /\ \A n \in Nonces : LetOnce(n)
    /\ \A e \in Events : RowKept(e)

LEMMA ReminderCounts == \A set : Reminder!Cardinality(set) = Cardinality(set)
BY DEF Reminder!Cardinality, Cardinality

LEMMA ReminderStarts == Reminder!Init => ReminderInv
<1> USE ReminderAssumption
<1> SUFFICES ASSUME Reminder!Init PROVE ReminderInv
  OBVIOUS
<1>1. Reminder!Idle \in ReminderTasks /\ Reminder!Idle.step = "idle"
  BY DEF Reminder!Idle, ReminderTasks, ReminderSteps
<1>2. /\ now = 0 /\ signed = {} /\ key = 1 /\ lock = None
      /\ nonces \in [Nonces -> Times] /\ events \in [Events -> Times]
      /\ recorded \in [Events -> Times] /\ let \in [Nonces -> Nat]
      /\ reminderJob \in [ReminderJobs -> ReminderTasks]
      /\ \A j \in ReminderJobs : reminderJob[j].step = "idle"
      /\ \A n \in Nonces : let[n] = 0
      /\ \A e \in Events : events[e] = None /\ recorded[e] = None
  BY <1>1 DEF Reminder!Init, Times
<1>3. ReminderTypes
  BY <1>2 DEF ReminderTypes
<1> QED  BY <1>2, <1>3 DEF ReminderInv, Distinct, Delivers, LetOnce, RowKept

(* A job that goes on, and one that ends. *)
OthersStay(j) == \A k \in ReminderJobs \ {j} : reminderJob'[k] = reminderJob[k]

LEMMA ReminderGoes ==
    ASSUME ReminderTypes, NEW j \in ReminderJobs, NEW step \in ReminderSteps, Reminder!Goes(j, step)
    PROVE  /\ reminderJob' \in [ReminderJobs -> ReminderTasks] /\ OthersStay(j) /\ lock' = lock
           /\ reminderJob'[j].step = step /\ reminderJob'[j].req = reminderJob[j].req
           /\ reminderJob'[j].since = reminderJob[j].since
<1>1. reminderJob' = [reminderJob EXCEPT ![j].step = step] /\ lock' = lock
  BY DEF Reminder!Goes
<1>2. reminderJob \in [ReminderJobs -> ReminderTasks] /\ reminderJob[j] \in ReminderTasks
  BY DEF ReminderTypes
<1>3. reminderJob'[j] = [reminderJob[j] EXCEPT !.step = step]
  BY <1>1, <1>2
<1>4. reminderJob'[j] \in ReminderTasks /\ reminderJob'[j].step = step
      /\ reminderJob'[j].req = reminderJob[j].req /\ reminderJob'[j].since = reminderJob[j].since
  BY <1>2, <1>3 DEF ReminderTasks
<1>5. OthersStay(j)
  BY <1>1, <1>2 DEF OthersStay
<1>6. reminderJob' \in [ReminderJobs -> ReminderTasks]
  BY <1>1, <1>2, <1>4, <1>5 DEF OthersStay
<1> QED  BY <1>1, <1>4, <1>5, <1>6

LEMMA ReminderEnds ==
    ASSUME ReminderTypes, NEW j \in ReminderJobs, Reminder!Ends(j)
    PROVE  /\ reminderJob' \in [ReminderJobs -> ReminderTasks] /\ OthersStay(j) /\ lock' = None
           /\ reminderJob'[j].step = "idle"
<1>1. Reminder!Idle \in ReminderTasks /\ Reminder!Idle.step = "idle"
  BY DEF Reminder!Idle, ReminderTasks, ReminderSteps
<1> QED  BY <1>1 DEF Reminder!Ends, ReminderTypes, OthersStay

(* The clock waits for the requests that were just verified. *)
LEMMA TickReminds ==
    ASSUME ReminderInv, Reminder!Tick PROVE ReminderInv'
<1> USE ReminderAssumption
<1>1. /\ ReminderTypes /\ Distinct /\ now < ReminderTime /\ now' = now + 1
      /\ UNCHANGED <<signed, key, nonces, events, reminderJob, lock, let, recorded>>
  BY DEF ReminderInv, Reminder!Tick, Reminder!table, Reminder!history
<1>2. \A j \in ReminderJobs : reminderJob[j].step \notin {"wait", "reserve"}
  BY DEF ReminderInv, Delivers, ReminderTypes, Reminder!Tick, Reminder!At
<1>3. ReminderTypes'
  BY <1>1 DEF ReminderTypes
<1>4. \A j \in ReminderJobs : Delivers(j)'
  BY <1>1, <1>2 DEF ReminderInv, Delivers
<1>5. \A n \in Nonces : LetOnce(n)'
  <2> SUFFICES ASSUME NEW n \in Nonces PROVE LetOnce(n)'
    OBVIOUS
  <2>1. LetOnce(n) /\ now \in Nat /\ \A r \in signed : r.at \in Nat
    BY <1>1 DEF ReminderInv, ReminderTypes, Reminder!Requests
  <2> QED  BY <1>1, <2>1 DEF LetOnce
<1>6. \A e \in Events : RowKept(e)'
  <2> SUFFICES ASSUME NEW e \in Events PROVE RowKept(e)'
    OBVIOUS
  <2>1. RowKept(e) /\ now \in Nat /\ recorded[e] \in Times
    BY <1>1 DEF ReminderInv, ReminderTypes
  <2>2. Reminder!Overtaken(e)' <=> Reminder!Overtaken(e)
    BY <1>1 DEF Reminder!Overtaken
  <2>3. recorded[e] # None => recorded[e] \in Nat
    BY <2>1 DEF Times
  <2> QED  BY <1>1, <2>1, <2>2, <2>3 DEF RowKept
<1> QED  BY <1>1, <1>3, <1>4, <1>5, <1>6 DEF ReminderInv, Distinct

(* Another trust forgets, and a restart ends all requests. *)
LEMMA ConfigureReminds ==
    ASSUME ReminderInv, Reminder!Configure PROVE ReminderInv'
<1> USE ReminderAssumption
<1>1. /\ ReminderTypes /\ Distinct
      /\ UNCHANGED <<now, signed, reminderJob, lock>> /\ key' = 2
      /\ nonces' \in [Nonces -> Times] /\ events' \in [Events -> Times]
      /\ recorded' \in [Events -> Times] /\ let' \in [Nonces -> Nat]
      /\ \A n \in Nonces : let'[n] = 0
      /\ \A e \in Events : events'[e] = None /\ recorded'[e] = None
  BY DEF ReminderInv, Reminder!Configure, Reminder!clock, Times
<1>2. ReminderTypes'
  BY <1>1 DEF ReminderTypes
<1>3. \A j \in ReminderJobs : Delivers(j)'
  <2> SUFFICES ASSUME NEW j \in ReminderJobs PROVE Delivers(j)'
    OBVIOUS
  <2>1. Delivers(j)
    BY DEF ReminderInv
  <2>2. reminderJob[j].step # "idle" => reminderJob[j].req.event \in Events
    BY <1>1, <2>1 DEF Delivers, ReminderTypes, Reminder!Requests
  <2> QED  BY <1>1, <2>1, <2>2 DEF Delivers
<1> QED  BY <1>1, <1>2, <1>3 DEF ReminderInv, Distinct, LetOnce, RowKept

LEMMA RestartReminds ==
    ASSUME ReminderInv, Reminder!Restart PROVE ReminderInv'
<1>1. Reminder!Idle \in ReminderTasks /\ Reminder!Idle.step = "idle"
  BY DEF Reminder!Idle, ReminderTasks, ReminderSteps
<1>2. /\ reminderJob' \in [ReminderJobs -> ReminderTasks] /\ lock' = None
      /\ \A j \in ReminderJobs : reminderJob'[j].step = "idle"
      /\ UNCHANGED <<now, signed, key, nonces, events, let, recorded>>
  BY <1>1 DEF Reminder!Restart, Reminder!clock, Reminder!table, Reminder!history
<1> QED  BY <1>2 DEF ReminderInv, ReminderTypes, Distinct, Delivers, LetOnce, RowKept, Reminder!Overtaken

(* A request arrives: no nonce that was let through is another request's. *)
LEMMA ReceiveReminds ==
    ASSUME ReminderInv, NEW j \in ReminderJobs, NEW r \in Reminder!Requests, Reminder!Receive(j, r)
    PROVE  ReminderInv'
<1> USE ReminderAssumption
<1>1. /\ ReminderTypes /\ Distinct
      /\ r \in signed \/ \A q \in signed : q.nonce # r.nonce
      /\ r.at <= now + Skew /\ now <= r.at + Skew /\ signed' = signed \cup {r}
      /\ UNCHANGED <<now, key, nonces, events, lock, let, recorded>>
  BY DEF ReminderInv, Reminder!Receive, Reminder!New, Reminder!table, Reminder!history
<1> DEFINE verified == [step |-> "wait", req |-> r, since |-> now]
<1>2. verified \in ReminderTasks /\ verified.step = "wait" /\ verified.req = r /\ verified.since = now
  BY <1>1 DEF ReminderTasks, ReminderSteps, ReminderTypes
<1>3. reminderJob' = [reminderJob EXCEPT ![j] = verified]
  BY DEF Reminder!Receive
<1> HIDE DEF verified
<1>4. /\ reminderJob' \in [ReminderJobs -> ReminderTasks] /\ reminderJob'[j] = verified
      /\ OthersStay(j)
  BY <1>1, <1>2, <1>3 DEF ReminderTypes, OthersStay
<1>5. ReminderTypes'
  BY <1>1, <1>4 DEF ReminderTypes
<1>6. Distinct'
  BY <1>1 DEF Distinct
<1>7. \A k \in ReminderJobs : Delivers(k)'
  BY <1>1, <1>2, <1>4 DEF ReminderInv, Delivers, OthersStay
<1>8. \A n \in Nonces : LetOnce(n)'
  BY <1>1 DEF ReminderInv, LetOnce
<1>9. \A e \in Events : RowKept(e)'
  BY <1>1 DEF ReminderInv, RowKept, Reminder!Overtaken
<1> QED  BY <1>5, <1>6, <1>7, <1>8, <1>9 DEF ReminderInv

(* Who takes the lock finds it free, and who has it is alone. *)
LEMMA LockReminds ==
    ASSUME ReminderInv, NEW j \in ReminderJobs,
           \/ Reminder!Lock(j) \/ Reminder!Previous(j) \/ Reminder!Send(j) \/ Reminder!Cut(j)
    PROVE  ReminderInv'
<1> USE ReminderAssumption
<1> USE DEF Reminder!At
<1>1. /\ ReminderTypes /\ Distinct /\ \A k \in ReminderJobs : Delivers(k)
      /\ UNCHANGED <<now, signed, key, nonces, events, let, recorded>>
  BY DEF ReminderInv, Reminder!Lock, Reminder!Previous, Reminder!Send, Reminder!Cut, Reminder!clock,
         Reminder!table, Reminder!history
<1>2. reminderJob' \in [ReminderJobs -> ReminderTasks] /\ lock' \in {None} \cup ReminderJobs
      /\ \A k \in ReminderJobs : Delivers(k)'
  <2>1. CASE Reminder!Lock(j)
    <3>1. /\ reminderJob[j].step = "wait" /\ lock = None /\ lock' = j
          /\ reminderJob' = [reminderJob EXCEPT ![j].step = "reserve"]
      BY <2>1 DEF Reminder!Lock, Reminder!Locked
    <3>2. reminderJob \in [ReminderJobs -> ReminderTasks] /\ reminderJob[j] \in ReminderTasks
      BY <1>1 DEF ReminderTypes
    <3>3. reminderJob'[j] = [reminderJob[j] EXCEPT !.step = "reserve"]
      BY <3>1, <3>2
    <3>4. /\ reminderJob'[j] \in ReminderTasks /\ reminderJob'[j].step = "reserve"
          /\ reminderJob'[j].req = reminderJob[j].req /\ reminderJob'[j].since = reminderJob[j].since
      BY <3>2, <3>3 DEF ReminderTasks, ReminderSteps
    <3>5. OthersStay(j)
      BY <3>1, <3>2 DEF OthersStay
    <3>6. reminderJob' \in [ReminderJobs -> ReminderTasks]
      BY <3>1, <3>2, <3>4, <3>5 DEF OthersStay
    <3>7. \A k \in ReminderJobs \ {j} : Delivers(k)'
      BY <1>1, <3>1, <3>5 DEF OthersStay, Delivers
    <3>8. Delivers(j)'
      BY <1>1, <3>1, <3>4 DEF Delivers
    <3> QED  BY <3>1, <3>6, <3>7, <3>8
  <2>2. CASE Reminder!Ends(j) /\ reminderJob[j].step \notin {"idle", "wait"}
    <3>1. /\ reminderJob' \in [ReminderJobs -> ReminderTasks] /\ OthersStay(j) /\ lock' = None
          /\ reminderJob'[j].step = "idle"
      BY <1>1, <2>2, ReminderEnds
    <3>2. reminderJob[j] \in ReminderTasks /\ lock = j
      BY <1>1, <2>2 DEF ReminderTypes, ReminderTasks, ReminderSteps, Delivers
    <3>3. \A k \in ReminderJobs \ {j} : Delivers(k)'
      BY <1>1, <3>1, <3>2 DEF OthersStay, Delivers
    <3>4. Delivers(j)'
      BY <3>1 DEF Delivers
    <3> QED  BY <3>1, <3>3, <3>4
  <2>3. CASE \/ reminderJob[j].step = "previous" /\ Reminder!Goes(j, "send")
                /\ events[reminderJob[j].req.event] = None
             \/ reminderJob[j].step = "send" /\ Reminder!Goes(j, "record")
    <3>1. /\ reminderJob' \in [ReminderJobs -> ReminderTasks] /\ OthersStay(j) /\ lock' = lock
          /\ reminderJob'[j].step \in {"send", "record"} /\ reminderJob'[j].req = reminderJob[j].req
      BY <1>1, <2>3, ReminderGoes DEF ReminderSteps
    <3>2. lock = j /\ events[reminderJob[j].req.event] = None /\ reminderJob[j].req \in signed
      BY <1>1, <2>3 DEF Delivers
    <3>3. \A k \in ReminderJobs \ {j} : Delivers(k)'
      BY <1>1, <3>1, <3>2 DEF OthersStay, Delivers
    <3>4. Delivers(j)'
      BY <1>1, <3>1, <3>2 DEF Delivers
    <3> QED  BY <1>1, <3>1, <3>3, <3>4 DEF ReminderTypes
  <2> QED  BY <2>1, <2>2, <2>3 DEF Reminder!Previous, Reminder!Send, Reminder!Cut
<1>3. ReminderTypes'
  BY <1>1, <1>2 DEF ReminderTypes
<1>4. (\A n \in Nonces : LetOnce(n)') /\ \A e \in Events : RowKept(e)'
  BY <1>1 DEF ReminderInv, LetOnce, RowKept, Reminder!Overtaken
<1> QED  BY <1>1, <1>2, <1>3, <1>4 DEF ReminderInv, Distinct

(* A nonce is reserved once: its row stays as long as its request is recent. *)
LEMMA ReserveReminds ==
    ASSUME ReminderInv, NEW j \in ReminderJobs, Reminder!Reserve(j) PROVE ReminderInv'
<1> USE ReminderAssumption
<1> DEFINE left == [m \in Nonces |-> IF nonces[m] = None THEN None
                                     ELSE IF Reminder!Expired(nonces[m]) THEN None ELSE nonces[m]]
<1>1. /\ ReminderTypes /\ Distinct /\ (\A k \in ReminderJobs : Delivers(k)) /\ \A m \in Nonces : LetOnce(m)
      /\ reminderJob[j].step = "reserve" /\ UNCHANGED <<now, signed, key, events, recorded>>
  BY DEF ReminderInv, Reminder!Reserve, Reminder!At, Reminder!clock
<1>2. /\ reminderJob[j].req \in signed /\ lock = j
      /\ reminderJob[j].req.at <= now + Skew /\ now <= reminderJob[j].req.at + Skew
      /\ reminderJob[j].req.nonce \in Nonces /\ now \in Nat /\ now \in 0 .. ReminderTime
      /\ \A r \in signed : r.at \in Nat /\ r.nonce \in Nonces
  BY <1>1 DEF Delivers, ReminderTypes, Reminder!Requests
<1>a. PICK n \in Nonces : n = reminderJob[j].req.nonce
  BY <1>2
<1>3. /\ left \in [Nonces -> Times]
      /\ \A m \in Nonces : \/ left[m] = nonces[m]
                           \/ left[m] = None /\ nonces[m] \in Nat /\ nonces[m] + NonceRetention < now
      /\ \A m \in Nonces : nonces[m] # None /\ nonces[m] + NonceRetention < now => left[m] = None
  BY <1>1, <1>2 DEF ReminderTypes, Times, Reminder!Expired
<1>4. \/ left[n] # None /\ nonces' = left /\ Reminder!Ends(j) /\ let' = let
      \/ /\ left[n] = None /\ nonces' = [left EXCEPT ![n] = now] /\ Reminder!Goes(j, "previous")
         /\ let' = [let EXCEPT ![n] = @ + 1]
  BY <1>a DEF Reminder!Reserve
<1> HIDE DEF left
<1>5. \A m \in Nonces : let[m] = 1 /\ left[m] = None => \A r \in signed : r.nonce = m => r.at + Skew < now
  <2> SUFFICES ASSUME NEW m \in Nonces, let[m] = 1, left[m] = None, NEW r \in signed, r.nonce = m,
                      ~(r.at + Skew < now)
               PROVE  FALSE
    OBVIOUS
  <2>1. nonces[m] # None /\ r.at <= nonces[m] + Skew
    BY <1>1 DEF LetOnce
  <2>2. nonces[m] \in Nat /\ nonces[m] + NonceRetention < now
    BY <1>3, <2>1
  <2> QED  BY <1>2, <2>1, <2>2
<1>6. \A m \in Nonces : let[m] = 1 =>
         \/ left[m] # None /\ \A r \in signed : r.nonce = m => r.at <= left[m] + Skew
         \/ \A r \in signed : r.nonce = m => r.at + Skew < now
  BY <1>1, <1>3, <1>5 DEF LetOnce
<1>7. (\A k \in ReminderJobs : Delivers(k)') /\ ReminderTypes' /\ \A m \in Nonces : LetOnce(m)'
  <2>1. CASE left[n] # None /\ nonces' = left /\ Reminder!Ends(j) /\ let' = let
    <3>1. /\ reminderJob' \in [ReminderJobs -> ReminderTasks] /\ OthersStay(j) /\ lock' = None
          /\ reminderJob'[j].step = "idle"
      BY <1>1, <2>1, ReminderEnds
    <3>2. \A k \in ReminderJobs : Delivers(k)'
      BY <1>1, <1>2, <3>1 DEF OthersStay, Delivers
    <3>3. \A m \in Nonces : LetOnce(m)'
      BY <1>1, <1>6, <2>1 DEF LetOnce
    <3> QED  BY <1>1, <1>3, <2>1, <3>1, <3>2, <3>3 DEF ReminderTypes
  <2>2. CASE /\ left[n] = None /\ nonces' = [left EXCEPT ![n] = now] /\ Reminder!Goes(j, "previous")
             /\ let' = [let EXCEPT ![n] = @ + 1]
    <3>1. /\ reminderJob' \in [ReminderJobs -> ReminderTasks] /\ OthersStay(j) /\ lock' = lock
          /\ reminderJob'[j].step = "previous" /\ reminderJob'[j].req = reminderJob[j].req
      BY <1>1, <2>2, ReminderGoes DEF ReminderSteps
    <3>2. \A k \in ReminderJobs : Delivers(k)'
      BY <1>1, <1>2, <3>1 DEF OthersStay, Delivers
    <3>3. let[n] = 0
      <4>1. let[n] # 1
        BY <1>2, <1>a, <1>5, <2>2
      <4> QED  BY <1>1, <1>2, <4>1 DEF LetOnce
    <3>4. let'[n] = 1 /\ let' \in [Nonces -> Nat] /\ nonces'[n] = now /\ nonces' \in [Nonces -> Times]
          /\ \A m \in Nonces \ {n} : let'[m] = let[m] /\ nonces'[m] = left[m]
      BY <1>1, <1>2, <1>3, <2>2, <3>3 DEF ReminderTypes, Times
    <3>5. LetOnce(n)'
      <4>1. \A r \in signed : r.nonce = n => r.at <= now + Skew
        BY <1>1, <1>2, <1>a DEF Distinct
      <4> QED  BY <1>1, <1>2, <1>a, <3>4, <4>1 DEF LetOnce
    <3>6. \A m \in Nonces \ {n} : LetOnce(m)'
      BY <1>1, <1>6, <3>4 DEF LetOnce
    <3> QED  BY <1>1, <3>1, <3>2, <3>4, <3>5, <3>6 DEF ReminderTypes
  <2> QED  BY <1>4, <2>1, <2>2
<1>8. \A e \in Events : RowKept(e)'
  BY <1>1 DEF ReminderInv, RowKept, Reminder!Overtaken
<1> QED  BY <1>1, <1>7, <1>8 DEF ReminderInv, Distinct

(* What the cap takes from the table is overtaken by what stays. *)
LEMMA RecordReminds ==
    ASSUME ReminderInv, NEW j \in ReminderJobs, Reminder!Record(j) PROVE ReminderInv'
<1> USE ReminderAssumption
<1>a. PICK e \in Events : e = reminderJob[j].req.event
  BY DEF ReminderInv, Delivers, ReminderTypes, Reminder!Requests, Reminder!Record, Reminder!At
<1> DEFINE written == [events EXCEPT ![e] = now]
           listed == {o \in Events : written[o] # None}
           after(o) == {p \in Events \ {o} : recorded[p] # None /\ recorded[o] <= recorded[p]}
<1>1. /\ ReminderTypes /\ Distinct /\ (\A k \in ReminderJobs : Delivers(k)) /\ \A o \in Events : RowKept(o)
      /\ reminderJob[j].step = "record" /\ UNCHANGED <<now, signed, key, nonces, let>>
      /\ recorded' = [recorded EXCEPT ![e] = now] /\ Reminder!Ends(j)
  BY <1>a DEF ReminderInv, Reminder!Record, Reminder!At, Reminder!clock
<1>2. /\ lock = j /\ now \in Nat /\ now \in Times /\ now # None
      /\ events \in [Events -> Times] /\ recorded \in [Events -> Times]
  BY <1>1 DEF Delivers, ReminderTypes, Reminder!Requests, Times
<1>3. \/ Cardinality(listed) <= MaxEvents /\ events' = written
      \/ /\ Cardinality(listed) > MaxEvents
         /\ \E o \in Reminder!Oldest(written, e) : events' = [written EXCEPT ![o] = None]
  <2>1. Cardinality(listed) \in Nat
    BY FS_Subset, FS_CardinalityType
  <2>2. IF Reminder!Cardinality(listed) > MaxEvents
        THEN \E o \in Reminder!Oldest(written, e) : events' = [written EXCEPT ![o] = None]
        ELSE events' = written
    BY <1>a DEF Reminder!Record
  <2>3. Reminder!Cardinality(listed) = Cardinality(listed) /\ MaxEvents \in Nat
    BY ReminderCounts
  <2> HIDE DEF listed, written
  <2> QED  BY <2>1, <2>2, <2>3
<1>4. /\ written \in [Events -> Times] /\ written[e] = now
      /\ \A o \in Events \ {e} : written[o] = events[o]
  BY <1>2
<1>5. /\ recorded' \in [Events -> Times] /\ recorded'[e] = now
      /\ \A o \in Events \ {e} : recorded'[o] = recorded[o]
  BY <1>1, <1>2
<1>6. \A o \in Events : recorded'[o] # None => recorded'[o] \in Nat /\ recorded'[o] <= now
  BY <1>1, <1>2, <1>5 DEF RowKept, Times
<1> HIDE DEF written
<1>7. /\ reminderJob' \in [ReminderJobs -> ReminderTasks] /\ OthersStay(j) /\ lock' = None
      /\ reminderJob'[j].step = "idle"
  BY <1>1, ReminderEnds
<1>8. \A k \in ReminderJobs : Delivers(k)'
  <2>1. \A k \in ReminderJobs \ {j} : reminderJob[k].step \in {"idle", "wait"}
    <3> SUFFICES ASSUME NEW k \in ReminderJobs \ {j} PROVE reminderJob[k].step \in {"idle", "wait"}
      OBVIOUS
    <3>1. reminderJob[k] \in ReminderTasks /\ Delivers(k)
      BY <1>1 DEF ReminderTypes
    <3> QED  BY <1>2, <3>1 DEF ReminderTasks, ReminderSteps, Delivers
  <2> QED  BY <1>1, <1>7, <2>1 DEF OthersStay, Delivers
<1>9. \A n \in Nonces : LetOnce(n)'
  BY <1>1 DEF ReminderInv, LetOnce
<1>10. \A o \in Events \ {e} : recorded[o] # None /\ Reminder!Overtaken(o) => Reminder!Overtaken(o)'
  <2> SUFFICES ASSUME NEW o \in Events \ {e}, recorded[o] # None, Reminder!Overtaken(o)
               PROVE  Reminder!Overtaken(o)'
    OBVIOUS
  <2>1. after(o) \subseteq after(o)'
    BY <1>2, <1>5, <1>6
  <2>2. IsFiniteSet(after(o)') /\ IsFiniteSet(after(o))
    BY FS_Subset
  <2>3. Cardinality(after(o)) <= Cardinality(after(o)') /\ Cardinality(after(o)) \in Nat /\ Cardinality(after(o)') \in Nat
    BY <2>1, <2>2, FS_Subset, FS_CardinalityType
  <2>4. Cardinality(after(o)) >= MaxEvents
    BY ReminderCounts DEF Reminder!Overtaken
  <2>5. Cardinality(after(o)') >= MaxEvents
    BY <2>3, <2>4
  <2> QED  BY <2>5, ReminderCounts DEF Reminder!Overtaken
<1>11. events' \in [Events -> Times] /\ \A o \in Events : RowKept(o)'
  <2>1. CASE Cardinality(listed) <= MaxEvents /\ events' = written
    <3>1. RowKept(e)'
      BY <1>1, <1>2, <1>4, <1>5, <2>1 DEF RowKept
    <3>2. \A o \in Events \ {e} : RowKept(o)'
      BY <1>1, <1>4, <1>5, <1>6, <1>10, <2>1 DEF RowKept
    <3> QED  BY <1>4, <2>1, <3>1, <3>2
  <2>2. CASE /\ Cardinality(listed) > MaxEvents
             /\ \E o \in Reminder!Oldest(written, e) : events' = [written EXCEPT ![o] = None]
    <3>1. PICK g \in Reminder!Oldest(written, e) : events' = [written EXCEPT ![g] = None]
      BY <2>2
    <3>2. /\ g \in Events \ {e} /\ written[g] # None
          /\ \A p \in Events \ {e} : written[p] # None => written[g] <= written[p]
      BY <1>4, <3>1 DEF Reminder!Oldest
    <3>3. /\ events' \in [Events -> Times] /\ events'[g] = None /\ events'[e] = now
          /\ \A o \in Events \ {e, g} : events'[o] = events[o]
      BY <1>2, <1>4, <3>1, <3>2 DEF Times
    <3>4. listed \ {g} \subseteq after(g)'
      <4> SUFFICES ASSUME NEW p \in listed \ {g} PROVE p \in after(g)'
        OBVIOUS
      <4>1. recorded'[g] = written[g] /\ recorded'[g] # None /\ recorded'[g] <= now
        BY <1>1, <1>4, <1>5, <1>6, <3>2 DEF RowKept
      <4>2. CASE p = e
        BY <1>2, <1>5, <4>1, <4>2
      <4>3. CASE p # e
        <5>1. recorded'[p] = written[p] /\ written[p] # None
          BY <1>1, <1>4, <1>5, <4>3 DEF RowKept
        <5> QED  BY <3>2, <4>1, <4>3, <5>1
      <4> QED  BY <4>2, <4>3
    <3>5. g \in listed /\ IsFiniteSet(listed) /\ IsFiniteSet(after(g)')
      BY <3>2, FS_Subset
    <3> HIDE DEF listed
    <3>6. Cardinality(listed \ {g}) = Cardinality(listed) - 1 /\ Cardinality(listed) \in Nat
      BY <3>5, FS_RemoveElement, FS_CardinalityType
    <3>7. Cardinality(listed \ {g}) <= Cardinality(after(g)') /\ Cardinality(after(g)') \in Nat
      BY <3>4, <3>5, FS_Subset, FS_CardinalityType
    <3>8. Cardinality(after(g)') >= MaxEvents
      BY <2>2, <3>6, <3>7
    <3>9. Reminder!Overtaken(g)'
      BY <3>8, ReminderCounts DEF Reminder!Overtaken
    <3>10. RowKept(g)'
      BY <1>1, <1>6, <3>2, <3>3, <3>9 DEF RowKept
    <3>11. RowKept(e)'
      BY <1>1, <1>2, <1>5, <3>3 DEF RowKept
    <3>12. \A o \in Events \ {e, g} : RowKept(o)'
      BY <1>1, <1>5, <1>6, <1>10, <3>3 DEF RowKept
    <3> QED  BY <3>3, <3>10, <3>11, <3>12
  <2> QED  BY <1>3, <2>1, <2>2
<1>12. ReminderTypes'
  BY <1>1, <1>5, <1>7, <1>11 DEF ReminderTypes
<1> QED  BY <1>1, <1>8, <1>9, <1>11, <1>12 DEF ReminderInv, Distinct

LEMMA RemindersKept == ReminderInv /\ [Reminder!Next]_(Reminder!vars) => ReminderInv'
<1> SUFFICES ASSUME ReminderInv, [Reminder!Next]_(Reminder!vars) PROVE ReminderInv'
  OBVIOUS
<1>1. CASE UNCHANGED Reminder!vars
  BY <1>1 DEF Reminder!vars, Reminder!clock, Reminder!table, Reminder!history, ReminderInv,
              ReminderTypes, Distinct, Delivers, LetOnce, RowKept, Reminder!Overtaken
<1> QED  BY <1>1, TickReminds, ConfigureReminds, RestartReminds, ReceiveReminds, LockReminds,
            ReserveReminds, RecordReminds DEF Reminder!Next

LEMMA RemindersTyped == ReminderInv => Reminder!TypeOK /\ Reminder!RemindedOnce
<1> SUFFICES ASSUME ReminderInv PROVE Reminder!TypeOK /\ Reminder!RemindedOnce
  OBVIOUS
<1>1. /\ ReminderTypes /\ (\A j \in ReminderJobs : Delivers(j))
      /\ (\A n \in Nonces : LetOnce(n)) /\ \A e \in Events : RowKept(e)
  BY DEF ReminderInv
<1>2. Reminder!TypeOK
  BY <1>1 DEF ReminderTypes, Delivers, Times, Reminder!TypeOK
<1>3. \A n \in Nonces : let[n] <= 1
  BY <1>1 DEF LetOnce
<1>4. \A j \in ReminderJobs : reminderJob[j].step \in {"send", "record"} =>
         /\ lock = j /\ reminderJob[j].req.event \in Events
         /\ events[reminderJob[j].req.event] = None
  BY <1>1 DEF ReminderTypes, Delivers, Reminder!Requests
<1>5. Reminder!RemindedOnce
  BY <1>1, <1>3, <1>4 DEF RowKept, Reminder!RemindedOnce, Reminder!At
<1> QED  BY <1>2, <1>5

-----------------------------------------------------------------------------
(* Phones that leave (Push). *)

PushSteps == {"idle", "register", "member", "write", "unregister", "count", "forget", "swap",
              "tokens", "settings", "select", "posted", "clean", "drop"}
PushTasks == [step : PushSteps, phone : {None} \cup Push!Phones,
              key : {None} \cup Push!Members \cup Push!Phones,
              who : SUBSET Push!Phones, toks : SUBSET PushTokens, all : BOOLEAN]

PushTypes ==
    /\ new \subseteq Push!Phones /\ paired \subseteq Push!Phones /\ late \subseteq Push!Phones
    /\ token \in [Push!Phones -> {None} \cup PushTokens] /\ asked \in [Push!Phones -> {None} \cup PushTokens]
    /\ data \subseteq Push!Members \cup Push!Phones /\ dead \subseteq PushTokens
    /\ pushActive \in BOOLEAN /\ pushJob \in [PushJobs -> PushTasks]

(* A phone that was never paired, and may yet be. *)
Unused(p) ==
    p \in new \/ \E j \in PushJobs : (pushJob[j].step = "swap" /\ pushJob[j].phone = p)

(* Who asks for something is paired, or left meanwhile. *)
AsksWell(t) ==
    /\ t.step \in {"register", "member", "write"}
         => t.phone \in Push!Phones /\ t.phone \in paired \cup late /\ ~Unused(t.phone)
    /\ t.step = "write"
         => \/ t.key = Push!MemberOf(t.phone)
            \/ t.key = t.phone /\ t.phone \notin paired

(* Who leaves is paired no more, or will not be once the new owner's phone is. *)
LeavesWell(t) ==
    /\ t.step = "unregister" => /\ t.who \cap paired = {} /\ (\A p \in t.who : ~Unused(p))
                                /\ t.key \in {None} \cup Push!Members
    /\ t.step \in {"count", "forget"} => t.key \in Push!Members
    /\ t.step = "swap" => /\ t.phone \in Owners \ new
                          /\ t.who \subseteq Owners /\ \A p \in t.who : ~Unused(p)

(* A batch drops what is dead, from phones that did not register since. *)
DropsWell(t) ==
    /\ t.step = "clean" => t.toks \subseteq dead
    /\ t.step = "drop" => \A p \in t.who \ late : token[p] \in dead \cup {None}

Clears(t, p) == t.step = "tokens" \/ (t.step = "unregister" /\ p \in t.who)

PhoneKept(p) ==
    /\ Unused(p) => token[p] = None /\ asked[p] = None /\ p \notin paired
    /\ p \notin late => IF p \in paired THEN asked[p] \in dead \cup {token[p], None}
                        ELSE token[p] # None => \E j \in PushJobs : Clears(pushJob[j], p)

MemberKept(m) ==
    \/ \E p \in paired : Push!MemberOf(p) = m
    \/ \E j \in PushJobs : Push!Forgets(j, m)
    \/ \E p \in late : m \in {p, Push!MemberOf(p)}

PushInv ==
    /\ PushTypes
    /\ \A j, k \in PushJobs : (/\ pushJob[j].step = "swap" /\ pushJob[k].step = "swap"
                               /\ pushJob[j].phone = pushJob[k].phone) => j = k
    /\ \A j \in PushJobs : AsksWell(pushJob[j]) /\ LeavesWell(pushJob[j]) /\ DropsWell(pushJob[j])
    /\ \A p \in Push!Phones : PhoneKept(p)
    /\ \A m \in data : MemberKept(m)

LEMMA PushConstants ==
    /\ None \notin Push!Phones /\ None \notin Push!Members
    /\ Owners \subseteq Push!Phones /\ \A p \in Push!Phones : Push!MemberOf(p) \in Push!Members
BY PushAssumption DEF Push!Phones, Push!Members, Push!MemberOf

LEMMA IdlePush == /\ Push!Idle \in PushTasks /\ Push!Idle.step = "idle"
                  /\ AsksWell(Push!Idle) /\ LeavesWell(Push!Idle) /\ DropsWell(Push!Idle)
<1>1. Push!Idle \in PushTasks /\ Push!Idle.step = "idle"
  BY DEF Push!Idle, PushTasks, PushSteps
<1> QED  BY <1>1 DEF AsksWell, LeavesWell, DropsWell

LEMMA PushStarts == Push!Init => PushInv
<1> SUFFICES ASSUME Push!Init PROVE PushInv
  OBVIOUS
<1>1. /\ new = Push!Phones /\ paired = {} /\ data = {} /\ pushActive = TRUE /\ dead = {} /\ late = {}
      /\ token \in [Push!Phones -> {None} \cup PushTokens] /\ asked \in [Push!Phones -> {None} \cup PushTokens]
      /\ pushJob \in [PushJobs -> PushTasks] /\ \A j \in PushJobs : pushJob[j].step = "idle"
      /\ \A p \in Push!Phones : token[p] = None /\ asked[p] = None
  BY IdlePush DEF Push!Init
<1>2. PushTypes
  BY <1>1 DEF PushTypes
<1> QED  BY <1>1, <1>2 DEF PushInv, AsksWell, LeavesWell, DropsWell, PhoneKept

LEMMA PushTurns ==
    ASSUME PushTypes, NEW j \in PushJobs, NEW task \in PushTasks, Push!Goes(j, task)
    PROVE  /\ pushJob' \in [PushJobs -> PushTasks] /\ pushJob'[j] = task
           /\ \A k \in PushJobs \ {j} : pushJob'[k] = pushJob[k]
BY DEF Push!Goes, PushTypes

(* A job that goes on, or begins, and neither removes a phone nor will. *)
Leaving == {"unregister", "count", "forget", "swap", "tokens", "settings"}

LEMMA PushQuiet ==
    ASSUME PushInv, NEW j \in PushJobs, NEW task \in PushTasks, Push!Goes(j, task),
           UNCHANGED <<new, paired, token, data, pushActive, dead, asked, late>>,
           pushJob[j].step \notin Leaving, task.step \notin Leaving, AsksWell(task), DropsWell(task)
    PROVE  PushInv'
<1>1. /\ pushJob' \in [PushJobs -> PushTasks] /\ pushJob'[j] = task
      /\ \A k \in PushJobs \ {j} : pushJob'[k] = pushJob[k]
  BY PushTurns DEF PushInv
<1>2. PushTypes'
  BY <1>1 DEF PushInv, PushTypes
<1>3. \A p : Unused(p)' <=> Unused(p)
  BY <1>1 DEF Unused, Leaving
<1>4. \A k \in PushJobs : AsksWell(pushJob[k])' /\ LeavesWell(pushJob[k])' /\ DropsWell(pushJob[k])'
  <2>1. \A k \in PushJobs \ {j} : AsksWell(pushJob[k])' /\ LeavesWell(pushJob[k])' /\ DropsWell(pushJob[k])'
    BY <1>1, <1>3 DEF PushInv, AsksWell, LeavesWell, DropsWell
  <2>2. AsksWell(pushJob[j])' /\ LeavesWell(pushJob[j])' /\ DropsWell(pushJob[j])'
    BY <1>1, <1>3 DEF AsksWell, LeavesWell, DropsWell, Leaving
  <2> QED  BY <2>1, <2>2
<1>5. \A p \in Push!Phones : PhoneKept(p)'
  <2>1. \A p : \A k \in PushJobs : Clears(pushJob[k], p) => Clears(pushJob'[k], p)
    BY <1>1 DEF Clears, Leaving
  <2> QED  BY <1>3, <2>1 DEF PushInv, PhoneKept
<1>6. \A m \in data : MemberKept(m)'
  <2>1. \A m : \A k \in PushJobs : Push!Forgets(k, m) => Push!Forgets(k, m)'
    BY <1>1 DEF Push!Forgets, Leaving
  <2> QED  BY <2>1 DEF PushInv, MemberKept
<1>7. \A k, l \in PushJobs : (/\ pushJob'[k].step = "swap" /\ pushJob'[l].step = "swap"
                              /\ pushJob'[k].phone = pushJob'[l].phone) => k = l
  BY <1>1 DEF PushInv, Leaving
<1> QED  BY <1>2, <1>4, <1>5, <1>6, <1>7 DEF PushInv

(* What a phone asks for, up to the write, and a batch up to its first drop. *)
LEMMA RequestsPush ==
    ASSUME PushInv, NEW j \in PushJobs,
           \/ \E p \in Push!Phones : Push!Save(j, p) \/ \E t \in PushTokens : Push!Register(j, p, t)
           \/ Push!FindMember(j)
    PROVE  PushInv'
<1> USE DEF Push!At
<1>1. /\ PushTypes /\ AsksWell(pushJob[j]) /\ pushJob[j] \in PushTasks
      /\ \A p \in paired : p \in Push!Phones /\ ~Unused(p)
  BY DEF PushInv, PushTypes, PhoneKept
<1>2. ASSUME NEW p \in Push!Phones, Push!Save(j, p) PROVE PushInv'
  <2> DEFINE task == [Push!Idle EXCEPT !.step = "member", !.phone = p]
  <2>1. task \in PushTasks /\ task.step = "member" /\ task.phone = p
    BY DEF Push!Idle, PushTasks, PushSteps
  <2>2. Push!Goes(j, task) /\ pushJob[j].step = "idle" /\ p \in paired
        /\ UNCHANGED <<new, paired, token, data, pushActive, dead, asked, late>>
    BY <1>2 DEF Push!Save
  <2> HIDE DEF task
  <2>3. AsksWell(task) /\ DropsWell(task)
    BY <1>1, <2>1, <2>2 DEF AsksWell, DropsWell
  <2> QED  BY <2>1, <2>2, <2>3, PushQuiet DEF Leaving
<1>3. ASSUME NEW p \in Push!Phones, NEW t \in PushTokens, Push!Register(j, p, t) PROVE PushInv'
  <2> DEFINE task == [Push!Idle EXCEPT !.step = "register", !.phone = p, !.toks = {t}]
  <2>1. task \in PushTasks /\ task.step = "register" /\ task.phone = p
    BY DEF Push!Idle, PushTasks, PushSteps
  <2>2. Push!Goes(j, task) /\ pushJob[j].step = "idle" /\ p \in paired
        /\ UNCHANGED <<new, paired, token, data, pushActive, dead, asked, late>>
    BY <1>3 DEF Push!Register
  <2> HIDE DEF task
  <2>3. AsksWell(task) /\ DropsWell(task)
    BY <1>1, <2>1, <2>2 DEF AsksWell, DropsWell
  <2> QED  BY <2>1, <2>2, <2>3, PushQuiet DEF Leaving
<1>4. CASE Push!FindMember(j)
  <2>1. PICK p \in Push!Phones : p = pushJob[j].phone /\ p \in paired \cup late /\ ~Unused(p)
    BY <1>1, <1>4 DEF AsksWell, Push!FindMember
  <2>2. PICK o \in Push!Members \cup Push!Phones : o = IF p \in paired THEN Push!MemberOf(p) ELSE p
    BY PushConstants
  <2> DEFINE task == [pushJob[j] EXCEPT !.step = "write", !.key = o]
  <2>3. task \in PushTasks /\ task.step = "write" /\ task.phone = p /\ task.key = o
    BY <1>1, <2>1 DEF PushTasks, PushSteps
  <2>4. Push!Goes(j, task) /\ pushJob[j].step = "member"
        /\ UNCHANGED <<new, paired, token, data, pushActive, dead, asked, late>>
    BY <1>4, <2>1, <2>2 DEF Push!FindMember
  <2> HIDE DEF task
  <2>5. AsksWell(task) /\ DropsWell(task)
    BY <2>1, <2>2, <2>3 DEF AsksWell, DropsWell
  <2> QED  BY <2>3, <2>4, <2>5, PushQuiet DEF Leaving
<1> QED  BY <1>2, <1>3, <1>4

LEMMA BatchesPush ==
    ASSUME PushInv, NEW j \in PushJobs,
           Push!Batch(j) \/ Push!Select(j) \/ Push!Answer(j) \/ Push!Clean(j)
    PROVE  PushInv'
<1> USE DEF Push!At, Push!Ends
<1>1. PushTypes /\ pushJob[j] \in PushTasks
  BY DEF PushInv, PushTypes
<1>2. /\ UNCHANGED <<new, paired, token, data, pushActive, dead, asked, late>>
      /\ pushJob[j].step \in {"idle", "select", "posted", "clean"}
  BY DEF Push!Batch, Push!Select, Push!Answer, Push!Clean
<1>3. \E task \in PushTasks : /\ Push!Goes(j, task) /\ task.step \in {"idle", "select", "posted", "clean", "drop"}
                              /\ DropsWell(task)
  <2>1. CASE Push!Ends(j)
    BY <2>1, IdlePush
  <2>2. CASE Push!Batch(j)
    <3>1. PICK all \in BOOLEAN :
            Push!Goes(j, [Push!Idle EXCEPT !.step = "select", !.all = all,
                                           !.who = {p \in Push!Phones : token[p] # None},
                                           !.toks = {token[p] : p \in Push!Phones} \ {None}])
      BY <2>2 DEF Push!Batch
    <3> DEFINE task == [Push!Idle EXCEPT !.step = "select", !.all = all,
                                         !.who = {p \in Push!Phones : token[p] # None},
                                         !.toks = {token[p] : p \in Push!Phones} \ {None}]
    <3>2. {token[p] : p \in Push!Phones} \ {None} \in SUBSET PushTokens
      BY <1>1 DEF PushTypes
    <3>3. task \in PushTasks /\ task.step = "select"
      BY <3>2 DEF Push!Idle, PushTasks, PushSteps
    <3> HIDE DEF task
    <3> QED  BY <3>1, <3>3 DEF task, DropsWell
  <2>3. CASE Push!Select(j) /\ ~Push!Ends(j)
    <3> DEFINE to == {p \in pushJob[j].who : pushJob[j].all \/ p \in paired \cap Owners}
               task == [pushJob[j] EXCEPT !.step = "posted", !.who = to]
    <3>1. task \in PushTasks /\ task.step = "posted"
      BY <1>1 DEF PushTasks, PushSteps
    <3>2. Push!Goes(j, task)
      BY <2>3 DEF Push!Select
    <3> HIDE DEF task
    <3> QED  BY <3>1, <3>2 DEF DropsWell
  <2>4. CASE Push!Answer(j) /\ ~Push!Ends(j)
    <3> DEFINE task == [pushJob[j] EXCEPT !.step = "clean", !.toks = pushJob[j].toks \cap dead]
    <3>1. task \in PushTasks /\ task.step = "clean" /\ task.toks \subseteq dead
      BY <1>1 DEF PushTasks, PushSteps
    <3>2. Push!Goes(j, task)
      BY <2>4 DEF Push!Answer
    <3> HIDE DEF task
    <3> QED  BY <3>1, <3>2 DEF DropsWell
  <2>5. CASE Push!Clean(j)
    <3> DEFINE hit == {p \in Push!Phones : token[p] \in pushJob[j].toks}
               task == [pushJob[j] EXCEPT !.step = "drop", !.who = hit]
    <3>1. task \in PushTasks /\ task.step = "drop" /\ task.who = hit
      BY <1>1 DEF PushTasks, PushSteps
    <3>2. Push!Goes(j, task) /\ pushJob[j].step = "clean"
      BY <2>5 DEF Push!Clean
    <3>3. pushJob[j].toks \subseteq dead
      BY <3>2 DEF PushInv, DropsWell
    <3>4. \A p \in hit : token[p] \in dead
      BY <3>3
    <3> HIDE DEF task, hit
    <3> QED  BY <3>1, <3>2, <3>4 DEF DropsWell
  <2> QED  BY <2>1, <2>2, <2>3, <2>4, <2>5
<1>4. PICK task \in PushTasks : /\ Push!Goes(j, task) /\ task.step \in {"idle", "select", "posted", "clean", "drop"}
                                /\ DropsWell(task)
  BY <1>3
<1>5. AsksWell(task)
  BY <1>4 DEF AsksWell
<1> QED  BY <1>2, <1>4, <1>5, PushQuiet DEF Leaving

(* The token is stored, or goes; the phone's data are written. *)
LEMMA StorePushes ==
    ASSUME PushInv, NEW j \in PushJobs, Push!Store(j) PROVE PushInv'
<1> USE DEF Push!At, Push!Ends
<1>1. /\ PushTypes /\ pushJob[j].step = "register" /\ pushJob[j] \in PushTasks
      /\ AsksWell(pushJob[j]) /\ Push!Goes(j, Push!Idle)
      /\ UNCHANGED <<new, paired, data, pushActive, dead>>
  BY DEF PushInv, PushTypes, Push!Store
<1>2. PICK p \in Push!Phones : p = pushJob[j].phone
  BY <1>1 DEF AsksWell
<1>3. PICK t \in pushJob[j].toks :
        /\ token' = [token EXCEPT ![p] = t] /\ asked' = [asked EXCEPT ![p] = t]
        /\ late' = IF \E k \in PushJobs : pushJob[k].step = "drop" /\ p \in pushJob[k].who
                   THEN late \cup {p} ELSE late
  BY <1>2 DEF Push!Store
<1>4. /\ pushJob' \in [PushJobs -> PushTasks] /\ pushJob'[j] = Push!Idle
      /\ \A k \in PushJobs \ {j} : pushJob'[k] = pushJob[k]
  BY <1>1, IdlePush, PushTurns
<1>5. PushTypes'
  BY <1>1, <1>2, <1>3, <1>4 DEF PushTypes, PushTasks
<1>6. \A q : Unused(q)' <=> Unused(q)
  BY <1>1, <1>4, IdlePush DEF Unused
<1>7. p \in paired \cup late /\ ~Unused(p)
  BY <1>1, <1>2 DEF AsksWell
<1>8. token'[p] = t /\ asked'[p] = t /\ \A q \in Push!Phones \ {p} : token'[q] = token[q] /\ asked'[q] = asked[q]
  BY <1>1, <1>3 DEF PushTypes
<1>9. late \subseteq late' /\ late' \subseteq late \cup {p}
      /\ \A k \in PushJobs : pushJob[k].step = "drop" /\ p \in pushJob[k].who => p \in late'
  BY <1>3
<1>10. \A k \in PushJobs : AsksWell(pushJob[k])' /\ LeavesWell(pushJob[k])' /\ DropsWell(pushJob[k])'
  <2>1. AsksWell(pushJob[j])' /\ LeavesWell(pushJob[j])' /\ DropsWell(pushJob[j])'
    BY <1>4, IdlePush DEF AsksWell, LeavesWell, DropsWell
  <2>2. \A k \in PushJobs \ {j} : AsksWell(pushJob[k])' /\ LeavesWell(pushJob[k])'
    BY <1>1, <1>4, <1>6, <1>9 DEF PushInv, AsksWell, LeavesWell
  <2>3. \A k \in PushJobs \ {j} : DropsWell(pushJob[k])'
    <3> SUFFICES ASSUME NEW k \in PushJobs \ {j} PROVE DropsWell(pushJob[k])'
      OBVIOUS
    <3>1. DropsWell(pushJob[k]) /\ pushJob[k].who \subseteq Push!Phones
      BY DEF PushInv, PushTypes, PushTasks
    <3> QED  BY <1>1, <1>4, <1>8, <1>9, <3>1 DEF DropsWell
  <2> QED  BY <2>1, <2>2, <2>3
<1>11. \A q \in Push!Phones : PhoneKept(q)'
  <2>1. \A q : \A k \in PushJobs : Clears(pushJob[k], q) => Clears(pushJob'[k], q)
    BY <1>1, <1>4 DEF Clears
  <2>2. PhoneKept(p)'
    BY <1>1, <1>6, <1>7, <1>8, <1>9 DEF PhoneKept
  <2>3. \A q \in Push!Phones \ {p} : PhoneKept(q)'
    BY <1>1, <1>6, <1>8, <1>9, <2>1 DEF PushInv, PhoneKept
  <2> QED  BY <2>2, <2>3
<1>12. \A m \in data : MemberKept(m)'
  <2>1. \A m : \A k \in PushJobs : Push!Forgets(k, m) => Push!Forgets(k, m)'
    BY <1>1, <1>4 DEF Push!Forgets
  <2> QED  BY <1>1, <1>9, <2>1 DEF PushInv, MemberKept
<1>13. \A k, l \in PushJobs : (/\ pushJob'[k].step = "swap" /\ pushJob'[l].step = "swap"
                               /\ pushJob'[k].phone = pushJob'[l].phone) => k = l
  BY <1>4, IdlePush DEF PushInv
<1> QED  BY <1>1, <1>5, <1>10, <1>11, <1>12, <1>13 DEF PushInv

LEMMA WritePushes ==
    ASSUME PushInv, NEW j \in PushJobs, Push!Write(j) PROVE PushInv'
<1> USE DEF Push!At, Push!Ends
<1>1. /\ PushTypes /\ pushJob[j].step = "write" /\ pushJob[j] \in PushTasks
      /\ AsksWell(pushJob[j]) /\ Push!Goes(j, Push!Idle) /\ data' = data \cup {pushJob[j].key}
      /\ UNCHANGED <<new, paired, token, pushActive, dead, asked, late>>
  BY DEF PushInv, PushTypes, Push!Write
<1>2. PICK p \in Push!Phones : p = pushJob[j].phone
  BY <1>1 DEF AsksWell
<1>3. PICK o \in Push!Members \cup Push!Phones : o = pushJob[j].key
  BY <1>1, <1>2, PushConstants DEF AsksWell
<1>4. /\ pushJob' \in [PushJobs -> PushTasks] /\ pushJob'[j] = Push!Idle
      /\ \A k \in PushJobs \ {j} : pushJob'[k] = pushJob[k]
  BY <1>1, IdlePush, PushTurns
<1>5. PushTypes'
  BY <1>1, <1>3, <1>4 DEF PushTypes
<1>6. \A q : Unused(q)' <=> Unused(q)
  BY <1>1, <1>4, IdlePush DEF Unused
<1>7. \A k \in PushJobs : AsksWell(pushJob[k])' /\ LeavesWell(pushJob[k])' /\ DropsWell(pushJob[k])'
  BY <1>1, <1>4, <1>6, IdlePush DEF PushInv, AsksWell, LeavesWell, DropsWell
<1>8. \A q \in Push!Phones : PhoneKept(q)'
  <2>1. \A q : \A k \in PushJobs : Clears(pushJob[k], q) => Clears(pushJob'[k], q)
    BY <1>1, <1>4 DEF Clears
  <2> QED  BY <1>1, <1>6, <2>1 DEF PushInv, PhoneKept
<1>9. \A m \in data' : MemberKept(m)'
  <2>1. \A m : \A k \in PushJobs : Push!Forgets(k, m) => Push!Forgets(k, m)'
    BY <1>1, <1>4 DEF Push!Forgets
  <2>2. \A m \in data : MemberKept(m)'
    BY <1>1, <2>1 DEF PushInv, MemberKept
  <2>3. p \in paired \cup late /\ (o = Push!MemberOf(p) \/ (o = p /\ p \notin paired))
    BY <1>1, <1>2, <1>3 DEF AsksWell
  <2>4. MemberKept(o)'
    BY <1>1, <2>3 DEF MemberKept, Push!MemberOf
  <2> QED  BY <1>1, <1>3, <2>2, <2>4
<1>10. \A k, l \in PushJobs : (/\ pushJob'[k].step = "swap" /\ pushJob'[l].step = "swap"
                               /\ pushJob'[k].phone = pushJob'[l].phone) => k = l
  BY <1>4, IdlePush DEF PushInv
<1> QED  BY <1>5, <1>7, <1>8, <1>9, <1>10 DEF PushInv

(* The app is installed and paired, or uninstalled; its token is taken back. *)
LEMMA PhonesPush ==
    ASSUME PushInv,
           \/ \E p \in Push!Phones : Push!Enroll(p) \/ Push!Unregister(p)
           \/ \E t \in PushTokens : Push!Uninstall(t)
    PROVE  PushInv'
<1>1. /\ PushTypes /\ UNCHANGED <<data, pushJob, pushActive, late>>
      /\ \A k \in PushJobs : AsksWell(pushJob[k]) /\ LeavesWell(pushJob[k]) /\ DropsWell(pushJob[k])
      /\ \A q \in Push!Phones : PhoneKept(q)
      /\ \A m \in data : MemberKept(m)
  BY DEF PushInv, Push!Enroll, Push!Unregister, Push!Uninstall
<1>2. \A k \in PushJobs : \A m : Push!Forgets(k, m)' <=> Push!Forgets(k, m)
  BY <1>1 DEF Push!Forgets, Push!At
<1>3. ASSUME NEW p \in Push!Phones, Push!Enroll(p) PROVE PushInv'
  <2>1. /\ p \in new /\ new' = new \ {p} /\ paired' = paired \cup {p} /\ UNCHANGED <<token, dead, asked>>
    BY <1>3 DEF Push!Enroll
  <2>2. \A k \in PushJobs : pushJob[k].step = "swap" => pushJob[k].phone # p
    BY <1>1, <2>1 DEF LeavesWell
  <2>3. (\A q : Unused(q)' <=> Unused(q) /\ q # p) /\ Unused(p)
    BY <1>1, <2>1, <2>2 DEF Unused
  <2>4. \A k \in PushJobs : AsksWell(pushJob[k])' /\ LeavesWell(pushJob[k])' /\ DropsWell(pushJob[k])'
    <3>1. \A k \in PushJobs : AsksWell(pushJob[k])' /\ DropsWell(pushJob[k])'
      BY <1>1, <2>1, <2>3 DEF AsksWell, DropsWell
    <3>2. \A k \in PushJobs : LeavesWell(pushJob[k])'
      BY <1>1, <2>1, <2>3 DEF LeavesWell
    <3> QED  BY <3>1, <3>2
  <2>5. \A q \in Push!Phones : PhoneKept(q)'
    BY <1>1, <2>1, <2>3 DEF PhoneKept
  <2>6. \A m \in data : MemberKept(m)'
    BY <1>1, <1>2, <2>1 DEF MemberKept
  <2>7. PushTypes'
    BY <1>1, <2>1 DEF PushTypes
  <2> QED  BY <1>1, <2>4, <2>5, <2>6, <2>7 DEF PushInv
<1>4. ASSUME NEW p \in Push!Phones, Push!Unregister(p) PROVE PushInv'
  <2>1. /\ token' = [token EXCEPT ![p] = None] /\ asked' = [asked EXCEPT ![p] = None]
        /\ UNCHANGED <<new, paired, dead>>
    BY <1>4 DEF Push!Unregister
  <2>2. token'[p] = None /\ asked'[p] = None /\ \A q \in Push!Phones \ {p} : token'[q] = token[q] /\ asked'[q] = asked[q]
    BY <1>1, <2>1 DEF PushTypes
  <2>3. \A q : Unused(q)' <=> Unused(q)
    BY <1>1, <2>1 DEF Unused
  <2>4. \A k \in PushJobs : AsksWell(pushJob[k])' /\ LeavesWell(pushJob[k])' /\ DropsWell(pushJob[k])'
    <3>1. \A k \in PushJobs : AsksWell(pushJob[k])' /\ LeavesWell(pushJob[k])'
      BY <1>1, <2>1, <2>3 DEF AsksWell, LeavesWell
    <3>2. \A k \in PushJobs : DropsWell(pushJob[k])'
      <4> SUFFICES ASSUME NEW k \in PushJobs PROVE DropsWell(pushJob[k])'
        OBVIOUS
      <4>1. DropsWell(pushJob[k]) /\ pushJob[k].who \subseteq Push!Phones
        BY <1>1 DEF PushTypes, PushTasks
      <4> QED  BY <1>1, <2>1, <2>2, <4>1 DEF DropsWell
    <3> QED  BY <3>1, <3>2
  <2>5. \A q \in Push!Phones : PhoneKept(q)'
    BY <1>1, <2>1, <2>2, <2>3 DEF PhoneKept
  <2>6. \A m \in data : MemberKept(m)'
    BY <1>1, <1>2, <2>1 DEF MemberKept
  <2>7. PushTypes'
    BY <1>1, <2>1 DEF PushTypes
  <2> QED  BY <1>1, <2>4, <2>5, <2>6, <2>7 DEF PushInv
<1>5. ASSUME NEW t \in PushTokens, Push!Uninstall(t) PROVE PushInv'
  <2>1. dead' = dead \cup {t} /\ UNCHANGED <<new, paired, token, asked>>
    BY <1>5 DEF Push!Uninstall
  <2>2. \A q : Unused(q)' <=> Unused(q)
    BY <1>1, <2>1 DEF Unused
  <2>3. \A k \in PushJobs : AsksWell(pushJob[k])' /\ LeavesWell(pushJob[k])' /\ DropsWell(pushJob[k])'
    BY <1>1, <2>1, <2>2 DEF AsksWell, LeavesWell, DropsWell
  <2>4. \A q \in Push!Phones : PhoneKept(q)'
    BY <1>1, <2>1, <2>2 DEF PhoneKept
  <2>5. \A m \in data : MemberKept(m)'
    BY <1>1, <1>2, <2>1 DEF MemberKept
  <2>6. PushTypes'
    BY <1>1, <2>1 DEF PushTypes
  <2> QED  BY <1>1, <2>3, <2>4, <2>5, <2>6 DEF PushInv
<1> QED  BY <1>3, <1>4, <1>5

(* A phone leaves, and what is left of it and its member goes. *)
LEMMA LeavePushes ==
    ASSUME PushInv, NEW j \in PushJobs, NEW p \in Push!Phones, Push!Leave(j, p) PROVE PushInv'
<1> USE DEF Push!At
<1> DEFINE task == [Push!Idle EXCEPT !.step = "unregister", !.who = {p}, !.key = Push!MemberOf(p)]
<1>1. /\ PushTypes /\ pushJob[j].step = "idle" /\ Push!Goes(j, task)
      /\ p \in paired /\ paired' = paired \ {p} /\ late' = late \cup (Push!Busy \cap {p})
      /\ UNCHANGED <<new, token, data, pushActive, dead, asked>>
  BY DEF PushInv, Push!Leave
<1>2. /\ task \in PushTasks /\ task.step = "unregister" /\ task.who = {p} /\ task.key = Push!MemberOf(p)
      /\ task.key \in Push!Members
  BY PushConstants DEF Push!Idle, PushTasks, PushSteps
<1> HIDE DEF task
<1>3. /\ pushJob' \in [PushJobs -> PushTasks] /\ pushJob'[j] = task
      /\ \A k \in PushJobs \ {j} : pushJob'[k] = pushJob[k]
  BY <1>1, <1>2, PushTurns
<1>4. PushTypes'
  BY <1>1, <1>3 DEF PushTypes
<1>5. \A q : Unused(q)' <=> Unused(q)
  BY <1>1, <1>2, <1>3 DEF Unused
<1>6. ~Unused(p)
  BY <1>1 DEF PushInv, PhoneKept
<1>7. \A k \in PushJobs : pushJob[k].step \in {"register", "member", "write"} /\ pushJob[k].phone = p => p \in late'
  BY <1>1 DEF Push!Busy, Push!Asks
<1>8. \A k \in PushJobs : AsksWell(pushJob[k])' /\ LeavesWell(pushJob[k])' /\ DropsWell(pushJob[k])'
  <2>1. AsksWell(pushJob[j])' /\ LeavesWell(pushJob[j])' /\ DropsWell(pushJob[j])'
    BY <1>1, <1>2, <1>3, <1>5, <1>6 DEF AsksWell, LeavesWell, DropsWell
  <2>2. \A k \in PushJobs \ {j} : AsksWell(pushJob[k])'
    BY <1>1, <1>3, <1>5, <1>7 DEF PushInv, AsksWell
  <2>3. \A k \in PushJobs \ {j} : LeavesWell(pushJob[k])' /\ DropsWell(pushJob[k])'
    BY <1>1, <1>3, <1>5 DEF PushInv, LeavesWell, DropsWell
  <2> QED  BY <2>1, <2>2, <2>3
<1>9. \A q \in Push!Phones : PhoneKept(q)'
  <2>1. \A q : \A k \in PushJobs : Clears(pushJob[k], q) => Clears(pushJob'[k], q)
    BY <1>1, <1>3 DEF Clears
  <2>2. Clears(pushJob'[j], p)
    BY <1>2, <1>3 DEF Clears
  <2> QED  BY <1>1, <1>5, <1>6, <2>1, <2>2 DEF PushInv, PhoneKept
<1>10. \A m \in data : MemberKept(m)'
  <2>1. \A m : \A k \in PushJobs : Push!Forgets(k, m) => Push!Forgets(k, m)'
    BY <1>1, <1>3 DEF Push!Forgets
  <2>2. Push!Forgets(j, Push!MemberOf(p))'
    BY <1>2, <1>3 DEF Push!Forgets, Push!MemberOf
  <2> QED  BY <1>1, <2>1, <2>2 DEF PushInv, MemberKept
<1>11. \A k, l \in PushJobs : (/\ pushJob'[k].step = "swap" /\ pushJob'[l].step = "swap"
                               /\ pushJob'[k].phone = pushJob'[l].phone) => k = l
  BY <1>2, <1>3 DEF PushInv
<1> QED  BY <1>1, <1>4, <1>8, <1>9, <1>10, <1>11 DEF PushInv

LEMMA UnregisterAllPushes ==
    ASSUME PushInv, NEW j \in PushJobs, Push!UnregisterAll(j) PROVE PushInv'
<1> USE DEF Push!At, Push!Ends
<1> DEFINE next == IF pushJob[j].key = None THEN Push!Idle ELSE [pushJob[j] EXCEPT !.step = "count"]
<1>1. /\ PushTypes /\ pushJob[j].step = "unregister" /\ pushJob[j] \in PushTasks /\ Push!Goes(j, next)
      /\ token' = [p \in Push!Phones |-> IF p \in pushJob[j].who THEN None ELSE token[p]]
      /\ UNCHANGED <<new, paired, data, pushActive, dead, asked, late>>
  BY DEF PushInv, PushTypes, Push!UnregisterAll
<1>2. PICK task \in PushTasks : /\ Push!Goes(j, task)
                                /\ \/ pushJob[j].key = None /\ task = Push!Idle
                                   \/ pushJob[j].key # None /\ task.step = "count" /\ task.key = pushJob[j].key
  <2>1. next \in PushTasks /\ \/ pushJob[j].key = None /\ next = Push!Idle
                              \/ pushJob[j].key # None /\ next.step = "count" /\ next.key = pushJob[j].key
    BY <1>1, IdlePush DEF PushTasks, PushSteps
  <2> HIDE DEF next
  <2> QED  BY <1>1, <2>1
<1> HIDE DEF next
<1>3. /\ pushJob' \in [PushJobs -> PushTasks] /\ pushJob'[j] = task /\ task.step \in {"idle", "count"}
      /\ \A k \in PushJobs \ {j} : pushJob'[k] = pushJob[k]
  BY <1>1, <1>2, PushTurns, IdlePush
<1>4. \A q : Unused(q)' <=> Unused(q)
  BY <1>1, <1>3 DEF Unused
<1>5. \A q \in Push!Phones : token'[q] \in {None, token[q]} /\ (q \notin pushJob[j].who => token'[q] = token[q])
                             /\ (q \in pushJob[j].who => token'[q] = None)
  BY <1>1
<1>6. PushTypes'
  BY <1>1, <1>3 DEF PushTypes
<1>7. LeavesWell(pushJob[j])
  BY DEF PushInv
<1>8. \A k \in PushJobs : AsksWell(pushJob[k])' /\ LeavesWell(pushJob[k])' /\ DropsWell(pushJob[k])'
  <2>1. AsksWell(pushJob[j])' /\ LeavesWell(pushJob[j])' /\ DropsWell(pushJob[j])'
    BY <1>1, <1>2, <1>3, <1>7, IdlePush DEF AsksWell, LeavesWell, DropsWell
  <2>2. \A k \in PushJobs \ {j} : AsksWell(pushJob[k])' /\ LeavesWell(pushJob[k])'
    BY <1>1, <1>3, <1>4 DEF PushInv, AsksWell, LeavesWell
  <2>3. \A k \in PushJobs \ {j} : DropsWell(pushJob[k])'
    <3> SUFFICES ASSUME NEW k \in PushJobs \ {j} PROVE DropsWell(pushJob[k])'
      OBVIOUS
    <3>1. DropsWell(pushJob[k]) /\ pushJob[k].who \subseteq Push!Phones
      BY DEF PushInv, PushTypes, PushTasks
    <3> QED  BY <1>1, <1>3, <1>5, <3>1 DEF DropsWell
  <2> QED  BY <2>1, <2>2, <2>3
<1>9. \A q \in Push!Phones : PhoneKept(q)'
  <2>1. \A q : \A k \in PushJobs \ {j} : Clears(pushJob[k], q) => Clears(pushJob'[k], q)
    BY <1>3 DEF Clears
  <2>2. \A q : Clears(pushJob[j], q) => q \in pushJob[j].who
    BY <1>1 DEF Clears
  <2>3. \A q \in Push!Phones : q \in pushJob[j].who => q \notin paired /\ ~Unused(q)
    BY <1>1, <1>7 DEF LeavesWell
  <2>4. ASSUME NEW q \in Push!Phones, q \in pushJob[j].who PROVE PhoneKept(q)'
    BY <1>1, <1>4, <1>5, <2>3, <2>4 DEF PhoneKept
  <2>5. ASSUME NEW q \in Push!Phones, q \notin pushJob[j].who PROVE PhoneKept(q)'
    BY <1>1, <1>4, <1>5, <2>1, <2>2, <2>5 DEF PushInv, PhoneKept
  <2> QED  BY <2>4, <2>5
<1>10. \A m \in data : MemberKept(m)'
  <2>1. \A m \in data : \A k \in PushJobs : Push!Forgets(k, m) => Push!Forgets(k, m)'
    BY <1>1, <1>2, <1>3, PushConstants DEF Push!Forgets, PushTypes
  <2> QED  BY <1>1, <2>1 DEF PushInv, MemberKept
<1>11. \A k, l \in PushJobs : (/\ pushJob'[k].step = "swap" /\ pushJob'[l].step = "swap"
                               /\ pushJob'[k].phone = pushJob'[l].phone) => k = l
  BY <1>3 DEF PushInv
<1> QED  BY <1>1, <1>6, <1>8, <1>9, <1>10, <1>11 DEF PushInv

LEMMA ForgetsPush ==
    ASSUME PushInv, NEW j \in PushJobs, Push!Count(j) \/ Push!Forget(j) PROVE PushInv'
<1> USE DEF Push!At, Push!Ends
<1>1. /\ PushTypes /\ pushJob[j].step \in {"count", "forget"} /\ pushJob[j] \in PushTasks
      /\ LeavesWell(pushJob[j]) /\ UNCHANGED <<new, paired, token, pushActive, dead, asked, late>>
  BY DEF PushInv, PushTypes, Push!Count, Push!Forget
<1>2. PICK o \in Push!Members : o = pushJob[j].key
  BY <1>1 DEF LeavesWell
<1>3. PICK task \in PushTasks : /\ Push!Goes(j, task)
        /\ \/ task = Push!Idle /\ data' = data /\ \E p \in paired : Push!MemberOf(p) = o
           \/ task = Push!Idle /\ data' = data \ {o}
           \/ task.step = "forget" /\ task.key = o /\ data' = data
  <2>1. CASE Push!Forget(j)
    BY <1>2, <2>1, IdlePush DEF Push!Forget
  <2>2. CASE Push!Count(j) /\ \E p \in paired : Push!MemberOf(p) = o
    BY <1>2, <2>2, IdlePush DEF Push!Count
  <2>3. CASE Push!Count(j) /\ ~\E p \in paired : Push!MemberOf(p) = o
    <3> DEFINE next == [pushJob[j] EXCEPT !.step = "forget"]
    <3>1. next \in PushTasks /\ next.step = "forget" /\ next.key = o
      BY <1>1, <1>2 DEF PushTasks, PushSteps
    <3>2. Push!Goes(j, next) /\ data' = data
      BY <1>2, <2>3 DEF Push!Count
    <3> HIDE DEF next
    <3> QED  BY <3>1, <3>2
  <2> QED  BY <2>1, <2>2, <2>3
<1>4. /\ pushJob' \in [PushJobs -> PushTasks] /\ pushJob'[j] = task /\ task.step \in {"idle", "forget"}
      /\ \A k \in PushJobs \ {j} : pushJob'[k] = pushJob[k]
  BY <1>1, <1>3, PushTurns, IdlePush
<1>5. \A q : Unused(q)' <=> Unused(q)
  BY <1>1, <1>4 DEF Unused
<1>6. data' \subseteq data /\ PushTypes'
  BY <1>1, <1>3, <1>4 DEF PushTypes
<1>7. \A k \in PushJobs : AsksWell(pushJob[k])' /\ LeavesWell(pushJob[k])' /\ DropsWell(pushJob[k])'
  <2>1. AsksWell(pushJob[j])' /\ LeavesWell(pushJob[j])' /\ DropsWell(pushJob[j])'
    BY <1>3, <1>4, IdlePush DEF AsksWell, LeavesWell, DropsWell
  <2>2. \A k \in PushJobs \ {j} : AsksWell(pushJob[k])' /\ LeavesWell(pushJob[k])' /\ DropsWell(pushJob[k])'
    BY <1>1, <1>4, <1>5 DEF PushInv, AsksWell, LeavesWell, DropsWell
  <2> QED  BY <2>1, <2>2
<1>8. \A q \in Push!Phones : PhoneKept(q)'
  <2>1. \A q : \A k \in PushJobs : Clears(pushJob[k], q) => Clears(pushJob'[k], q)
    BY <1>1, <1>4 DEF Clears
  <2> QED  BY <1>1, <1>5, <2>1 DEF PushInv, PhoneKept
<1>9. \A m \in data' : MemberKept(m)'
  <2> SUFFICES ASSUME NEW m \in data' PROVE MemberKept(m)'
    OBVIOUS
  <2>1. MemberKept(m)
    BY <1>6 DEF PushInv
  <2>2. \A k \in PushJobs \ {j} : Push!Forgets(k, m) => Push!Forgets(k, m)'
    BY <1>4 DEF Push!Forgets
  <2>3. Push!Forgets(j, m) => m = o
    BY <1>1, <1>2 DEF Push!Forgets
  <2>4. CASE m # o
    BY <1>1, <2>1, <2>2, <2>3, <2>4 DEF MemberKept
  <2>5. CASE m = o
    <3>1. CASE \E p \in paired : Push!MemberOf(p) = o
      BY <1>1, <2>5, <3>1 DEF MemberKept
    <3>2. CASE task.step = "forget" /\ task.key = o
      <4>1. Push!Forgets(j, m)'
        BY <1>4, <2>5, <3>2 DEF Push!Forgets
      <4> QED  BY <4>1 DEF MemberKept
    <3> QED  BY <1>3, <2>5, <3>1, <3>2
  <2> QED  BY <2>4, <2>5
<1>10. \A k, l \in PushJobs : (/\ pushJob'[k].step = "swap" /\ pushJob'[l].step = "swap"
                               /\ pushJob'[k].phone = pushJob'[l].phone) => k = l
  BY <1>4 DEF PushInv
<1> QED  BY <1>6, <1>7, <1>8, <1>9, <1>10 DEF PushInv

(* Owner recovery: the new phone takes the place of the owner's. *)
LEMMA RecoverPushes ==
    ASSUME PushInv, NEW j \in PushJobs, NEW p \in Push!Phones, Push!Recover(j, p) PROVE PushInv'
<1> USE DEF Push!At
<1> DEFINE task == [Push!Idle EXCEPT !.step = "swap", !.phone = p, !.who = paired \cap Owners]
<1>1. /\ PushTypes /\ pushJob[j].step = "idle" /\ Push!Goes(j, task)
      /\ p \in new \cap Owners /\ new' = new \ {p}
      /\ UNCHANGED <<paired, token, data, pushActive, dead, asked, late>>
  BY DEF PushInv, Push!Recover
<1>2. task \in PushTasks /\ task.step = "swap" /\ task.who = paired \cap Owners /\ task.phone = p
  BY PushConstants DEF Push!Idle, PushTasks, PushSteps
<1> HIDE DEF task
<1>3. /\ pushJob' \in [PushJobs -> PushTasks] /\ pushJob'[j] = task
      /\ \A k \in PushJobs \ {j} : pushJob'[k] = pushJob[k]
  BY <1>1, <1>2, PushTurns
<1>4. PushTypes'
  BY <1>1, <1>3 DEF PushTypes
<1>5. \A q : Unused(q)' <=> Unused(q)
  BY <1>1, <1>2, <1>3 DEF Unused
<1>6. \A q \in paired : ~Unused(q) /\ q \in Push!Phones
  BY <1>1 DEF PushInv, PhoneKept, PushTypes
<1>7. \A k \in PushJobs : AsksWell(pushJob[k])' /\ LeavesWell(pushJob[k])' /\ DropsWell(pushJob[k])'
  <2>1. AsksWell(pushJob[j])' /\ LeavesWell(pushJob[j])' /\ DropsWell(pushJob[j])'
    BY <1>1, <1>2, <1>3, <1>5, <1>6 DEF AsksWell, LeavesWell, DropsWell
  <2>2. \A k \in PushJobs \ {j} : AsksWell(pushJob[k])' /\ LeavesWell(pushJob[k])' /\ DropsWell(pushJob[k])'
    BY <1>1, <1>3, <1>5 DEF PushInv, AsksWell, LeavesWell, DropsWell
  <2> QED  BY <2>1, <2>2
<1>8. \A q \in Push!Phones : PhoneKept(q)'
  <2>1. \A q : \A k \in PushJobs : Clears(pushJob[k], q) => Clears(pushJob'[k], q)
    BY <1>1, <1>3 DEF Clears
  <2> QED  BY <1>1, <1>5, <2>1 DEF PushInv, PhoneKept
<1>9. \A m \in data : MemberKept(m)'
  <2>1. \A m : \A k \in PushJobs : Push!Forgets(k, m) => Push!Forgets(k, m)'
    BY <1>1, <1>3 DEF Push!Forgets
  <2> QED  BY <1>1, <2>1 DEF PushInv, MemberKept
<1>10. \A k, l \in PushJobs : (/\ pushJob'[k].step = "swap" /\ pushJob'[l].step = "swap"
                               /\ pushJob'[k].phone = pushJob'[l].phone) => k = l
  <2>1. \A k \in PushJobs \ {j} : pushJob[k].step = "swap" => pushJob[k].phone # p
    BY <1>1 DEF PushInv, LeavesWell
  <2> QED  BY <1>2, <1>3, <2>1 DEF PushInv
<1> QED  BY <1>1, <1>4, <1>7, <1>8, <1>9, <1>10 DEF PushInv

LEMMA SwapPushes ==
    ASSUME PushInv, NEW j \in PushJobs, Push!Swap(j) PROVE PushInv'
<1> USE DEF Push!At, Push!Ends
<1> DEFINE gone == paired \cap Owners
           task == IF gone = {} THEN Push!Idle
                   ELSE [Push!Idle EXCEPT !.step = "unregister", !.who = pushJob[j].who]
<1>1. /\ PushTypes /\ pushJob[j].step = "swap" /\ pushJob[j] \in PushTasks /\ LeavesWell(pushJob[j])
      /\ Push!Goes(j, task) /\ UNCHANGED <<new, token, data, pushActive, dead, asked>>
  BY DEF PushInv, PushTypes, Push!Swap, Push!Swaps
<1>2. PICK p \in Owners : p = pushJob[j].phone
  BY <1>1 DEF LeavesWell
<1>3. \/ gone = {} /\ UNCHANGED <<paired, late>>
      \/ /\ gone # {} /\ paired' = (paired \ gone) \cup {p}
         /\ late' = late \cup (Push!Busy \cap gone) \cup (gone \ pushJob[j].who)
  BY <1>2 DEF Push!Swap, Push!Swaps
<1>4. /\ task \in PushTasks /\ task.step \in {"idle", "unregister"} /\ AsksWell(task) /\ DropsWell(task)
      /\ gone = {} => task.step = "idle"
      /\ gone # {} => task.step = "unregister" /\ task.who = pushJob[j].who /\ task.key = None
  BY <1>1, IdlePush DEF Push!Idle, PushTasks, PushSteps, AsksWell, DropsWell
<1> HIDE DEF task
<1>5. /\ pushJob' \in [PushJobs -> PushTasks] /\ pushJob'[j] = task
      /\ \A k \in PushJobs \ {j} : pushJob'[k] = pushJob[k]
  BY <1>1, <1>4, PushTurns
<1>6. p \in Push!Phones /\ Unused(p) /\ token[p] = None /\ asked[p] = None /\ p \notin paired /\ p \notin new
  BY <1>1, <1>2, PushConstants DEF PushInv, Unused, PhoneKept, LeavesWell
<1>7. (\A q : Unused(q)' => Unused(q)) /\ ~Unused(p)'
  <2>1. \A k \in PushJobs \ {j} : pushJob[k].step = "swap" => pushJob[k].phone # p
    BY <1>1, <1>2 DEF PushInv
  <2> QED  BY <1>1, <1>4, <1>5, <1>6, <2>1 DEF Unused
<1>8. PushTypes'
  BY <1>1, <1>3, <1>5, <1>6 DEF PushTypes
<1>9. pushJob[j].who \subseteq Owners /\ \A q \in pushJob[j].who : ~Unused(q)
  BY <1>1 DEF LeavesWell
<1>10. /\ late \subseteq late' /\ paired' \subseteq paired \cup {p} /\ \A q \in paired \ paired' : q \in gone /\ gone # {}
       /\ \A k \in PushJobs : pushJob[k].step \in {"register", "member", "write"} =>
            (pushJob[k].phone \in paired \ paired' => pushJob[k].phone \in late')
  <2>1. \A k \in PushJobs : pushJob[k].step \in {"register", "member", "write"} /\ pushJob[k].phone \in Push!Phones
                              => pushJob[k].phone \in Push!Busy
    BY DEF Push!Busy, Push!Asks
  <2>2. late \subseteq late' /\ paired' \subseteq paired \cup {p} /\ \A q \in paired \ paired' : q \in gone /\ gone # {}
    BY <1>3
  <2>3. gone \subseteq Push!Phones
    BY <1>1 DEF PushTypes
  <2> HIDE DEF gone
  <2>4. gone # {} => Push!Busy \cap gone \subseteq late'
    BY <1>3
  <2> QED  BY <2>1, <2>2, <2>3, <2>4
<1>11. \A k \in PushJobs : AsksWell(pushJob[k])' /\ LeavesWell(pushJob[k])' /\ DropsWell(pushJob[k])'
  <2>1. AsksWell(pushJob[j])' /\ DropsWell(pushJob[j])'
    BY <1>4, <1>5 DEF AsksWell, DropsWell
  <2>2. LeavesWell(pushJob[j])'
    <3>1. CASE gone = {}
      BY <1>4, <1>5, <3>1 DEF LeavesWell
    <3>2. CASE gone # {}
      <4>1. pushJob[j].who \cap paired' = {}
        BY <1>3, <1>6, <1>9, <3>2
      <4> QED  BY <1>4, <1>5, <1>7, <1>9, <3>2, <4>1 DEF LeavesWell
    <3> QED  BY <3>1, <3>2
  <2>3. \A k \in PushJobs \ {j} : AsksWell(pushJob[k])'
    <3> SUFFICES ASSUME NEW k \in PushJobs \ {j} PROVE AsksWell(pushJob[k])'
      OBVIOUS
    <3>1. AsksWell(pushJob[k])
      BY DEF PushInv
    <3>2. pushJob[k].step \in {"register", "member", "write"} =>
            /\ pushJob[k].phone \in Push!Phones /\ pushJob[k].phone # p /\ ~Unused(pushJob[k].phone)
            /\ pushJob[k].phone \in paired \cup late
      BY <1>6, <3>1 DEF AsksWell
    <3>3. pushJob[k].step \in {"register", "member", "write"} => pushJob[k].phone \in paired' \cup late'
      BY <1>10, <3>2
    <3>4. pushJob[k].step = "write" /\ pushJob[k].phone \notin paired => pushJob[k].phone \notin paired'
      BY <1>10, <3>2
    <3> QED  BY <1>5, <1>7, <3>1, <3>2, <3>3, <3>4 DEF AsksWell
  <2>4. \A k \in PushJobs \ {j} : LeavesWell(pushJob[k])'
    <3> SUFFICES ASSUME NEW k \in PushJobs \ {j} PROVE LeavesWell(pushJob[k])'
      OBVIOUS
    <3>1. LeavesWell(pushJob[k])
      BY DEF PushInv
    <3>2. pushJob[k].step = "unregister" => pushJob[k].who \cap paired' = {}
      BY <1>6, <1>10, <3>1 DEF LeavesWell
    <3> QED  BY <1>1, <1>5, <1>7, <3>1, <3>2 DEF LeavesWell
  <2>5. \A k \in PushJobs \ {j} : DropsWell(pushJob[k])'
    BY <1>1, <1>5, <1>10 DEF PushInv, DropsWell
  <2> QED  BY <2>1, <2>2, <2>3, <2>4, <2>5
<1>12. \A q \in Push!Phones : PhoneKept(q)'
  <2>1. \A q : \A k \in PushJobs : Clears(pushJob[k], q) => Clears(pushJob'[k], q)
    BY <1>1, <1>5 DEF Clears
  <2>2. PhoneKept(p)'
    BY <1>1, <1>6, <1>7 DEF PhoneKept
  <2>3. ASSUME NEW q \in Push!Phones \ {p} PROVE PhoneKept(q)'
    <3>1. PhoneKept(q)
      BY DEF PushInv
    <3>2. Unused(q)' => token'[q] = None /\ asked'[q] = None /\ q \notin paired'
      BY <1>1, <1>7, <1>10, <3>1 DEF PhoneKept
    <3>3. CASE (q \in paired') = (q \in paired)
      BY <1>1, <1>10, <2>1, <3>1, <3>2, <3>3 DEF PhoneKept
    <3>4. CASE q \in paired \ paired'
      <4>1. q \in gone /\ gone # {}
        BY <1>10, <3>4
      <4>2. q \notin late' => q \in pushJob[j].who
        BY <1>3, <4>1
      <4>3. q \notin late' => Clears(pushJob'[j], q)
        BY <1>4, <1>5, <4>1, <4>2 DEF Clears
      <4> QED  BY <3>2, <3>4, <4>3 DEF PhoneKept
    <3> QED  BY <1>10, <3>3, <3>4
  <2> QED  BY <2>2, <2>3
<1>13. \A m \in data : MemberKept(m)'
  <2>1. \A m : \A k \in PushJobs : Push!Forgets(k, m) => Push!Forgets(k, m)'
    BY <1>1, <1>5 DEF Push!Forgets
  <2>2. \A q \in paired \ paired' : Push!MemberOf(q) = Push!MemberOf(p) /\ p \in paired'
    BY <1>3, <1>10 DEF Push!MemberOf
  <2> QED  BY <1>1, <1>10, <2>1, <2>2 DEF PushInv, MemberKept
<1>14. \A k, l \in PushJobs : (/\ pushJob'[k].step = "swap" /\ pushJob'[l].step = "swap"
                               /\ pushJob'[k].phone = pushJob'[l].phone) => k = l
  BY <1>4, <1>5 DEF PushInv
<1> QED  BY <1>1, <1>8, <1>11, <1>12, <1>13, <1>14 DEF PushInv

(* Everybody leaves. *)
LEMMA RegeneratePushes ==
    ASSUME PushInv, NEW j \in PushJobs, Push!Regenerate(j) PROVE PushInv'
<1> USE DEF Push!At
<1> DEFINE task == [Push!Idle EXCEPT !.step = "tokens"]
<1>1. /\ PushTypes /\ pushJob[j].step = "idle" /\ Push!Goes(j, task)
      /\ paired' = {} /\ late' = late \cup (Push!Busy \cap paired)
      /\ UNCHANGED <<new, token, data, pushActive, dead, asked>>
  BY DEF PushInv, Push!Regenerate
<1>2. task \in PushTasks /\ task.step = "tokens"
  BY DEF Push!Idle, PushTasks, PushSteps
<1> HIDE DEF task
<1>3. /\ pushJob' \in [PushJobs -> PushTasks] /\ pushJob'[j] = task
      /\ \A k \in PushJobs \ {j} : pushJob'[k] = pushJob[k]
  BY <1>1, <1>2, PushTurns
<1>4. PushTypes'
  BY <1>1, <1>3 DEF PushTypes
<1>5. \A q : Unused(q)' <=> Unused(q)
  BY <1>1, <1>2, <1>3 DEF Unused
<1>6. \A k \in PushJobs : pushJob[k].step \in {"register", "member", "write"} /\ pushJob[k].phone \in Push!Phones
                            => pushJob[k].phone \in Push!Busy
  BY DEF Push!Busy, Push!Asks
<1>7. \A k \in PushJobs : AsksWell(pushJob[k])' /\ LeavesWell(pushJob[k])' /\ DropsWell(pushJob[k])'
  <2>1. AsksWell(pushJob[j])' /\ LeavesWell(pushJob[j])' /\ DropsWell(pushJob[j])'
    BY <1>2, <1>3 DEF AsksWell, LeavesWell, DropsWell
  <2>2. \A k \in PushJobs \ {j} : AsksWell(pushJob[k])'
    BY <1>1, <1>3, <1>5, <1>6 DEF PushInv, AsksWell
  <2>3. \A k \in PushJobs \ {j} : LeavesWell(pushJob[k])' /\ DropsWell(pushJob[k])'
    BY <1>1, <1>3, <1>5 DEF PushInv, LeavesWell, DropsWell
  <2> QED  BY <2>1, <2>2, <2>3
<1>8. \A q \in Push!Phones : PhoneKept(q)'
  <2>1. \A q : Clears(pushJob'[j], q)
    BY <1>2, <1>3 DEF Clears
  <2> QED  BY <1>1, <1>5, <2>1 DEF PushInv, PhoneKept
<1>9. \A m \in data : MemberKept(m)'
  <2>1. \A m : Push!Forgets(j, m)'
    BY <1>2, <1>3 DEF Push!Forgets
  <2> QED  BY <2>1 DEF MemberKept
<1>10. \A k, l \in PushJobs : (/\ pushJob'[k].step = "swap" /\ pushJob'[l].step = "swap"
                               /\ pushJob'[k].phone = pushJob'[l].phone) => k = l
  BY <1>2, <1>3 DEF PushInv
<1> QED  BY <1>1, <1>4, <1>7, <1>8, <1>9, <1>10 DEF PushInv

LEMMA ClearsPush ==
    ASSUME PushInv, NEW j \in PushJobs, Push!ClearTokens(j) \/ Push!ClearSettings(j) PROVE PushInv'
<1> USE DEF Push!At, Push!Ends
<1>1. /\ PushTypes /\ pushJob[j].step \in {"tokens", "settings"} /\ pushJob[j] \in PushTasks
      /\ UNCHANGED <<new, paired, pushActive, dead, late>>
  BY DEF PushInv, PushTypes, Push!ClearTokens, Push!ClearSettings
<1>2. PICK task \in PushTasks : /\ Push!Goes(j, task)
        /\ \/ /\ task.step = "settings" /\ data' = data
              /\ token' = [p \in Push!Phones |-> None]
              /\ asked' = [p \in Push!Phones |-> IF p \in paired THEN None ELSE asked[p]]
           \/ /\ pushJob[j].step = "settings" /\ task.step = "idle" /\ data' = {} /\ UNCHANGED <<token, asked>>
  <2>1. CASE Push!ClearTokens(j)
    <3> DEFINE next == [pushJob[j] EXCEPT !.step = "settings"]
    <3>1. next \in PushTasks /\ next.step = "settings"
      BY <1>1 DEF PushTasks, PushSteps
    <3>2. /\ Push!Goes(j, next) /\ data' = data
          /\ token' = [p \in Push!Phones |-> None]
          /\ asked' = [p \in Push!Phones |-> IF p \in paired THEN None ELSE asked[p]]
      BY <2>1 DEF Push!ClearTokens
    <3> HIDE DEF next
    <3> QED  BY <3>1, <3>2
  <2>2. CASE Push!ClearSettings(j)
    BY <2>2, IdlePush DEF Push!ClearSettings
  <2> QED  BY <2>1, <2>2
<1>3. /\ pushJob' \in [PushJobs -> PushTasks] /\ pushJob'[j] = task /\ task.step \in {"settings", "idle"}
      /\ \A k \in PushJobs \ {j} : pushJob'[k] = pushJob[k]
  BY <1>1, <1>2, PushTurns
<1>4. \A q : Unused(q)' <=> Unused(q)
  BY <1>1, <1>3 DEF Unused
<1>5. PushTypes' /\ data' \subseteq data
  <2>1. token' \in [Push!Phones -> {None} \cup PushTokens] /\ asked' \in [Push!Phones -> {None} \cup PushTokens]
    BY <1>1, <1>2 DEF PushTypes
  <2> QED  BY <1>1, <1>2, <1>3, <2>1 DEF PushTypes
<1>6. \A k \in PushJobs : AsksWell(pushJob[k])' /\ LeavesWell(pushJob[k])' /\ DropsWell(pushJob[k])'
  <2>1. AsksWell(pushJob[j])' /\ LeavesWell(pushJob[j])' /\ DropsWell(pushJob[j])'
    BY <1>3 DEF AsksWell, LeavesWell, DropsWell
  <2>2. \A k \in PushJobs \ {j} : AsksWell(pushJob[k])' /\ LeavesWell(pushJob[k])'
    BY <1>1, <1>3, <1>4 DEF PushInv, AsksWell, LeavesWell
  <2>3. \A k \in PushJobs \ {j} : DropsWell(pushJob[k])'
    <3> SUFFICES ASSUME NEW k \in PushJobs \ {j} PROVE DropsWell(pushJob[k])'
      OBVIOUS
    <3>1. DropsWell(pushJob[k]) /\ pushJob[k].who \subseteq Push!Phones
      BY DEF PushInv, PushTypes, PushTasks
    <3>2. \A p \in Push!Phones : token'[p] \in {None, token[p]}
      BY <1>2
    <3> QED  BY <1>1, <1>3, <3>1, <3>2 DEF DropsWell
  <2> QED  BY <2>1, <2>2, <2>3
<1>7. \A q \in Push!Phones : PhoneKept(q)'
  <2>1. CASE token' = [p \in Push!Phones |-> None] /\ asked' = [p \in Push!Phones |-> IF p \in paired THEN None ELSE asked[p]]
    <3>1. \A q \in Push!Phones : token'[q] = None /\ asked'[q] = IF q \in paired THEN None ELSE asked[q]
      BY <2>1
    <3> QED  BY <1>1, <1>4, <3>1 DEF PushInv, PhoneKept
  <2>2. CASE pushJob[j].step = "settings" /\ UNCHANGED <<token, asked>>
    <3>1. \A q : \A k \in PushJobs : Clears(pushJob[k], q) => Clears(pushJob'[k], q)
      BY <1>3, <2>2 DEF Clears
    <3> QED  BY <1>1, <1>4, <2>2, <3>1 DEF PushInv, PhoneKept
  <2> QED  BY <1>2, <2>1, <2>2
<1>8. \A m \in data' : MemberKept(m)'
  <2>1. CASE data' = {}
    BY <2>1
  <2>2. CASE task.step = "settings"
    <3>1. \A m : Push!Forgets(j, m)'
      BY <1>3, <2>2 DEF Push!Forgets
    <3> QED  BY <3>1 DEF MemberKept
  <2> QED  BY <1>2, <2>1, <2>2
<1>9. \A k, l \in PushJobs : (/\ pushJob'[k].step = "swap" /\ pushJob'[l].step = "swap"
                              /\ pushJob'[k].phone = pushJob'[l].phone) => k = l
  BY <1>3 DEF PushInv
<1> QED  BY <1>5, <1>6, <1>7, <1>8, <1>9 DEF PushInv

LEMMA FactoryResetPushes ==
    ASSUME PushInv, Push!FactoryReset PROVE PushInv'
<1>1. /\ PushTypes /\ paired' = {} /\ data' = {} /\ late' = late \cup (Push!Busy \cap paired)
      /\ token' = [p \in Push!Phones |-> None]
      /\ UNCHANGED <<new, pushJob, pushActive, dead, asked>>
  BY DEF PushInv, Push!FactoryReset
<1>2. \A q : Unused(q)' <=> Unused(q)
  BY <1>1 DEF Unused
<1>3. PushTypes'
  BY <1>1 DEF PushTypes
<1>4. \A k \in PushJobs : pushJob[k].step \in {"register", "member", "write"} /\ pushJob[k].phone \in Push!Phones
                            => pushJob[k].phone \in Push!Busy
  BY DEF Push!Busy, Push!Asks
<1>5. \A q \in Push!Phones : token'[q] = None
  BY <1>1
<1>6. \A k \in PushJobs : AsksWell(pushJob[k])' /\ LeavesWell(pushJob[k])' /\ DropsWell(pushJob[k])'
  <2>1. \A k \in PushJobs : AsksWell(pushJob[k])'
    BY <1>1, <1>2, <1>4 DEF PushInv, AsksWell
  <2>2. \A k \in PushJobs : LeavesWell(pushJob[k])'
    BY <1>1, <1>2 DEF PushInv, LeavesWell
  <2>3. \A k \in PushJobs : DropsWell(pushJob[k])'
    <3> SUFFICES ASSUME NEW k \in PushJobs PROVE DropsWell(pushJob[k])'
      OBVIOUS
    <3>1. DropsWell(pushJob[k]) /\ pushJob[k].who \subseteq Push!Phones
      BY DEF PushInv, PushTypes, PushTasks
    <3> QED  BY <1>1, <1>5, <3>1 DEF DropsWell
  <2> QED  BY <2>1, <2>2, <2>3
<1>7. \A q \in Push!Phones : PhoneKept(q)'
  BY <1>1, <1>2, <1>5 DEF PushInv, PhoneKept
<1> QED  BY <1>1, <1>3, <1>6, <1>7 DEF PushInv

(* The dispatcher stops or starts, and drops the token of a phone it found dead. *)
LEMMA StopPushes ==
    ASSUME PushInv, Push!StopOrStart PROVE PushInv'
<1>1. /\ PushTypes /\ pushActive' = ~pushActive
      /\ pushJob' = [j \in PushJobs |-> IF pushActive /\ pushJob[j].step \in {"select", "posted"}
                                        THEN Push!Idle ELSE pushJob[j]]
      /\ UNCHANGED <<new, paired, token, data, dead, asked, late>>
  BY DEF PushInv, Push!StopOrStart
<1>2. pushJob' \in [PushJobs -> PushTasks] /\ pushActive' \in BOOLEAN
  BY <1>1, IdlePush DEF PushTypes
<1>3. \A k \in PushJobs : \/ pushJob'[k] = pushJob[k]
                          \/ pushJob[k].step \in {"select", "posted"} /\ pushJob'[k] = Push!Idle
  BY <1>1
<1>4. \A k \in PushJobs : \/ pushJob'[k] = pushJob[k]
                          \/ /\ pushJob[k].step \in {"select", "posted"} /\ pushJob'[k].step = "idle"
                             /\ AsksWell(pushJob'[k]) /\ LeavesWell(pushJob'[k]) /\ DropsWell(pushJob'[k])
  BY <1>3, IdlePush
<1>5. \A q : Unused(q)' <=> Unused(q)
  BY <1>1, <1>4 DEF Unused
<1>6. PushTypes'
  BY <1>1, <1>2 DEF PushTypes
<1>7. \A k \in PushJobs : AsksWell(pushJob[k])' /\ LeavesWell(pushJob[k])' /\ DropsWell(pushJob[k])'
  BY <1>1, <1>4, <1>5 DEF PushInv, AsksWell, LeavesWell, DropsWell
<1>8. \A q \in Push!Phones : PhoneKept(q)'
  <2>1. \A q : \A k \in PushJobs : Clears(pushJob[k], q) => Clears(pushJob'[k], q)
    BY <1>4 DEF Clears
  <2> QED  BY <1>1, <1>5, <2>1 DEF PushInv, PhoneKept
<1>9. \A m \in data : MemberKept(m)'
  <2>1. \A m : \A k \in PushJobs : Push!Forgets(k, m) => Push!Forgets(k, m)'
    BY <1>4 DEF Push!Forgets, Push!At
  <2> QED  BY <1>1, <2>1 DEF PushInv, MemberKept
<1>10. \A k, l \in PushJobs : (/\ pushJob'[k].step = "swap" /\ pushJob'[l].step = "swap"
                               /\ pushJob'[k].phone = pushJob'[l].phone) => k = l
  BY <1>4 DEF PushInv
<1> QED  BY <1>1, <1>6, <1>7, <1>8, <1>9, <1>10 DEF PushInv

LEMMA DropPushes ==
    ASSUME PushInv, NEW j \in PushJobs, Push!Drop(j) PROVE PushInv'
<1> USE DEF Push!At, Push!Ends
<1>1. /\ PushTypes /\ pushJob[j].step = "drop" /\ pushJob[j] \in PushTasks /\ DropsWell(pushJob[j])
      /\ UNCHANGED <<new, paired, data, pushActive, dead, asked, late>>
  BY DEF PushInv, PushTypes, Push!Drop
<1>2. CASE pushJob[j].who = {}
  BY <1>1, <1>2, IdlePush, PushQuiet DEF Push!Drop, Leaving
<1>3. CASE pushJob[j].who # {}
  <2>1. PICK p \in pushJob[j].who : /\ token' = [token EXCEPT ![p] = None]
                                    /\ Push!Goes(j, [pushJob[j] EXCEPT !.who = @ \ {p}])
    BY <1>3 DEF Push!Drop
  <2> DEFINE task == [pushJob[j] EXCEPT !.who = @ \ {p}]
  <2>2. task \in PushTasks /\ task.step = "drop" /\ task.who = pushJob[j].who \ {p} /\ p \in Push!Phones
    BY <1>1, <2>1 DEF PushTasks
  <2>3. Push!Goes(j, task)
    BY <2>1
  <2> HIDE DEF task
  <2>4. /\ pushJob' \in [PushJobs -> PushTasks] /\ pushJob'[j] = task
        /\ \A k \in PushJobs \ {j} : pushJob'[k] = pushJob[k]
    BY <1>1, <2>2, <2>3, PushTurns
  <2>5. token' \in [Push!Phones -> {None} \cup PushTokens] /\ token'[p] = None
        /\ \A q \in Push!Phones \ {p} : token'[q] = token[q]
    BY <1>1, <2>1, <2>2 DEF PushTypes
  <2>6. \A q : Unused(q)' <=> Unused(q)
    BY <1>1, <2>2, <2>4 DEF Unused
  <2>7. PushTypes'
    BY <1>1, <2>4, <2>5 DEF PushTypes
  <2>8. \A k \in PushJobs : AsksWell(pushJob[k])' /\ LeavesWell(pushJob[k])' /\ DropsWell(pushJob[k])'
    <3>1. AsksWell(pushJob[j])' /\ LeavesWell(pushJob[j])'
      BY <2>2, <2>4 DEF AsksWell, LeavesWell
    <3>2. \A k \in PushJobs \ {j} : AsksWell(pushJob[k])' /\ LeavesWell(pushJob[k])'
      BY <1>1, <2>4, <2>6 DEF PushInv, AsksWell, LeavesWell
    <3>3. \A k \in PushJobs : DropsWell(pushJob[k])'
      <4> SUFFICES ASSUME NEW k \in PushJobs PROVE DropsWell(pushJob[k])'
        OBVIOUS
      <4>1. DropsWell(pushJob[k]) /\ pushJob[k].who \subseteq Push!Phones
        BY DEF PushInv, PushTypes, PushTasks
      <4>2. CASE k = j
        BY <1>1, <2>2, <2>4, <2>5, <4>1, <4>2 DEF DropsWell
      <4>3. CASE k # j
        BY <1>1, <2>4, <2>5, <4>1, <4>3 DEF DropsWell
      <4> QED  BY <4>2, <4>3
    <3> QED  BY <3>1, <3>2, <3>3
  <2>9. \A q \in Push!Phones : PhoneKept(q)'
    <3>1. \A q : \A k \in PushJobs : Clears(pushJob[k], q) => Clears(pushJob'[k], q)
      BY <1>1, <2>4 DEF Clears
    <3>2. p \notin late => token[p] \in dead \cup {None}
      BY <1>1, <2>1 DEF DropsWell
    <3>3. PhoneKept(p)'
      BY <1>1, <2>2, <2>5, <2>6, <3>2 DEF PushInv, PhoneKept
    <3>4. \A q \in Push!Phones \ {p} : PhoneKept(q)'
      BY <1>1, <2>5, <2>6, <3>1 DEF PushInv, PhoneKept
    <3> QED  BY <3>3, <3>4
  <2>10. \A m \in data : MemberKept(m)'
    <3>1. \A m : \A k \in PushJobs : Push!Forgets(k, m) => Push!Forgets(k, m)'
      BY <1>1, <2>4 DEF Push!Forgets
    <3> QED  BY <1>1, <3>1 DEF PushInv, MemberKept
  <2>11. \A k, l \in PushJobs : (/\ pushJob'[k].step = "swap" /\ pushJob'[l].step = "swap"
                                 /\ pushJob'[k].phone = pushJob'[l].phone) => k = l
    BY <2>2, <2>4 DEF PushInv
  <2> QED  BY <1>1, <2>7, <2>8, <2>9, <2>10, <2>11 DEF PushInv
<1> QED  BY <1>2, <1>3

LEMMA PushKept == PushInv /\ [Push!Next]_(Push!vars) => PushInv'
<1> SUFFICES ASSUME PushInv, [Push!Next]_(Push!vars) PROVE PushInv'
  OBVIOUS
<1>1. CASE UNCHANGED Push!vars
  <2>1. UNCHANGED <<new, paired, token, data, pushJob, pushActive, dead, asked, late>>
    BY <1>1 DEF Push!vars
  <2> QED  BY <2>1 DEF PushInv, PushTypes, AsksWell, LeavesWell, DropsWell, PhoneKept, MemberKept,
                       Unused, Clears, Push!Forgets, Push!At
<1>2. CASE Push!Next
  BY <1>2, RequestsPush, BatchesPush, StorePushes, WritePushes, PhonesPush, LeavePushes,
     UnregisterAllPushes, ForgetsPush, RecoverPushes, SwapPushes, RegeneratePushes, ClearsPush,
     FactoryResetPushes, StopPushes, DropPushes DEF Push!Next
<1> QED  BY <1>1, <1>2

LEMMA PushTyped == PushInv => Push!TypeOK /\ Push!GoneWithPhone
<1> SUFFICES ASSUME PushInv PROVE Push!TypeOK /\ Push!GoneWithPhone
  OBVIOUS
<1>1. \A p \in Push!Phones : PhoneKept(p)
  BY DEF PushInv
<1>2. Push!TypeOK
  <2>1. paired \subseteq Push!Phones \ new
    BY <1>1 DEF PushInv, PushTypes, PhoneKept, Unused
  <2>2. \A j \in PushJobs : pushJob[j] \in PushTasks
    BY DEF PushInv, PushTypes
  <2> QED  BY <2>1, <2>2 DEF PushInv, PushTypes, PushTasks, Push!TypeOK
<1>3. \A p : \A j \in PushJobs : Clears(pushJob[j], p) => Push!Removes(j, p)
  BY DEF Clears, Push!Removes, Push!At
<1>4. Push!GoneWithPhone
  BY <1>1, <1>3 DEF PushInv, PhoneKept, MemberKept, Push!GoneWithPhone
<1> QED  BY <1>2, <1>4

-----------------------------------------------------------------------------
(* A release that is installed (Upgrade). *)

(* An install, by the step it has got to: what it downloads, what it took out  *)
(* of its place, and what there is to put back. No request of Hub's is cut off. *)
Versions == 0 .. LastVersion
Trees == Versions \cup {None}
InstallTasks == [step : Upgrade!Steps, target : Trees, tree : Trees, out : Trees, retired : Trees, heard : {TRUE}]

UpgradeTypes ==
    /\ published \in Versions /\ known \in Trees /\ fresh \in BOOLEAN /\ swapped \in Trees
    /\ ins \in [Installs -> InstallTasks]
    /\ live \in Trees /\ rollback \in Trees /\ legacy \in Trees /\ stray \subseteq Versions /\ broken \in BOOLEAN
    /\ running \in Trees /\ hub \in {"down", "migrating", "restoring", "refused", "up"}
    /\ db \in Trees /\ backups \subseteq Versions /\ halts \in 0 .. MaxHalts

Staged(t) ==
    /\ t.step \in {"idle", "locked", "urls", "stage", "out"} => t.out = None /\ t.retired = None
    /\ t.step \in {"in", "retire", "keep"} => t.out # None
    /\ t.step \in {"in", "retire"} => t.retired = None
    /\ t.step \in {"clear", "done"} => t.out = None
    /\ t.step = "undo" /\ t.out = None => t.retired = None
    /\ t.step \in {"stage", "out", "in"} => t.tree # None
    /\ t.step \notin {"idle", "locked", "undo"} => t.target # None /\ t.target > running

(* One install at a time, of a hub that is up, and none after a swap. *)
OneInstall ==
    /\ \A i, k \in Installs : ins[i].step # "idle" /\ ins[k].step # "idle" => i = k
    /\ \A i \in Installs : ins[i].step # "idle" => hub = "up" /\ swapped = None
    /\ \A i \in Installs : Staged(ins[i])
    /\ swapped # None => hub = "up"

(* The database is the code's, or on its way there with a copy of it. *)
Schema ==
    /\ hub # "down" => running # None
    /\ hub = "up" => db = running
    /\ hub = "migrating" => db # None /\ db < running
    /\ hub \in {"migrating", "restoring"} \/ db = None => backups # {}

(* Where the code that runs is. *)
RunsFromDisk ==
    /\ running # None =>
         \/ running \in stray
         \/ \E i \in Installs : ins[i].out = running
         \/ running = live /\ \A i \in Installs : ins[i].out = None
         \/ running = rollback /\ (swapped # None \/ \E i \in Installs : ins[i].step \in {"clear", "done"})
    /\ live = None => broken \/ \E i \in Installs : ins[i].step \in {"in", "undo"} /\ ins[i].out # None

(* The trees of an install that nothing has broken. *)
Sound(t) ==
    /\ t.step \in {"locked", "urls", "stage", "out"} => live = running
    /\ t.step \in {"out", "in"} => t.tree = t.target
    /\ t.step \in {"in", "retire", "keep"} => t.out = running
    /\ t.step \in {"retire", "keep", "clear", "done"} => live = t.target
    /\ t.step \in {"clear", "done"} => rollback = running
    /\ t.step = "undo" => IF t.out = None THEN live = running ELSE t.out = running
Unbroken ==
    ~broken =>
      /\ \A i \in Installs : Sound(ins[i])
      /\ swapped # None => live = swapped /\ rollback = running /\ swapped > running
      /\ running # None /\ swapped = None /\ (\A i \in Installs : ins[i].step = "idle") => live = running

UpgradeInv == UpgradeTypes /\ OneInstall /\ Schema /\ RunsFromDisk /\ Unbroken

LEMMA UpgradeConstants ==
    /\ None \notin Versions /\ Versions \subseteq Nat /\ 0 \in Versions /\ 1 \in Versions
    /\ 0 \in 0 .. MaxHalts /\ Upgrade!Versions = Versions /\ Upgrade!Trees = Trees
BY UpgradeAssumption DEF Versions, Trees, Upgrade!Versions, Upgrade!Trees

LEMMA InstallIdle ==
    /\ Upgrade!Idle \in InstallTasks /\ Upgrade!Idle.step = "idle"
    /\ Upgrade!Idle.out = None /\ Upgrade!Idle.retired = None
BY DEF Upgrade!Idle, InstallTasks, Upgrade!Steps, Trees

(* The install that is under way goes on. *)
LEMMA InstallKeeps ==
    ASSUME UpgradeInv, NEW i \in Installs, NEW t \in InstallTasks, Upgrade!Goes(i, t),
           hub = "up", swapped = None, \A k \in Installs \ {i} : ins[k].step = "idle",
           UNCHANGED <<published, swapped, legacy, running, hub, db, backups, halts>>,
           known' \in Trees, fresh' \in BOOLEAN, live' \in Trees, rollback' \in Trees,
           stray' \subseteq Versions, broken' \in BOOLEAN,
           Staged(t),
           \/ running \in stray' \/ t.out = running \/ (running = live' /\ t.out = None)
           \/ running = rollback' /\ t.step \in {"clear", "done"},
           live' = None => broken' \/ (t.step \in {"in", "undo"} /\ t.out # None),
           ~broken' => Sound(t)' /\ (t.step = "idle" => live' = running)
    PROVE  UpgradeInv'
<1>1. UpgradeTypes /\ OneInstall /\ Schema
  BY DEF UpgradeInv
<1>2. /\ ins' \in [Installs -> InstallTasks] /\ ins'[i] = t
      /\ \A k \in Installs \ {i} : ins'[k] = ins[k] /\ ins'[k].step = "idle"
  BY <1>1 DEF UpgradeTypes, Upgrade!Goes
<1>3. \A k \in Installs \ {i} : ins'[k].out = None
  BY <1>1, <1>2 DEF OneInstall, Staged
<1>4. UpgradeTypes'
  BY <1>1, <1>2 DEF UpgradeTypes
<1>5. \A k \in Installs : Staged(ins[k])'
  <2> SUFFICES ASSUME NEW k \in Installs PROVE Staged(ins[k])'
    OBVIOUS
  <2>1. CASE k = i
    BY <1>2, <2>1 DEF Staged
  <2>2. CASE k # i
    BY <1>1, <1>2, <2>2 DEF OneInstall, Staged
  <2> QED  BY <2>1, <2>2
<1>6. OneInstall'
  BY <1>1, <1>2, <1>5 DEF OneInstall
<1>7. Schema'
  BY <1>1 DEF Schema
<1>8. RunsFromDisk'
  BY <1>2, <1>3 DEF RunsFromDisk
<1>9. Unbroken'
  <2> SUFFICES ASSUME ~broken' PROVE Unbroken'
    BY DEF Unbroken
  <2>1. \A k \in Installs : Sound(ins[k])'
    <3> SUFFICES ASSUME NEW k \in Installs PROVE Sound(ins[k])'
      OBVIOUS
    <3>1. CASE k = i
      BY <1>2, <3>1 DEF Sound
    <3>2. CASE k # i
      BY <1>2, <3>2 DEF Sound
    <3> QED  BY <3>1, <3>2
  <2> QED  BY <1>2, <2>1 DEF Unbroken
<1> QED  BY <1>4, <1>6, <1>7, <1>8, <1>9 DEF UpgradeInv

(* What is known of an install that is under way. *)
LEMMA UnderWay ==
    ASSUME UpgradeInv, NEW i \in Installs, ins[i].step # "idle"
    PROVE  /\ ins[i] \in InstallTasks /\ Staged(ins[i]) /\ hub = "up" /\ swapped = None
           /\ running \in Versions /\ \A k \in Installs \ {i} : ins[k].step = "idle" /\ ins[k].out = None
           /\ \/ running \in stray \/ ins[i].out = running \/ (running = live /\ ins[i].out = None)
              \/ running = rollback /\ ins[i].step \in {"clear", "done"}
           /\ live = None => broken \/ (ins[i].step \in {"in", "undo"} /\ ins[i].out # None)
           /\ ~broken => Sound(ins[i])
           /\ live \in Trees /\ rollback \in Trees /\ stray \subseteq Versions /\ broken \in BOOLEAN
           /\ known \in Trees /\ fresh \in BOOLEAN
<1>1. UpgradeTypes /\ OneInstall /\ Schema /\ RunsFromDisk /\ Unbroken
  BY DEF UpgradeInv
<1>2. ins[i] \in InstallTasks /\ Staged(ins[i]) /\ hub = "up" /\ swapped = None
  BY <1>1 DEF UpgradeTypes, OneInstall
<1>3. running \in Versions
  BY <1>1, <1>2 DEF UpgradeTypes, Schema, Trees
<1>4. \A k \in Installs \ {i} : ins[k].step = "idle" /\ ins[k].out = None
  BY <1>1 DEF OneInstall, Staged
<1>5. /\ \/ running \in stray \/ ins[i].out = running \/ (running = live /\ ins[i].out = None)
         \/ running = rollback /\ ins[i].step \in {"clear", "done"}
      /\ live = None => broken \/ (ins[i].step \in {"in", "undo"} /\ ins[i].out # None)
  BY <1>1, <1>2, <1>3, <1>4, UpgradeConstants DEF RunsFromDisk
<1>6. ~broken => Sound(ins[i])
  BY <1>1 DEF Unbroken
<1> QED  BY <1>1, <1>2, <1>3, <1>4, <1>5, <1>6 DEF UpgradeTypes

LEMMA Refreshes ==
    ASSUME UpgradeTypes, Upgrade!Refresh
    PROVE  published' = published /\ known' \in Trees /\ fresh' \in BOOLEAN
<1> QED  BY DEF UpgradeTypes, Upgrade!Refresh, Upgrade!checker, Trees

(* The request: it is asked for, and learns what it is to download. *)
LEMMA InstallAsks ==
    ASSUME UpgradeInv, NEW i \in Installs, Upgrade!Ask(i)
    PROVE  UpgradeInv'
<1> USE UpgradeConstants, InstallIdle
<1>1. UpgradeTypes /\ OneInstall /\ Schema /\ RunsFromDisk /\ Unbroken
  BY DEF UpgradeInv
<1>2. \A k \in Installs : ins[k].step = "idle" /\ ins[k].out = None
  <2>1. \A k \in Installs : ins[k].heard = TRUE
    BY <1>1 DEF UpgradeTypes, InstallTasks
  <2> QED  BY <1>1, <2>1 DEF Upgrade!Ask, Upgrade!Locked, Upgrade!Holder, OneInstall, Staged
<1> DEFINE t == [Upgrade!Idle EXCEPT !.step = "locked"]
<1>3. /\ t \in InstallTasks /\ t.step = "locked" /\ t.out = None /\ t.retired = None
  BY DEF Upgrade!Idle, InstallTasks, Upgrade!Steps
<1>4. Upgrade!Goes(i, t)
  BY DEF Upgrade!Ask
<1> HIDE DEF t
<1>5. /\ hub = "up" /\ swapped = None /\ UNCHANGED <<published, known, fresh, swapped, live, rollback, legacy,
                                                      stray, broken, running, hub, db, backups, halts>>
  BY DEF Upgrade!Ask, Upgrade!checker, Upgrade!disk, Upgrade!code
<1>6. Staged(t)
  BY <1>3 DEF Staged
<1>7. /\ running \in stray \/ running = live
      /\ live = None => broken
      /\ ~broken => live = running
  BY <1>1, <1>2, <1>5 DEF RunsFromDisk, Unbroken, Schema
<1>8. ~broken' => Sound(t)'
  BY <1>3, <1>5, <1>7 DEF Sound
<1> QED  BY <1>1, <1>2, <1>3, <1>4, <1>5, <1>6, <1>7, <1>8, InstallKeeps DEF UpgradeTypes

LEMMA AskStatusKeeps ==
    ASSUME UpgradeInv, NEW i \in Installs, Upgrade!AskStatus(i)
    PROVE  UpgradeInv'
<1> USE UpgradeConstants, InstallIdle
<1>1. ins[i].step = "locked" /\ UpgradeTypes
  BY DEF Upgrade!AskStatus, Upgrade!OnLoop, Upgrade!At, UpgradeInv
<1>2. /\ published' = published /\ known' \in Trees /\ fresh' \in BOOLEAN
      /\ UNCHANGED <<swapped, live, rollback, legacy, stray, broken, running, hub, db, backups, halts>>
  BY <1>1, Refreshes DEF Upgrade!AskStatus, Upgrade!disk, Upgrade!code
<1>3. CASE known' # None /\ known' > running /\ Upgrade!Goes(i, [ins[i] EXCEPT !.step = "urls", !.target = known'])
  <2>1. PICK v \in Versions : v = known'
    BY <1>2, <1>3 DEF Trees
  <2>2. PICK t \in InstallTasks :
          /\ t = [ins[i] EXCEPT !.step = "urls", !.target = v]
          /\ t.step = "urls" /\ t.out = ins[i].out /\ t.retired = ins[i].retired /\ t.target = v
    <3> DEFINE task == [ins[i] EXCEPT !.step = "urls", !.target = v]
    <3>1. /\ task \in InstallTasks /\ task = [ins[i] EXCEPT !.step = "urls", !.target = v]
          /\ task.step = "urls" /\ task.out = ins[i].out /\ task.retired = ins[i].retired /\ task.target = v
      BY <1>1, <2>1, UnderWay DEF InstallTasks, Upgrade!Steps, Trees
    <3> HIDE DEF task
    <3> QED  BY <3>1
  <2>3. Upgrade!Goes(i, t)
    BY <1>3, <2>1, <2>2
  <2>4. Staged(t)
    BY <1>1, <1>3, <2>1, <2>2, UnderWay DEF Staged
  <2>5. ~broken' => Sound(t)'
    BY <1>1, <1>2, <2>2, UnderWay DEF Sound
  <2> QED  BY <1>1, <1>2, <2>2, <2>3, <2>4, <2>5, UnderWay, InstallKeeps
<1>4. CASE Upgrade!Goes(i, Upgrade!Idle)
  <2>1. Staged(Upgrade!Idle) /\ (~broken' => Sound(Upgrade!Idle)' /\ live' = running)
    BY <1>1, <1>2, UnderWay DEF Staged, Sound
  <2> QED  BY <1>1, <1>2, <1>4, <2>1, UnderWay, InstallKeeps DEF Staged
<1> QED  BY <1>3, <1>4 DEF Upgrade!AskStatus, Upgrade!Ends

LEMMA AskUrlsKeeps ==
    ASSUME UpgradeInv, NEW i \in Installs, Upgrade!AskUrls(i)
    PROVE  UpgradeInv'
<1> USE UpgradeConstants, InstallIdle
<1>1. ins[i].step = "urls" /\ UpgradeTypes
  BY DEF Upgrade!AskUrls, Upgrade!OnLoop, Upgrade!At, UpgradeInv
<1>2. /\ published' = published /\ known' \in Trees /\ fresh' \in BOOLEAN
      /\ UNCHANGED <<swapped, live, rollback, legacy, stray, broken, running, hub, db, backups, halts>>
  BY <1>1, Refreshes DEF Upgrade!AskUrls, Upgrade!disk, Upgrade!code
<1>3. CASE known' # None /\ Upgrade!Goes(i, [ins[i] EXCEPT !.step = "stage", !.tree = known'])
  <2>1. PICK v \in Versions : v = known'
    BY <1>2, <1>3 DEF Trees
  <2>2. PICK t \in InstallTasks :
          /\ t = [ins[i] EXCEPT !.step = "stage", !.tree = v]
          /\ t.step = "stage" /\ t.out = ins[i].out /\ t.retired = ins[i].retired
          /\ t.target = ins[i].target /\ t.tree = v
    <3> DEFINE task == [ins[i] EXCEPT !.step = "stage", !.tree = v]
    <3>1. /\ task \in InstallTasks /\ task = [ins[i] EXCEPT !.step = "stage", !.tree = v]
          /\ task.step = "stage" /\ task.out = ins[i].out /\ task.retired = ins[i].retired
          /\ task.target = ins[i].target /\ task.tree = v
      BY <1>1, <2>1, UnderWay DEF InstallTasks, Upgrade!Steps, Trees
    <3> HIDE DEF task
    <3> QED  BY <3>1
  <2>3. Upgrade!Goes(i, t)
    BY <1>3, <2>1, <2>2
  <2>4. Staged(t)
    BY <1>1, <2>1, <2>2, UnderWay DEF Staged
  <2>5. ~broken' => Sound(t)'
    BY <1>1, <1>2, <2>2, UnderWay DEF Sound
  <2> QED  BY <1>1, <1>2, <2>2, <2>3, <2>4, <2>5, UnderWay, InstallKeeps
<1>4. CASE Upgrade!Goes(i, Upgrade!Idle)
  <2>1. Staged(Upgrade!Idle) /\ (~broken' => Sound(Upgrade!Idle)' /\ live' = running)
    BY <1>1, <1>2, UnderWay DEF Staged, Sound
  <2> QED  BY <1>1, <1>2, <1>4, <2>1, UnderWay, InstallKeeps DEF Staged
<1> QED  BY <1>3, <1>4 DEF Upgrade!AskUrls, Upgrade!Ends

LEMMA StageKeeps ==
    ASSUME UpgradeInv, NEW i \in Installs, Upgrade!Stage(i)
    PROVE  UpgradeInv'
<1> USE UpgradeConstants, InstallIdle
<1>1. ins[i].step = "stage"
  BY DEF Upgrade!Stage, Upgrade!At
<1>2. UNCHANGED <<published, known, fresh, swapped, live, rollback, legacy, stray, broken, running, hub, db,
                  backups, halts>>
  BY DEF Upgrade!Stage, Upgrade!disk, Upgrade!code, Upgrade!checker
<1>3. CASE ins[i].tree = ins[i].target /\ Upgrade!Goes(i, [ins[i] EXCEPT !.step = "out"])
  <2>1. PICK t \in InstallTasks :
          /\ t = [ins[i] EXCEPT !.step = "out"]
          /\ t.step = "out" /\ t.out = ins[i].out /\ t.retired = ins[i].retired
          /\ t.target = ins[i].target /\ t.tree = ins[i].tree
    <3> DEFINE task == [ins[i] EXCEPT !.step = "out"]
    <3>1. /\ task \in InstallTasks /\ task = [ins[i] EXCEPT !.step = "out"]
          /\ task.step = "out" /\ task.out = ins[i].out /\ task.retired = ins[i].retired
          /\ task.target = ins[i].target /\ task.tree = ins[i].tree
      BY <1>1, UnderWay DEF InstallTasks, Upgrade!Steps
    <3> HIDE DEF task
    <3> QED  BY <3>1
  <2>2. Upgrade!Goes(i, t)
    BY <1>3, <2>1
  <2>3. Staged(t)
    BY <1>1, <2>1, UnderWay DEF Staged
  <2>4. ~broken' => Sound(t)'
    BY <1>1, <1>2, <1>3, <2>1, UnderWay DEF Sound
  <2> QED  BY <1>1, <1>2, <2>1, <2>2, <2>3, <2>4, UnderWay, InstallKeeps
<1>4. CASE Upgrade!Goes(i, Upgrade!Idle)
  <2>1. Staged(Upgrade!Idle) /\ (~broken' => Sound(Upgrade!Idle)' /\ live' = running)
    BY <1>1, <1>2, UnderWay DEF Staged, Sound
  <2> QED  BY <1>1, <1>2, <1>4, <2>1, UnderWay, InstallKeeps DEF Staged
<1> QED  BY <1>3, <1>4 DEF Upgrade!Stage, Upgrade!Matches, Upgrade!Ends

(* The swap: an install that stands still for none of its trees. *)
LEMMA MoveOutKeeps ==
    ASSUME UpgradeInv, NEW i \in Installs, Upgrade!MoveOut(i)
    PROVE  UpgradeInv'
<1> USE UpgradeConstants
<1>1. ins[i].step = "out" /\ ins[i] \in InstallTasks
  BY UnderWay DEF Upgrade!MoveOut, Upgrade!At
<1>2. UNCHANGED <<published, known, fresh, swapped, rollback, legacy, stray, broken, running, hub, db,
                  backups, halts>>
  BY DEF Upgrade!MoveOut, Upgrade!disk, Upgrade!code, Upgrade!checker
<1>3. CASE live # None /\ live' = None /\ Upgrade!Goes(i, [ins[i] EXCEPT !.step = "in", !.out = live])
  <2>1. PICK t \in InstallTasks :
          /\ t = [ins[i] EXCEPT !.step = "in", !.out = live]
          /\ t.step = "in" /\ t.target = ins[i].target /\ t.tree = ins[i].tree /\ t.out = live /\ t.retired = ins[i].retired
    <3> DEFINE task == [ins[i] EXCEPT !.step = "in", !.out = live]
    <3>1. /\ task \in InstallTasks /\ task = [ins[i] EXCEPT !.step = "in", !.out = live]
          /\ task.step = "in" /\ task.target = ins[i].target /\ task.tree = ins[i].tree /\ task.out = live
          /\ task.retired = ins[i].retired
      BY <1>1, UnderWay DEF InstallTasks, Upgrade!Steps, Trees
    <3> HIDE DEF task
    <3> QED  BY <3>1
  <2>2. Upgrade!Goes(i, t)
    BY <1>3, <2>1 DEF Upgrade!Fails
  <2>3. Staged(t)
    BY <1>1, <1>3, <2>1, UnderWay DEF Staged
  <2>4. ~broken' => Sound(t)'
    BY <1>1, <1>2, <1>3, <2>1, UnderWay DEF Sound, Staged
  <2>5. /\ \/ running \in stray' \/ t.out = running \/ (running = live' /\ t.out = None)
           \/ running = rollback' /\ t.step \in {"clear", "done"}
        /\ live' = None => broken' \/ (t.step \in {"in", "undo"} /\ t.out # None)
        /\ live' \in Trees /\ rollback' \in Trees
    <3>1. ins[i].out = None /\ running # None
      BY <1>1, UnderWay DEF Staged
    <3> QED  BY <1>1, <1>2, <1>3, <2>1, <3>1, UnderWay DEF Trees
  <2> QED  BY <1>1, <1>2, <2>1, <2>2, <2>3, <2>4, <2>5, UnderWay, InstallKeeps
<1>4. CASE Upgrade!Fails(i) /\ live' = live
  <2>1. PICK t \in InstallTasks :
          /\ t = [ins[i] EXCEPT !.step = "undo"]
          /\ t.step = "undo" /\ t.target = ins[i].target /\ t.tree = ins[i].tree /\ t.out = ins[i].out /\ t.retired = ins[i].retired
    <3> DEFINE task == [ins[i] EXCEPT !.step = "undo"]
    <3>1. /\ task \in InstallTasks /\ task = [ins[i] EXCEPT !.step = "undo"]
          /\ task.step = "undo" /\ task.target = ins[i].target /\ task.tree = ins[i].tree /\ task.out = ins[i].out
          /\ task.retired = ins[i].retired
      BY <1>1, UnderWay DEF InstallTasks, Upgrade!Steps, Trees
    <3> HIDE DEF task
    <3> QED  BY <3>1
  <2>2. Upgrade!Goes(i, t)
    BY <1>4, <2>1 DEF Upgrade!Fails
  <2>3. Staged(t)
    BY <1>1, <1>4, <2>1, UnderWay DEF Staged
  <2>4. ~broken' => Sound(t)'
    BY <1>1, <1>2, <1>4, <2>1, UnderWay DEF Sound, Staged
  <2>5. /\ \/ running \in stray' \/ t.out = running \/ (running = live' /\ t.out = None)
           \/ running = rollback' /\ t.step \in {"clear", "done"}
        /\ live' = None => broken' \/ (t.step \in {"in", "undo"} /\ t.out # None)
        /\ live' \in Trees /\ rollback' \in Trees
    BY <1>1, <1>2, <1>4, <2>1, UnderWay DEF Staged, Trees, InstallTasks
  <2> QED  BY <1>1, <1>2, <2>1, <2>2, <2>3, <2>4, <2>5, UnderWay, InstallKeeps
<1> QED  BY <1>3, <1>4 DEF Upgrade!MoveOut

LEMMA MoveInKeeps ==
    ASSUME UpgradeInv, NEW i \in Installs, Upgrade!MoveIn(i)
    PROVE  UpgradeInv'
<1> USE UpgradeConstants
<1>1. ins[i].step = "in" /\ ins[i] \in InstallTasks
  BY UnderWay DEF Upgrade!MoveIn, Upgrade!At
<1>2. UNCHANGED <<published, known, fresh, swapped, rollback, legacy, stray, broken, running, hub, db,
                  backups, halts>>
  BY DEF Upgrade!MoveIn, Upgrade!disk, Upgrade!code, Upgrade!checker
<1>3. CASE live' = ins[i].tree /\ Upgrade!Goes(i, [ins[i] EXCEPT !.step = "retire", !.tree = None])
  <2>1. PICK t \in InstallTasks :
          /\ t = [ins[i] EXCEPT !.step = "retire", !.tree = None]
          /\ t.step = "retire" /\ t.target = ins[i].target /\ t.tree = None /\ t.out = ins[i].out /\ t.retired = ins[i].retired
    <3> DEFINE task == [ins[i] EXCEPT !.step = "retire", !.tree = None]
    <3>1. /\ task \in InstallTasks /\ task = [ins[i] EXCEPT !.step = "retire", !.tree = None]
          /\ task.step = "retire" /\ task.target = ins[i].target /\ task.tree = None /\ task.out = ins[i].out
          /\ task.retired = ins[i].retired
      BY <1>1, UnderWay DEF InstallTasks, Upgrade!Steps, Trees
    <3> HIDE DEF task
    <3> QED  BY <3>1
  <2>2. Upgrade!Goes(i, t)
    BY <1>3, <2>1 DEF Upgrade!Fails
  <2>3. Staged(t)
    BY <1>1, <1>3, <2>1, UnderWay DEF Staged
  <2>4. ~broken' => Sound(t)'
    BY <1>1, <1>2, <1>3, <2>1, UnderWay DEF Sound, Staged
  <2>5. /\ \/ running \in stray' \/ t.out = running \/ (running = live' /\ t.out = None)
           \/ running = rollback' /\ t.step \in {"clear", "done"}
        /\ live' = None => broken' \/ (t.step \in {"in", "undo"} /\ t.out # None)
        /\ live' \in Trees /\ rollback' \in Trees
    BY <1>1, <1>2, <1>3, <2>1, UnderWay DEF Staged, Trees, InstallTasks
  <2> QED  BY <1>1, <1>2, <2>1, <2>2, <2>3, <2>4, <2>5, UnderWay, InstallKeeps
<1>4. CASE Upgrade!Fails(i) /\ live' = live
  <2>1. PICK t \in InstallTasks :
          /\ t = [ins[i] EXCEPT !.step = "undo"]
          /\ t.step = "undo" /\ t.target = ins[i].target /\ t.tree = ins[i].tree /\ t.out = ins[i].out /\ t.retired = ins[i].retired
    <3> DEFINE task == [ins[i] EXCEPT !.step = "undo"]
    <3>1. /\ task \in InstallTasks /\ task = [ins[i] EXCEPT !.step = "undo"]
          /\ task.step = "undo" /\ task.target = ins[i].target /\ task.tree = ins[i].tree /\ task.out = ins[i].out
          /\ task.retired = ins[i].retired
      BY <1>1, UnderWay DEF InstallTasks, Upgrade!Steps, Trees
    <3> HIDE DEF task
    <3> QED  BY <3>1
  <2>2. Upgrade!Goes(i, t)
    BY <1>4, <2>1 DEF Upgrade!Fails
  <2>3. Staged(t)
    BY <1>1, <1>4, <2>1, UnderWay DEF Staged
  <2>4. ~broken' => Sound(t)'
    BY <1>1, <1>2, <1>4, <2>1, UnderWay DEF Sound, Staged
  <2>5. /\ \/ running \in stray' \/ t.out = running \/ (running = live' /\ t.out = None)
           \/ running = rollback' /\ t.step \in {"clear", "done"}
        /\ live' = None => broken' \/ (t.step \in {"in", "undo"} /\ t.out # None)
        /\ live' \in Trees /\ rollback' \in Trees
    BY <1>1, <1>2, <1>4, <2>1, UnderWay DEF Staged, Trees, InstallTasks
  <2> QED  BY <1>1, <1>2, <2>1, <2>2, <2>3, <2>4, <2>5, UnderWay, InstallKeeps
<1> QED  BY <1>3, <1>4 DEF Upgrade!MoveIn

LEMMA RetireKeeps ==
    ASSUME UpgradeInv, NEW i \in Installs, Upgrade!Retire(i)
    PROVE  UpgradeInv'
<1> USE UpgradeConstants
<1>1. ins[i].step = "retire" /\ ins[i] \in InstallTasks
  BY UnderWay DEF Upgrade!Retire, Upgrade!At
<1>2. UNCHANGED <<published, known, fresh, swapped, live, legacy, stray, broken, running, hub, db,
                  backups, halts>>
  BY DEF Upgrade!Retire, Upgrade!disk, Upgrade!code, Upgrade!checker
<1>3. CASE rollback' = None /\ Upgrade!Goes(i, [ins[i] EXCEPT !.step = "keep", !.retired = rollback])
  <2>1. PICK t \in InstallTasks :
          /\ t = [ins[i] EXCEPT !.step = "keep", !.retired = rollback]
          /\ t.step = "keep" /\ t.target = ins[i].target /\ t.tree = ins[i].tree /\ t.out = ins[i].out /\ t.retired = rollback
    <3> DEFINE task == [ins[i] EXCEPT !.step = "keep", !.retired = rollback]
    <3>1. /\ task \in InstallTasks /\ task = [ins[i] EXCEPT !.step = "keep", !.retired = rollback]
          /\ task.step = "keep" /\ task.target = ins[i].target /\ task.tree = ins[i].tree /\ task.out = ins[i].out
          /\ task.retired = rollback
      BY <1>1, UnderWay DEF InstallTasks, Upgrade!Steps, Trees
    <3> HIDE DEF task
    <3> QED  BY <3>1
  <2>2. Upgrade!Goes(i, t)
    BY <1>3, <2>1 DEF Upgrade!Fails
  <2>3. Staged(t)
    BY <1>1, <1>3, <2>1, UnderWay DEF Staged
  <2>4. ~broken' => Sound(t)'
    BY <1>1, <1>2, <1>3, <2>1, UnderWay DEF Sound, Staged
  <2>5. /\ \/ running \in stray' \/ t.out = running \/ (running = live' /\ t.out = None)
           \/ running = rollback' /\ t.step \in {"clear", "done"}
        /\ live' = None => broken' \/ (t.step \in {"in", "undo"} /\ t.out # None)
        /\ live' \in Trees /\ rollback' \in Trees
    BY <1>1, <1>2, <1>3, <2>1, UnderWay DEF Staged, Trees, InstallTasks
  <2> QED  BY <1>1, <1>2, <2>1, <2>2, <2>3, <2>4, <2>5, UnderWay, InstallKeeps
<1>4. CASE Upgrade!Fails(i) /\ rollback' = rollback
  <2>1. PICK t \in InstallTasks :
          /\ t = [ins[i] EXCEPT !.step = "undo"]
          /\ t.step = "undo" /\ t.target = ins[i].target /\ t.tree = ins[i].tree /\ t.out = ins[i].out /\ t.retired = ins[i].retired
    <3> DEFINE task == [ins[i] EXCEPT !.step = "undo"]
    <3>1. /\ task \in InstallTasks /\ task = [ins[i] EXCEPT !.step = "undo"]
          /\ task.step = "undo" /\ task.target = ins[i].target /\ task.tree = ins[i].tree /\ task.out = ins[i].out
          /\ task.retired = ins[i].retired
      BY <1>1, UnderWay DEF InstallTasks, Upgrade!Steps, Trees
    <3> HIDE DEF task
    <3> QED  BY <3>1
  <2>2. Upgrade!Goes(i, t)
    BY <1>4, <2>1 DEF Upgrade!Fails
  <2>3. Staged(t)
    BY <1>1, <1>4, <2>1, UnderWay DEF Staged
  <2>4. ~broken' => Sound(t)'
    BY <1>1, <1>2, <1>4, <2>1, UnderWay DEF Sound, Staged
  <2>5. /\ \/ running \in stray' \/ t.out = running \/ (running = live' /\ t.out = None)
           \/ running = rollback' /\ t.step \in {"clear", "done"}
        /\ live' = None => broken' \/ (t.step \in {"in", "undo"} /\ t.out # None)
        /\ live' \in Trees /\ rollback' \in Trees
    BY <1>1, <1>2, <1>4, <2>1, UnderWay DEF Staged, Trees, InstallTasks
  <2> QED  BY <1>1, <1>2, <2>1, <2>2, <2>3, <2>4, <2>5, UnderWay, InstallKeeps
<1> QED  BY <1>3, <1>4 DEF Upgrade!Retire

LEMMA KeepOldKeeps ==
    ASSUME UpgradeInv, NEW i \in Installs, Upgrade!KeepOld(i)
    PROVE  UpgradeInv'
<1> USE UpgradeConstants
<1>1. ins[i].step = "keep" /\ ins[i] \in InstallTasks
  BY UnderWay DEF Upgrade!KeepOld, Upgrade!At
<1>2. UNCHANGED <<published, known, fresh, swapped, live, legacy, stray, broken, running, hub, db,
                  backups, halts>>
  BY DEF Upgrade!KeepOld, Upgrade!disk, Upgrade!code, Upgrade!checker
<1>3. CASE rollback' = ins[i].out /\ Upgrade!Goes(i, [ins[i] EXCEPT !.step = "clear", !.out = None])
  <2>1. PICK t \in InstallTasks :
          /\ t = [ins[i] EXCEPT !.step = "clear", !.out = None]
          /\ t.step = "clear" /\ t.target = ins[i].target /\ t.tree = ins[i].tree /\ t.out = None /\ t.retired = ins[i].retired
    <3> DEFINE task == [ins[i] EXCEPT !.step = "clear", !.out = None]
    <3>1. /\ task \in InstallTasks /\ task = [ins[i] EXCEPT !.step = "clear", !.out = None]
          /\ task.step = "clear" /\ task.target = ins[i].target /\ task.tree = ins[i].tree /\ task.out = None
          /\ task.retired = ins[i].retired
      BY <1>1, UnderWay DEF InstallTasks, Upgrade!Steps, Trees
    <3> HIDE DEF task
    <3> QED  BY <3>1
  <2>2. Upgrade!Goes(i, t)
    BY <1>3, <2>1 DEF Upgrade!Fails
  <2>3. Staged(t)
    BY <1>1, <1>3, <2>1, UnderWay DEF Staged
  <2>4. ~broken' => Sound(t)'
    BY <1>1, <1>2, <1>3, <2>1, UnderWay DEF Sound, Staged
  <2>5. /\ \/ running \in stray' \/ t.out = running \/ (running = live' /\ t.out = None)
           \/ running = rollback' /\ t.step \in {"clear", "done"}
        /\ live' = None => broken' \/ (t.step \in {"in", "undo"} /\ t.out # None)
        /\ live' \in Trees /\ rollback' \in Trees
    BY <1>1, <1>2, <1>3, <2>1, UnderWay DEF Staged, Trees, InstallTasks
  <2> QED  BY <1>1, <1>2, <2>1, <2>2, <2>3, <2>4, <2>5, UnderWay, InstallKeeps
<1>4. CASE Upgrade!Fails(i) /\ rollback' = rollback
  <2>1. PICK t \in InstallTasks :
          /\ t = [ins[i] EXCEPT !.step = "undo"]
          /\ t.step = "undo" /\ t.target = ins[i].target /\ t.tree = ins[i].tree /\ t.out = ins[i].out /\ t.retired = ins[i].retired
    <3> DEFINE task == [ins[i] EXCEPT !.step = "undo"]
    <3>1. /\ task \in InstallTasks /\ task = [ins[i] EXCEPT !.step = "undo"]
          /\ task.step = "undo" /\ task.target = ins[i].target /\ task.tree = ins[i].tree /\ task.out = ins[i].out
          /\ task.retired = ins[i].retired
      BY <1>1, UnderWay DEF InstallTasks, Upgrade!Steps, Trees
    <3> HIDE DEF task
    <3> QED  BY <3>1
  <2>2. Upgrade!Goes(i, t)
    BY <1>4, <2>1 DEF Upgrade!Fails
  <2>3. Staged(t)
    BY <1>1, <1>4, <2>1, UnderWay DEF Staged
  <2>4. ~broken' => Sound(t)'
    BY <1>1, <1>2, <1>4, <2>1, UnderWay DEF Sound, Staged
  <2>5. /\ \/ running \in stray' \/ t.out = running \/ (running = live' /\ t.out = None)
           \/ running = rollback' /\ t.step \in {"clear", "done"}
        /\ live' = None => broken' \/ (t.step \in {"in", "undo"} /\ t.out # None)
        /\ live' \in Trees /\ rollback' \in Trees
    BY <1>1, <1>2, <1>4, <2>1, UnderWay DEF Staged, Trees, InstallTasks
  <2> QED  BY <1>1, <1>2, <2>1, <2>2, <2>3, <2>4, <2>5, UnderWay, InstallKeeps
<1> QED  BY <1>3, <1>4 DEF Upgrade!KeepOld

LEMMA ClearRetiredKeeps ==
    ASSUME UpgradeInv, NEW i \in Installs, Upgrade!ClearRetired(i)
    PROVE  UpgradeInv'
<1> USE UpgradeConstants
<1>1. ins[i].step = "clear" /\ ins[i] \in InstallTasks
  BY UnderWay DEF Upgrade!ClearRetired, Upgrade!At
<1>2. UNCHANGED <<published, known, fresh, swapped, live, rollback, legacy, stray, broken, running, hub, db,
                  backups, halts>>
  BY DEF Upgrade!ClearRetired, Upgrade!disk, Upgrade!code, Upgrade!checker
<1>3. CASE Upgrade!Goes(i, [ins[i] EXCEPT !.step = "done", !.retired = None])
  <2>1. PICK t \in InstallTasks :
          /\ t = [ins[i] EXCEPT !.step = "done", !.retired = None]
          /\ t.step = "done" /\ t.target = ins[i].target /\ t.tree = ins[i].tree /\ t.out = ins[i].out /\ t.retired = None
    <3> DEFINE task == [ins[i] EXCEPT !.step = "done", !.retired = None]
    <3>1. /\ task \in InstallTasks /\ task = [ins[i] EXCEPT !.step = "done", !.retired = None]
          /\ task.step = "done" /\ task.target = ins[i].target /\ task.tree = ins[i].tree /\ task.out = ins[i].out
          /\ task.retired = None
      BY <1>1, UnderWay DEF InstallTasks, Upgrade!Steps, Trees
    <3> HIDE DEF task
    <3> QED  BY <3>1
  <2>2. Upgrade!Goes(i, t)
    BY <1>3, <2>1 DEF Upgrade!Fails
  <2>3. Staged(t)
    BY <1>1, <1>3, <2>1, UnderWay DEF Staged
  <2>4. ~broken' => Sound(t)'
    BY <1>1, <1>2, <1>3, <2>1, UnderWay DEF Sound, Staged
  <2>5. /\ \/ running \in stray' \/ t.out = running \/ (running = live' /\ t.out = None)
           \/ running = rollback' /\ t.step \in {"clear", "done"}
        /\ live' = None => broken' \/ (t.step \in {"in", "undo"} /\ t.out # None)
        /\ live' \in Trees /\ rollback' \in Trees
    BY <1>1, <1>2, <1>3, <2>1, UnderWay DEF Staged, Trees, InstallTasks
  <2> QED  BY <1>1, <1>2, <2>1, <2>2, <2>3, <2>4, <2>5, UnderWay, InstallKeeps
<1> QED  BY <1>3 DEF Upgrade!ClearRetired

(* Undone in reverse, or left where it is. *)
LEMMA UndoKeeps ==
    ASSUME UpgradeInv, NEW i \in Installs, Upgrade!Undo(i)
    PROVE  UpgradeInv'
<1> USE UpgradeConstants
<1>1. ins[i].step = "undo" /\ ins[i] \in InstallTasks /\ running # None
  BY UnderWay DEF Upgrade!Undo, Upgrade!At
<1>2. UNCHANGED <<published, known, fresh, swapped, legacy, running, hub, db, backups, halts>>
  BY DEF Upgrade!Undo, Upgrade!code, Upgrade!checker
<1>3. /\ ins[i].target \in Trees /\ ins[i].tree \in Trees /\ ins[i].out \in Trees /\ ins[i].retired \in Trees
  BY <1>1 DEF InstallTasks
<1>4. ASSUME NEW tree, tree \in {live, rollback, ins[i].out, ins[i].retired, None} PROVE tree \in Trees
  BY <1>1, <1>3, <1>4, UnderWay DEF Trees
<1>5. CASE ins[i].retired # None
  <2>1. ins[i].out # None
    BY <1>1, <1>5, UnderWay DEF Staged
  <2>2. PICK t \in InstallTasks :
          /\ t = [ins[i] EXCEPT !.retired = None]
          /\ t.step = "undo" /\ t.target = ins[i].target /\ t.tree = ins[i].tree /\ t.out = ins[i].out /\ t.retired = None
    <3> DEFINE task == [ins[i] EXCEPT !.retired = None]
    <3>1. /\ task \in InstallTasks /\ task = [ins[i] EXCEPT !.retired = None]
          /\ task.step = "undo" /\ task.target = ins[i].target /\ task.tree = ins[i].tree /\ task.out = ins[i].out
          /\ task.retired = None
      BY <1>1 DEF InstallTasks, Trees
    <3> HIDE DEF task
    <3> QED  BY <3>1
  <2>3. Upgrade!Goes(i, t) /\ live' = live
        /\ \/ rollback' = ins[i].retired /\ UNCHANGED <<stray, broken>>
           \/ broken' = TRUE /\ rollback' = rollback /\ stray' = stray \cup {ins[i].retired}
    BY <1>5, <2>2 DEF Upgrade!Undo, Upgrade!Undone
  <2>4. Staged(t)
    BY <2>1, <2>2 DEF Staged
  <2>5. ~broken' => Sound(t)'
    BY <1>1, <1>2, <2>1, <2>2, <2>3, UnderWay DEF Sound
  <2>6. running \in stray' \/ t.out = running
    BY <1>1, <2>1, <2>2, <2>3, UnderWay
  <2>7. live' \in Trees /\ rollback' \in Trees /\ stray' \subseteq Versions /\ broken' \in BOOLEAN
    <3>1. ins[i].retired \in Versions
      BY <1>3, <1>5 DEF Trees
    <3> QED  BY <1>1, <1>4, <2>3, <3>1, UnderWay
  <2> QED  BY <1>1, <1>2, <2>1, <2>2, <2>3, <2>4, <2>5, <2>6, <2>7, UnderWay, InstallKeeps
<1>6. CASE ins[i].retired = None /\ ins[i].out # None
  <2>1. ins[i].out \in Versions
    BY <1>3, <1>6 DEF Trees
  <2>2. CASE Upgrade!Goes(i, Upgrade!Idle) /\ broken' = TRUE /\ UNCHANGED <<live, rollback>> /\ stray' = stray \cup {ins[i].out}
    <3>1. Staged(Upgrade!Idle)
      BY InstallIdle DEF Staged
    <3>2. running \in stray'
      BY <1>1, <1>6, <2>2, UnderWay
    <3> QED  BY <1>1, <1>2, <2>1, <2>2, <3>1, <3>2, InstallIdle, UnderWay, InstallKeeps
  <2>3. CASE /\ ins[i].tree = None /\ Upgrade!Goes(i, [ins[i] EXCEPT !.tree = live])
             /\ live' = None /\ UNCHANGED <<rollback, stray, broken>>
    <3>1. PICK t \in InstallTasks :
            /\ t = [ins[i] EXCEPT !.tree = live]
            /\ t.step = "undo" /\ t.target = ins[i].target /\ t.tree = live /\ t.out = ins[i].out /\ t.retired = None
      <4>1. live \in Trees
        BY <1>4
      <4> DEFINE task == [ins[i] EXCEPT !.tree = live]
      <4>2. /\ task \in InstallTasks /\ task = [ins[i] EXCEPT !.tree = live]
            /\ task.step = "undo" /\ task.target = ins[i].target /\ task.tree = live /\ task.out = ins[i].out
            /\ task.retired = None
        BY <1>1, <1>6, <4>1 DEF InstallTasks
      <4> HIDE DEF task
      <4> QED  BY <4>2
    <3>2. Upgrade!Goes(i, t) /\ Staged(t)
      BY <1>6, <2>3, <3>1 DEF Staged
    <3>3. ~broken' => Sound(t)'
      BY <1>1, <1>2, <1>6, <2>3, <3>1, UnderWay DEF Sound
    <3>4. running \in stray' \/ t.out = running
      BY <1>1, <1>6, <2>3, <3>1, UnderWay
    <3> QED  BY <1>1, <1>2, <1>4, <1>6, <2>3, <3>1, <3>2, <3>3, <3>4, UnderWay, InstallKeeps
  <2>4. CASE /\ Upgrade!Goes(i, [ins[i] EXCEPT !.out = None])
             /\ live' = ins[i].out /\ UNCHANGED <<rollback, stray, broken>>
    <3>1. PICK t \in InstallTasks :
            /\ t = [ins[i] EXCEPT !.out = None]
            /\ t.step = "undo" /\ t.target = ins[i].target /\ t.tree = ins[i].tree /\ t.out = None /\ t.retired = None
      <4> DEFINE task == [ins[i] EXCEPT !.out = None]
      <4>1. /\ task \in InstallTasks /\ task = [ins[i] EXCEPT !.out = None]
            /\ task.step = "undo" /\ task.target = ins[i].target /\ task.tree = ins[i].tree /\ task.out = None
            /\ task.retired = None
        BY <1>1, <1>6 DEF InstallTasks, Trees
      <4> HIDE DEF task
      <4> QED  BY <4>1
    <3>2. Upgrade!Goes(i, t) /\ Staged(t)
      BY <1>6, <2>4, <3>1 DEF Staged
    <3>3. ~broken' => Sound(t)'
      BY <1>1, <1>2, <1>6, <2>4, <3>1, UnderWay DEF Sound
    <3>4. running \in stray' \/ (running = live' /\ t.out = None)
      BY <1>1, <1>6, <2>4, <3>1, UnderWay
    <3> QED  BY <1>1, <1>2, <1>4, <1>6, <2>4, <3>1, <3>2, <3>3, <3>4, UnderWay, InstallKeeps
  <2> QED  BY <1>6, <2>2, <2>3, <2>4 DEF Upgrade!Undo, Upgrade!Undone, Upgrade!Ends
<1>7. CASE ins[i].retired = None /\ ins[i].out = None
  <2>1. Upgrade!Goes(i, Upgrade!Idle) /\ UNCHANGED <<live, rollback, stray, broken>>
    BY <1>7 DEF Upgrade!Undo, Upgrade!Ends
  <2>2. Staged(Upgrade!Idle) /\ (~broken' => Sound(Upgrade!Idle)' /\ live' = running)
    BY <1>1, <1>2, <1>7, <2>1, InstallIdle, UnderWay DEF Staged, Sound
  <2>3. /\ running \in stray' \/ running = live'
        /\ live' = None => broken'
    BY <1>1, <1>7, <2>1, UnderWay
  <2> QED  BY <1>1, <1>2, <2>1, <2>2, <2>3, InstallIdle, UnderWay, InstallKeeps
<1> QED  BY <1>5, <1>6, <1>7

(* What the install leaves when it ends, or when the hub does. *)
LEMMA AllIdle ==
    ASSUME UpgradeInv, hub # "up" \/ swapped # None
    PROVE  \A k \in Installs : ins[k].step = "idle" /\ ins[k].out = None
BY DEF UpgradeInv, OneInstall, Staged

LEMMA InstalledKeeps ==
    ASSUME UpgradeInv, NEW i \in Installs, Upgrade!Installed(i)
    PROVE  UpgradeInv'
<1> USE UpgradeConstants, InstallIdle
<1>1. ins[i].step = "done" /\ UpgradeTypes /\ OneInstall /\ Schema /\ RunsFromDisk /\ Unbroken
  BY DEF Upgrade!Installed, Upgrade!OnLoop, Upgrade!At, UpgradeInv
<1>2. /\ UNCHANGED <<published, known, fresh, live, rollback, legacy, stray, broken, running, hub, db,
                     backups, halts>>
      /\ swapped' = ins[i].target /\ Upgrade!Goes(i, Upgrade!Idle)
  BY DEF Upgrade!Installed, Upgrade!disk, Upgrade!code, Upgrade!checker, Upgrade!Ends
<1>3. ins[i].target \in Versions /\ ins[i].target > running /\ ins[i].out = None
  BY <1>1, UnderWay DEF Staged, InstallTasks, Trees
<1>4. /\ ins' \in [Installs -> InstallTasks]
      /\ \A k \in Installs : ins'[k].step = "idle" /\ ins'[k].out = None /\ ins'[k].retired = None
  <2>1. ins' \in [Installs -> InstallTasks] /\ ins'[i] = Upgrade!Idle /\ \A k \in Installs \ {i} : ins'[k] = ins[k]
    BY <1>1, <1>2 DEF UpgradeTypes, Upgrade!Goes
  <2>2. \A k \in Installs \ {i} : ins[k].step = "idle" /\ ins[k].out = None /\ ins[k].retired = None
    BY <1>1 DEF OneInstall, Staged
  <2> QED  BY <2>1, <2>2
<1>5. UpgradeTypes'
  BY <1>1, <1>2, <1>3, <1>4 DEF UpgradeTypes, Trees
<1>6. OneInstall'
  BY <1>1, <1>2, <1>4, UnderWay DEF OneInstall, Staged
<1>7. RunsFromDisk'
  BY <1>1, <1>2, <1>3, <1>4, UnderWay DEF RunsFromDisk
<1>8. Unbroken'
  <2> SUFFICES ASSUME ~broken' PROVE Unbroken'
    BY DEF Unbroken
  <2>1. live = ins[i].target /\ rollback = running
    BY <1>1, <1>2 DEF Unbroken, Sound
  <2>2. \A k \in Installs : Sound(ins[k])'
    BY <1>4 DEF Sound
  <2> QED  BY <1>2, <1>3, <2>1, <2>2 DEF Unbroken
<1> QED  BY <1>1, <1>2, <1>5, <1>6, <1>7, <1>8 DEF UpgradeInv, Schema

LEMMA HaltKeeps == ASSUME UpgradeInv, Upgrade!Halt  PROVE  UpgradeInv'
<1> USE UpgradeConstants, InstallIdle
<1>1. UpgradeTypes /\ OneInstall /\ Schema /\ RunsFromDisk
  BY DEF UpgradeInv
<1>2. /\ halts' = halts + 1 /\ halts < MaxHalts /\ ins' = [k \in Installs |-> Upgrade!Idle]
      /\ broken' = (broken \/ \E k \in Installs : ins[k].out # None)
      /\ stray' = stray \cup UNION {Upgrade!Left(k) : k \in Installs}
      /\ swapped' = None /\ known' = None /\ fresh' = FALSE /\ running' = None /\ hub' = "down"
      /\ db' \in IF hub = "restoring" THEN {db, None} ELSE {db}
      /\ UNCHANGED <<published, live, rollback, legacy, backups>>
  BY DEF Upgrade!Halt
<1>3. ins' \in [Installs -> InstallTasks] /\ \A k \in Installs : ins'[k] = Upgrade!Idle
  BY <1>2
<1>4. \A k \in Installs : Upgrade!Left(k) \subseteq Versions
  BY <1>1 DEF UpgradeTypes, InstallTasks, Upgrade!Left, Trees
<1>5. halts' \in 0 .. MaxHalts
  BY <1>1, <1>2, UpgradeAssumption DEF UpgradeTypes
<1>6. broken' \in BOOLEAN /\ stray' \subseteq Versions /\ db' \in Trees
  BY <1>1, <1>2, <1>4 DEF UpgradeTypes, Trees
<1>7. UpgradeTypes'
  BY <1>1, <1>2, <1>3, <1>5, <1>6 DEF UpgradeTypes, Trees
<1>8. \A k \in Installs : ins'[k].step = "idle" /\ ins'[k].out = None /\ ins'[k].retired = None
  BY <1>3
<1>9. OneInstall'
  BY <1>2, <1>8 DEF OneInstall, Staged
<1>10. Schema'
  BY <1>1, <1>2 DEF Schema
<1>11. RunsFromDisk'
  BY <1>1, <1>2, <1>8 DEF RunsFromDisk
<1>12. Unbroken'
  BY <1>2, <1>8 DEF Unbroken, Sound
<1> QED  BY <1>7, <1>9, <1>10, <1>11, <1>12 DEF UpgradeInv

(* The hub is down, or starts: no install is under way. *)
LEMMA DownKeeps ==
    ASSUME UpgradeInv, hub # "up", UNCHANGED <<published, known, fresh, swapped, ins, stray, broken, halts>>,
           live' \in Trees, rollback' \in Trees, legacy' \in Trees, running' \in Trees, db' \in Trees,
           backups' \subseteq Versions, hub' \in {"down", "migrating", "restoring", "refused", "up"},
           running' # None => running' \in stray \/ running' = live',
           live' = None => broken, running' # None /\ ~broken => live' = running',
           hub' # "down" => running' # None,
           hub' = "up" => db' = running',
           hub' = "migrating" => db' # None /\ db' < running',
           hub' \in {"migrating", "restoring"} \/ db' = None => backups' # {}
    PROVE  UpgradeInv'
<1>1. UpgradeTypes /\ OneInstall
  BY DEF UpgradeInv
<1>2. swapped = None /\ \A k \in Installs : ins[k].step = "idle" /\ ins[k].out = None /\ ins[k].retired = None
  BY <1>1 DEF OneInstall, Staged
<1>3. UpgradeTypes'
  BY <1>1 DEF UpgradeTypes
<1>4. OneInstall'
  BY <1>2 DEF OneInstall, Staged
<1>5. Schema'
  BY DEF Schema
<1>6. RunsFromDisk'
  BY <1>2 DEF RunsFromDisk
<1>7. Unbroken'
  BY <1>2 DEF Unbroken, Sound
<1> QED  BY <1>3, <1>4, <1>5, <1>6, <1>7 DEF UpgradeInv

LEMMA WhileDown ==
    ASSUME UpgradeInv, hub # "up"
    PROVE  /\ UpgradeTypes /\ Schema
           /\ running # None => running \in stray \/ running = live
           /\ live = None => broken
           /\ running # None /\ ~broken => live = running
<1>1. \A k \in Installs : ins[k].step = "idle" /\ ins[k].out = None
  BY AllIdle
<1>2. swapped = None
  BY DEF UpgradeInv, OneInstall
<1> QED  BY <1>1, <1>2 DEF UpgradeInv, RunsFromDisk, Unbroken

LEMMA StartKeeps == ASSUME UpgradeInv, Upgrade!Start  PROVE  UpgradeInv'
<1> USE UpgradeConstants
<1>1. /\ hub = "down" /\ running' = (IF running = None THEN live ELSE running) /\ running' # None
      /\ hub' = Upgrade!Opens(running')
      /\ backups' = (IF hub' = "migrating" THEN backups \cup {db} ELSE backups)
      /\ rollback' = (IF rollback = None THEN legacy ELSE rollback) /\ legacy' = None
      /\ UNCHANGED <<published, known, fresh, swapped, ins, live, stray, broken, db, halts>>
  BY DEF Upgrade!Start, Upgrade!checker
<1>2. /\ UpgradeTypes /\ Schema /\ (running # None => running \in stray \/ running = live)
      /\ (live = None => broken) /\ (running # None /\ ~broken => live = running)
  BY <1>1, WhileDown
<1>3. PICK c \in Versions : c = running'
  BY <1>1, <1>2 DEF UpgradeTypes, Trees
<1>4. db \in Versions \/ db = None
  BY <1>2 DEF UpgradeTypes, Trees
<1>5. /\ hub' \in {"refused", "migrating", "up"}
      /\ hub' = "migrating" => db # None /\ db < c
      /\ hub' = "up" => db = c
  <2>1. hub' = Upgrade!Opens(c)
    BY <1>1, <1>3
  <2>2. CASE db = None
    BY <2>1, <2>2 DEF Upgrade!Opens
  <2>3. CASE db # None
    <3>1. db \in Nat /\ c \in Nat
      BY <1>3, <1>4, <2>3 DEF Versions
    <3>2. /\ db > c => hub' = "refused"
          /\ ~(db > c) /\ db < c => hub' = "migrating"
          /\ ~(db > c) /\ ~(db < c) => hub' = "up"
      BY <2>1, <2>3 DEF Upgrade!Opens
    <3>3. db > c \/ (~(db > c) /\ db < c) \/ (~(db > c) /\ ~(db < c) /\ db = c)
      BY <3>1
    <3>4. db > c => ~(db < c) /\ ~(db = c)
      BY <3>1
    <3> QED  BY <2>3, <3>2, <3>3
  <2> QED  BY <2>2, <2>3
<1>6. backups' \subseteq Versions /\ (hub' = "migrating" \/ db' = None => backups' # {})
  BY <1>1, <1>2, <1>4, <1>5 DEF UpgradeTypes, Schema
<1>7. live' \in Trees /\ rollback' \in Trees /\ legacy' \in Trees /\ running' \in Trees /\ db' \in Trees
  BY <1>1, <1>2 DEF UpgradeTypes, Trees
<1>8. (running' \in stray \/ running' = live') /\ (~broken => live' = running')
  BY <1>1, <1>2
<1> QED  BY <1>1, <1>2, <1>3, <1>5, <1>6, <1>7, <1>8, DownKeeps

LEMMA OthersDown ==
    ASSUME UpgradeInv, Upgrade!RollBack \/ Upgrade!Migrate \/ Upgrade!Restore
    PROVE  UpgradeInv'
<1> USE UpgradeConstants DEF Upgrade!checker, Upgrade!code, Upgrade!disk
<1>1. hub # "up"
  BY DEF Upgrade!RollBack, Upgrade!Migrate, Upgrade!Restore, UpgradeInv, Schema
<1>2. /\ UpgradeTypes /\ Schema /\ (running # None => running \in stray \/ running = live)
      /\ (live = None => broken) /\ (running # None /\ ~broken => live = running)
  BY <1>1, WhileDown
<1>3. CASE Upgrade!RollBack
  <2>1. /\ running = None /\ rollback # None /\ live' = rollback /\ rollback' = None
        /\ UNCHANGED <<published, known, fresh, swapped, ins, legacy, stray, broken, running, hub, db, backups, halts>>
    BY <1>3 DEF Upgrade!RollBack
  <2>2. live' \in Trees /\ rollback' \in Trees
    BY <1>2, <2>1 DEF UpgradeTypes, Trees
  <2> QED  BY <1>1, <1>2, <2>1, <2>2, DownKeeps DEF UpgradeTypes, Schema
<1>4. CASE Upgrade!Migrate
  <2>1. /\ hub = "migrating"
        /\ UNCHANGED <<published, known, fresh, swapped, ins, live, rollback, legacy, stray, broken, running, backups, halts>>
        /\ \/ db' = db + 1 /\ hub' = IF db + 1 = running THEN "up" ELSE hub
           \/ hub' = "restoring" /\ db' = db
    BY <1>4 DEF Upgrade!Migrate
  <2>2. running \in Versions /\ db \in Versions /\ db < running /\ backups # {}
    BY <1>2, <2>1 DEF UpgradeTypes, Schema, Trees
  <2>3. db' \in Versions /\ (hub' = "up" => db' = running) /\ (hub' = "migrating" => db' < running)
    BY <2>1, <2>2, UpgradeAssumption DEF Versions
  <2>4. hub' \in {"migrating", "restoring", "up"} /\ db' \in Trees /\ db' # None
    BY <2>1, <2>3 DEF Trees
  <2> QED  BY <1>1, <1>2, <2>1, <2>2, <2>3, <2>4, DownKeeps DEF UpgradeTypes
<1>5. CASE Upgrade!Restore
  <2>1. /\ hub = "restoring" /\ db' \in backups /\ hub' = "down"
        /\ UNCHANGED <<published, known, fresh, swapped, ins, live, rollback, legacy, stray, broken, running, backups, halts>>
    BY <1>5 DEF Upgrade!Restore
  <2>2. db' \in Versions /\ db' \in Trees
    BY <1>2, <2>1 DEF UpgradeTypes, Trees
  <2> QED  BY <1>1, <1>2, <2>1, <2>2, DownKeeps DEF UpgradeTypes
<1> QED  BY <1>3, <1>4, <1>5

(* What changes nothing but the checker and the copies. *)
LEMMA CheckKeeps ==
    ASSUME UpgradeInv, UNCHANGED <<swapped, ins, live, rollback, legacy, stray, broken, running, hub, db, halts>>,
           published' \in Versions, known' \in Trees, fresh' \in BOOLEAN,
           backups' = backups \/ (hub = "up" /\ backups' = {})
    PROVE  UpgradeInv'
<1> USE UpgradeConstants
<1>1. UpgradeTypes /\ OneInstall /\ Schema /\ RunsFromDisk /\ Unbroken
  BY DEF UpgradeInv
<1>2. UpgradeTypes'
  BY <1>1 DEF UpgradeTypes
<1>3. OneInstall' /\ RunsFromDisk'
  BY <1>1 DEF OneInstall, RunsFromDisk, Staged
<1>4. Schema'
  BY <1>1 DEF Schema, UpgradeTypes
<1>5. Unbroken'
  BY <1>1 DEF Unbroken, Sound
<1> QED  BY <1>2, <1>3, <1>4, <1>5 DEF UpgradeInv

LEMMA UpgradeStarts == Upgrade!Init => UpgradeInv
<1> SUFFICES ASSUME Upgrade!Init PROVE UpgradeInv
  OBVIOUS
<1> USE UpgradeConstants, InstallIdle DEF Trees
<1>1. /\ published = 1 /\ known = None /\ fresh = FALSE /\ swapped = None /\ live = 1 /\ rollback = None
      /\ legacy \in {None, 0} /\ stray = {} /\ broken = FALSE /\ running = None /\ hub = "down"
      /\ db \in {0, 1} /\ backups = {} /\ halts = 0
  BY DEF Upgrade!Init
<1>2. ins \in [Installs -> InstallTasks] /\ \A k \in Installs : ins[k] = Upgrade!Idle
  BY DEF Upgrade!Init
<1>3. UpgradeTypes
  BY <1>1, <1>2 DEF UpgradeTypes
<1>4. \A k \in Installs : ins[k].step = "idle" /\ ins[k].out = None /\ ins[k].retired = None
  BY <1>2
<1>5. OneInstall
  BY <1>1, <1>4 DEF OneInstall, Staged
<1>6. Schema /\ RunsFromDisk
  BY <1>1 DEF Schema, RunsFromDisk
<1>7. Unbroken
  BY <1>1, <1>4 DEF Unbroken, Sound
<1> QED  BY <1>3, <1>5, <1>6, <1>7 DEF UpgradeInv

LEMMA UpgradeKept == UpgradeInv /\ [Upgrade!Next]_(Upgrade!vars) => UpgradeInv'
<1> SUFFICES ASSUME UpgradeInv, [Upgrade!Next]_(Upgrade!vars) PROVE UpgradeInv'
  OBVIOUS
<1> USE UpgradeConstants DEF Upgrade!checker, Upgrade!disk, Upgrade!code
<1>1. UpgradeTypes
  BY DEF UpgradeInv
<1>2. CASE Upgrade!Publish
  <2>1. published' \in Versions
    BY <1>1, <1>2, UpgradeAssumption DEF UpgradeTypes, Upgrade!Publish, Versions
  <2> QED  BY <1>1, <1>2, <2>1, CheckKeeps DEF UpgradeTypes, Upgrade!Publish
<1>3. CASE Upgrade!CacheExpires
  BY <1>1, <1>3, CheckKeeps DEF UpgradeTypes, Upgrade!CacheExpires
<1>4. CASE Upgrade!Status
  <2>1. published' = published /\ known' \in Trees /\ fresh' \in BOOLEAN
    BY <1>1, <1>4, Refreshes DEF Upgrade!Status
  <2> QED  BY <1>1, <1>4, <2>1, CheckKeeps DEF UpgradeTypes, Upgrade!Status
<1>5. CASE Upgrade!DeleteBackups
  BY <1>1, <1>5, CheckKeeps DEF UpgradeTypes, Upgrade!DeleteBackups
<1>6. CASE UNCHANGED Upgrade!vars
  BY <1>1, <1>6, CheckKeeps DEF UpgradeTypes, Upgrade!vars
<1>7. ASSUME NEW i \in Installs, Upgrade!Unheard(i) \/ Upgrade!Quit(i) PROVE UpgradeInv'
  BY <1>1, <1>7 DEF UpgradeTypes, InstallTasks, Upgrade!Unheard, Upgrade!Quit
<1> QED  BY <1>2, <1>3, <1>4, <1>5, <1>6, <1>7, InstallAsks, AskStatusKeeps, AskUrlsKeeps, StageKeeps, MoveOutKeeps,
            MoveInKeeps, RetireKeeps, KeepOldKeeps, UndoKeeps, ClearRetiredKeeps, InstalledKeeps, HaltKeeps,
            StartKeeps, OthersDown DEF Upgrade!Next

LEMMA UpgradeTyped == UpgradeInv => Upgrade!TypeOK /\ Upgrade!CodeKept /\ Upgrade!WayBack /\ Upgrade!DataKept
<1> SUFFICES ASSUME UpgradeInv PROVE Upgrade!TypeOK /\ Upgrade!CodeKept /\ Upgrade!WayBack /\ Upgrade!DataKept
  OBVIOUS
<1> USE UpgradeConstants
<1>1. UpgradeTypes /\ Schema /\ RunsFromDisk /\ Unbroken
  BY DEF UpgradeInv
<1>2. \A i \in Installs : ins[i] \in InstallTasks
  BY <1>1 DEF UpgradeTypes
<1>3. Upgrade!TypeOK
  BY <1>1, <1>2 DEF UpgradeTypes, InstallTasks, Upgrade!TypeOK, Trees
<1>4. Upgrade!CodeKept
  BY <1>1 DEF RunsFromDisk, Upgrade!CodeKept
<1>5. Upgrade!WayBack
  BY <1>1 DEF Unbroken, Upgrade!WayBack
<1>6. Upgrade!DataKept
  BY <1>1 DEF Schema, Upgrade!DataKept
<1> QED  BY <1>3, <1>4, <1>5, <1>6

-----------------------------------------------------------------------------
(* The hub of Hub: its parts together. *)

(* Each part's invariant, in the behaviours of that part. *)
AccessInv == (part = "login" => LoginKept) /\ (part = "streams" => TicketsKept)

(* For any names, requests, rooms, limits and times: a challenge brings one     *)
(* token, a lockout is not shortened, neither the newest challenges nor a       *)
(* camera's newest tickets go before their time, and what a phone held before   *)
(* an edit or its removal opens no stream after.                                *)
THEOREM AccessAlways == HubSpec => []AccessKept
<1>1. HubInit => AccessInv
  BY LoginKeptStarts, TicketsKeptStart DEF HubInit, AccessInv
<1>2. AccessInv /\ [HubNext]_hubVars => AccessInv'
  <2> SUFFICES ASSUME AccessInv, [HubNext]_hubVars PROVE AccessInv'
    OBVIOUS
  <2>1. part' = part
    BY DEF HubNext, hubVars
  <2>2. ASSUME part = "login" PROVE LoginKept'
    <3>1. Login!Next \/ UNCHANGED loginVars
      BY <2>2 DEF HubNext, hubVars
    <3>2. [Login!Next]_(Login!vars)
      BY <3>1 DEF loginVars, Login!vars, Login!history
    <3> QED  BY <2>2, <3>2, LoginKeptStep DEF AccessInv
  <2>3. ASSUME part = "streams" PROVE TicketsKept'
    <3>1. Streams!Next \/ UNCHANGED streamVars
      BY <2>3 DEF HubNext, hubVars
    <3>2. [Streams!Next]_(Streams!vars)
      BY <3>1 DEF streamVars, Streams!vars, Streams!history
    <3> QED  BY <2>3, <3>2, TicketsKeptStep DEF AccessInv
  <2> QED  BY <2>1, <2>2, <2>3 DEF AccessInv
<1>3. AccessInv => AccessKept
  <2>1. LoginKept => /\ Login!TypeOK /\ Login!LoginOnce
                     /\ Login!LockoutLasts /\ Login!NewestKept
    BY LoginTyped DEF LoginKept, LoginInv, ThrottleInv, ChallengesKept
  <2>2. TicketsKept => /\ Streams!TypeOK /\ Streams!RevokedForGood
                       /\ Streams!NewestHonoured
    BY TicketsTyped DEF TicketsKept, TicketInv
  <2> QED  BY <2>1, <2>2 DEF AccessInv, AccessKept
<1> QED  BY <1>1, <1>2, <1>3, PTL DEF HubSpec

(* Each part's invariant, in the behaviours of that part. *)
OptionsInv == (part = "tunnel" => TunnelInv) /\ (part = "relay" => RelayInv)

(* For any domains, jobs, relays and codes: what the options form saves is what *)
(* the hub does, of its tunnel and of its push relay.                           *)
THEOREM OptionsAlwaysFollowed == HubSpec => []OptionsFollowed
<1>1. HubInit => OptionsInv
  BY TunnelStarts, RelayStarts DEF HubInit, OptionsInv
<1>2. OptionsInv /\ [HubNext]_hubVars => OptionsInv'
  <2> SUFFICES ASSUME OptionsInv, [HubNext]_hubVars PROVE OptionsInv'
    OBVIOUS
  <2>1. part' = part
    BY DEF HubNext, hubVars
  <2>2. ASSUME part = "tunnel" PROVE TunnelInv'
    <3>1. Tunnel!Next \/ UNCHANGED tunnelVars
      BY <2>2 DEF HubNext, hubVars
    <3>2. [Tunnel!Next]_(Tunnel!vars)
      BY <3>1 DEF tunnelVars, Tunnel!vars, Tunnel!options
    <3> QED  BY <2>2, <3>2, TunnelKept DEF OptionsInv
  <2>3. ASSUME part = "relay" PROVE RelayInv'
    <3>1. Relay!Next \/ UNCHANGED relayVars
      BY <2>3 DEF HubNext, hubVars
    <3>2. [Relay!Next]_(Relay!vars)
      BY <3>1 DEF relayVars, Relay!vars, Relay!runtime, Relay!history
    <3> QED  BY <2>3, <3>2, RelayKept DEF OptionsInv
  <2> QED  BY <2>1, <2>2, <2>3 DEF OptionsInv
<1>3. OptionsInv => OptionsFollowed
  <2>1. TunnelInv => Tunnel!TunnelAsSaved
    BY DEF TunnelInv, Settled, Tunnel!TunnelAsSaved
  <2>2. RelayInv => Relay!RelayAsSaved
    BY DEF RelayInv, RelayRuns, CodesKept, Relay!RelayAsSaved, Relay!Last
  <2> QED  BY <2>1, <2>2, OptionsTyped DEF OptionsInv, OptionsFollowed
<1> QED  BY <1>1, <1>2, <1>3, PTL DEF HubSpec

(* For any tanks, requests and sweeps: a tank that was answered 201 stays        *)
(* registered until it is deleted, and is reported once a day for each reason.   *)
THEOREM TanksAlwaysKept == HubSpec => []TanksKept
<1>1. HubInit => (part = "tank" => TankInv)
  BY TankStarts DEF HubInit, TankInv
<1>2. (part = "tank" => TankInv) /\ [HubNext]_hubVars => (part = "tank" => TankInv)'
  <2> SUFFICES ASSUME part = "tank" => TankInv, [HubNext]_hubVars, part' = "tank" PROVE TankInv'
    OBVIOUS
  <2>1. part = "tank"
    BY DEF HubNext, hubVars
  <2>2. Tank!Next \/ UNCHANGED tankVars
    BY <2>1 DEF HubNext, hubVars
  <2>3. [Tank!Next]_(Tank!vars)
    BY <2>2 DEF tankVars, Tank!vars, Tank!hub, Tank!requests, Tank!monitor, Tank!history
  <2> QED  BY <2>1, <2>3, TankKept
<1>3. (part = "tank" => TankInv) => TanksKept
  BY TankTyped DEF TanksKept
<1> QED  BY <1>1, <1>2, <1>3, PTL DEF HubSpec

(* For any events, nonces, requests and times: a reminder that HQ signed is let *)
(* through once, and is not sent again before the cap takes its row.            *)
THEOREM RemindedAlwaysOnce == HubSpec => []RemindedOnce
<1>1. HubInit => (part = "reminder" => ReminderInv)
  BY ReminderStarts DEF HubInit
<1>2. (part = "reminder" => ReminderInv) /\ [HubNext]_hubVars => (part = "reminder" => ReminderInv)'
  <2> SUFFICES ASSUME part = "reminder" => ReminderInv, [HubNext]_hubVars, part' = "reminder"
               PROVE  ReminderInv'
    OBVIOUS
  <2>1. part = "reminder"
    BY DEF HubNext, hubVars
  <2>2. Reminder!Next \/ UNCHANGED reminderVars
    BY <2>1 DEF HubNext, hubVars
  <2>3. [Reminder!Next]_(Reminder!vars)
    BY <2>2 DEF reminderVars, Reminder!vars, Reminder!clock, Reminder!table, Reminder!history
  <2> QED  BY <2>1, <2>3, RemindersKept
<1>3. (part = "reminder" => ReminderInv) => RemindedOnce
  BY RemindersTyped DEF RemindedOnce
<1> QED  BY <1>1, <1>2, <1>3, PTL DEF HubSpec

(* For any phones, tokens and requests: a token and a member's data go with the   *)
(* phone, and the token that a paired phone registered stays unless it is dead.    *)
THEOREM GoneWithPhoneAlways == HubSpec => []GoneWithPhone
<1>1. HubInit => (part = "push" => PushInv)
  BY PushStarts DEF HubInit
<1>2. (part = "push" => PushInv) /\ [HubNext]_hubVars => (part = "push" => PushInv)'
  <2> SUFFICES ASSUME part = "push" => PushInv, [HubNext]_hubVars, part' = "push"
               PROVE  PushInv'
    OBVIOUS
  <2>1. part = "push"
    BY DEF HubNext, hubVars
  <2>2. Push!Next \/ UNCHANGED pushVars
    BY <2>1 DEF HubNext, hubVars
  <2>3. [Push!Next]_(Push!vars)
    BY <2>2 DEF pushVars, Push!vars
  <2> QED  BY <2>1, <2>3, PushKept
<1>3. (part = "push" => PushInv) => GoneWithPhone
  BY PushTyped DEF GoneWithPhone
<1> QED  BY <1>1, <1>2, <1>3, PTL DEF HubSpec

(* For any releases, installs, crashes and restarts: the code that runs is on    *)
(* the disk, a finished swap has its way back, and a database that is up, or was *)
(* torn, has the schema the code wants or a copy.                                *)
THEOREM CodeAlwaysKept == HubSpec => []CodeKept
<1>1. HubInit => (part = "upgrade" => UpgradeInv)
  BY UpgradeStarts DEF HubInit
<1>2. (part = "upgrade" => UpgradeInv) /\ [HubNext]_hubVars => (part = "upgrade" => UpgradeInv)'
  <2> SUFFICES ASSUME part = "upgrade" => UpgradeInv, [HubNext]_hubVars, part' = "upgrade"
               PROVE  UpgradeInv'
    OBVIOUS
  <2>1. part = "upgrade"
    BY DEF HubNext, hubVars
  <2>2. Upgrade!Next \/ UNCHANGED upgradeVars
    BY <2>1 DEF HubNext, hubVars
  <2>3. [Upgrade!Next]_(Upgrade!vars)
    BY <2>2 DEF upgradeVars, Upgrade!vars, Upgrade!checker, Upgrade!disk, Upgrade!code
  <2> QED  BY <2>1, <2>3, UpgradeKept
<1>3. (part = "upgrade" => UpgradeInv) => CodeKept
  BY UpgradeTyped DEF CodeKept
<1> QED  BY <1>1, <1>2, <1>3, PTL DEF HubSpec
=============================================================================
