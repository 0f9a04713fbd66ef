-------------------------------- MODULE Claim --------------------------------
(* Who owns the hub: pairing.py, recovery.py, the enroll, recover, unpair-self *)
(* and pairing-code handlers of auth_api.py, the "Regenerate pairing code"     *)
(* button, the factory reset and the start of the hub.                         *)
(*                                                                             *)
(* A request is a chain of executor jobs, and other requests run between its   *)
(* jobs.  Calls of the auth engine are one step each (AuthEngine models them   *)
(* in detail); so is what PairingManager and RecoveryManager do under their    *)
(* locks.  Codes are drawn at random, so a code stands for its own hash.       *)

CONSTANTS
    None,
    Requests,          \* slots for requests in flight
    Phones,            \* keypairs
    Stickers,          \* bootstrap (owner) codes
    Cards,             \* recovery codes
    MemberCodes,       \* single-use codes
    QuietResets,       \* resets run while no request is in flight
    LeaveWhileArming,  \* an owner may leave while a claim is arming the card
    StopWhileMinting   \* the hub may stop between drawing a code and showing it

Codes == Stickers \cup Cards \cup MemberCodes

ASSUME CodesAssumption ==
    /\ None \notin Codes
    /\ Stickers \cap Cards = {}
    /\ Stickers \cap MemberCodes = {}
    /\ Cards \cap MemberCodes = {}
ASSUME PhonesAssumption == None \notin Phones
ASSUME SwitchAssumption == {QuietResets, LeaveWhileArming, StopWhileMinting} \subseteq BOOLEAN

VARIABLES
    devices,    \* auth_devices: the paired devices
    sticker,    \* pairing_codes: the bootstrap row
    members,    \* pairing_codes: the member rows
    card,       \* recovery_codes: its one row
    saved,      \* hub_config: the hashes of the permanent codes
    printed,    \* the owner's copies: the last sticker and card shown
    hub,        \* where the start of the hub is
    drawn,      \* codes drawn by this start and not shown yet
    job         \* requests in flight

vars == <<devices, sticker, members, card, saved, printed, hub, drawn, job>>

Devices == [phone: Phones, admin: BOOLEAN, via: Codes \cup {None}]
Pairs == [sticker: Stickers \cup {None}, card: Cards \cup {None}]
NoPair == [sticker |-> None, card |-> None]

Starting == {"down", "saveSticker", "card", "saveCard", "show"}
Resetting == {"clear", "remint", "saveCode", "announce", "unpairAll", "forget"}
Steps == {"idle", "enroll", "arm", "engrave", "swap", "finish", "install", "mint"}
         \cup Resetting

Job == [step: Steps, phone: Phones \cup {None}, code: Codes \cup {None}]
Idle == [step |-> "idle", phone |-> None, code |-> None]

Claimed == \E d \in devices : d.admin

(* A code drawn at random is one that nothing refers to: a code that no row, no *)
(* device, no request and no paper holds any more counts as new again.          *)
Live == {sticker, card, saved.sticker, saved.card, printed.sticker, printed.card,
         drawn.sticker, drawn.card}
        \cup members \cup {job[r].code : r \in Requests} \cup {d.via : d \in devices}
Fresh(pool) == pool \ Live

At(r, step) == hub = "up" /\ job[r].step = step
Goto(r, step) == job' = [job EXCEPT ![r].step = step]
Carry(r, step, c) ==
    job' = [job EXCEPT ![r] = [step |-> step, phone |-> None, code |-> c]]
Done(r) == job' = [job EXCEPT ![r] = Idle]

InReset == \E r \in Requests : job[r].step \in Resetting
NoneInFlight == \A r \in Requests : job[r] = Idle

(* A request enters a free slot. *)
Begin(r, step, p, c) ==
    /\ hub = "up"
    /\ job[r] = Idle
    /\ QuietResets => ~InReset
    /\ job' = [job EXCEPT ![r] = [step |-> step, phone |-> p, code |-> c]]

-----------------------------------------------------------------------------
(* Pairing: POST /auth/enroll.  A code that does not fit changes nothing but  *)
(* the throttle; a phone whose key is paired gets its identity back.          *)

Unpaired(p) == \A d \in devices : d.phone # p

(* Fault: the code is looked up and not deleted. *)
RedeemMemberKeeping(r) == \E p \in Phones, c \in members :
    /\ Unpaired(p)
    /\ Begin(r, "enroll", p, c)
    /\ UNCHANGED <<devices, sticker, members, card, saved, printed, hub, drawn>>

RedeemMember(r) == \E p \in Phones, c \in members :
    /\ Unpaired(p)
    /\ Begin(r, "enroll", p, c)
    /\ members' = members \ {c}
    /\ UNCHANGED <<devices, sticker, card, saved, printed, hub, drawn>>

RedeemSticker(r) == \E p \in Phones :
    /\ Unpaired(p)
    /\ sticker # None
    /\ ~Claimed
    /\ Begin(r, "enroll", p, sticker)
    /\ sticker' = None
    /\ UNCHANGED <<devices, members, card, saved, printed, hub, drawn>>

(* Fault: the single-admin rule is left to the redeem. *)
EnrollUnchecked(r) ==
    /\ At(r, "enroll")
    /\ LET owner == job[r].code \in Stickers
       IN  /\ devices' = devices \cup {[phone |-> job[r].phone, admin |-> owner, via |-> job[r].code]}
           /\ IF owner THEN Goto(r, "arm") ELSE Done(r)
    /\ UNCHANGED <<sticker, members, card, saved, printed, hub, drawn>>

(* The code is spent even when the single-admin rule refuses the phone. *)
Enroll(r) ==
    /\ At(r, "enroll")
    /\ LET owner == job[r].code \in Stickers
           new == [phone |-> job[r].phone, admin |-> owner, via |-> job[r].code]
       IN  IF owner /\ Claimed
           THEN Done(r) /\ UNCHANGED devices
           ELSE /\ devices' = devices \cup {new}
                /\ IF owner THEN Goto(r, "arm") ELSE Done(r)
    /\ UNCHANGED <<sticker, members, card, saved, printed, hub, drawn>>

(* The recovery lock is held from the check to the new row. *)
CardFree == \A r \in Requests : job[r].step # "engrave"

ArmDrops(r) ==
    /\ At(r, "arm") /\ CardFree
    /\ ~Claimed
    /\ card' = None
    /\ Done(r)
    /\ UNCHANGED <<devices, sticker, members, saved, printed, hub, drawn>>

(* A card is armed already, saving a new hash failed, or no hub is loaded. *)
ArmKeeps(r) ==
    /\ job[r].step = "arm"
    /\ hub = "up" => CardFree /\ Claimed
    /\ Done(r)
    /\ UNCHANGED <<devices, sticker, members, card, saved, printed, hub, drawn>>

ArmMints(r) ==
    /\ At(r, "arm") /\ CardFree
    /\ Claimed
    /\ card = None
    /\ \E c \in Fresh(Cards) :
         /\ saved' = [saved EXCEPT !.card = c]
         /\ Carry(r, "engrave", c)
    /\ UNCHANGED <<devices, sticker, members, card, printed, hub, drawn>>

Engrave(r) ==
    /\ At(r, "engrave")
    /\ card' = job[r].code
    /\ printed' = [printed EXCEPT !.card = job[r].code]
    /\ Done(r)
    /\ UNCHANGED <<devices, sticker, members, saved, hub, drawn>>

-----------------------------------------------------------------------------
(* Recovery: POST /auth/recover.  Redeeming the card does not use it up. *)

RedeemCard(r) == \E p \in Phones :
    /\ card # None
    /\ CardFree
    /\ Begin(r, "swap", p, None)
    /\ UNCHANGED <<devices, sticker, members, card, saved, printed, hub, drawn>>

(* Fault: a recovery also claims a hub that has no owner. *)
SwapUnchecked(r) ==
    /\ At(r, "swap")
    /\ devices' = {d \in devices : ~d.admin}
           \cup {[phone |-> job[r].phone, admin |-> TRUE, via |-> None]}
    /\ Goto(r, "arm")
    /\ UNCHANGED <<sticker, members, card, saved, printed, hub, drawn>>

Swap(r) ==
    /\ At(r, "swap")
    /\ IF Claimed
       THEN /\ \E old \in {d \in devices : d.admin} :
                 devices' = (devices \ {old})
                     \cup {[phone |-> job[r].phone, admin |-> TRUE, via |-> None]}
            /\ Goto(r, "arm")
       ELSE Done(r) /\ UNCHANGED devices
    /\ UNCHANGED <<sticker, members, card, saved, printed, hub, drawn>>

-----------------------------------------------------------------------------
(* Leaving and removing devices. *)

Arming == \E r \in Requests : job[r].step \in {"arm", "engrave"}

Leave(r) == \E d \in devices :
    /\ LeaveWhileArming \/ ~Arming
    /\ Begin(r, "finish", None, None)
    /\ devices' = devices \ {d}
    /\ UNCHANGED <<sticker, members, card, saved, printed, hub, drawn>>

(* Fault: the sticker is not armed when the last admin leaves. *)
FinishLeaveOnly(r) ==
    /\ job[r].step = "finish"
    /\ Done(r)
    /\ UNCHANGED <<devices, sticker, members, card, saved, printed, hub, drawn>>

(* _finish_leave: when the last admin left, the sticker is armed again from *)
(* the saved hash, which is read here and installed in InstallSticker.      *)
FinishLeave(r) ==
    /\ job[r].step = "finish"
    /\ IF hub = "up" /\ ~Claimed /\ saved.sticker # None
       THEN Carry(r, "install", saved.sticker)
       ELSE Done(r)
    /\ UNCHANGED <<devices, sticker, members, card, saved, printed, hub, drawn>>

InstallSticker(r) ==
    /\ At(r, "install")
    /\ sticker' = IF Claimed THEN None ELSE job[r].code
    /\ Done(r)
    /\ UNCHANGED <<devices, members, card, saved, printed, hub, drawn>>

(* DELETE /users: the admin removes another device, never the admin's. *)
Remove == \E d \in devices :
    /\ hub = "up" /\ Claimed
    /\ ~d.admin
    /\ devices' = devices \ {d}
    /\ UNCHANGED <<sticker, members, card, saved, printed, hub, drawn, job>>

-----------------------------------------------------------------------------
(* Member codes: the request is authenticated first, the code drawn later. *)

AskCode(r) ==
    /\ Claimed
    /\ Begin(r, "mint", None, None)
    /\ UNCHANGED <<devices, sticker, members, card, saved, printed, hub, drawn>>

GenerateCode(r) ==
    /\ At(r, "mint")
    /\ \E c \in Fresh(MemberCodes) :
         /\ members' = members \cup {c}
    /\ Done(r)
    /\ UNCHANGED <<devices, sticker, card, saved, printed, hub, drawn>>

(* A code is revoked, or expires and is purged before the next lookup. *)
DropCode == \E c \in members :
    /\ hub = "up"
    /\ members' = members \ {c}
    /\ UNCHANGED <<devices, sticker, card, saved, printed, hub, drawn, job>>

-----------------------------------------------------------------------------
(* Resets. *)

MayReset == QuietResets => NoneInFlight

Regenerate(r) ==
    /\ MayReset
    /\ Begin(r, "clear", None, None)
    /\ devices' = {}
    /\ UNCHANGED <<sticker, members, card, saved, printed, hub, drawn>>

ClearCodes(r) ==
    /\ At(r, "clear")
    /\ sticker' = None
    /\ members' = {}
    /\ Goto(r, "remint")
    /\ UNCHANGED <<devices, card, saved, printed, hub, drawn>>

(* ensure_bootstrap_code: no code is drawn on a claimed hub, nor over a row. *)
Remint(r) ==
    /\ At(r, "remint")
    /\ IF Claimed \/ sticker # None
       THEN /\ sticker' = IF Claimed THEN None ELSE sticker
            /\ Done(r)
       ELSE \E c \in Fresh(Stickers) :
              /\ sticker' = c
                   /\ Carry(r, "saveCode", c)
    /\ UNCHANGED <<devices, members, card, saved, printed, hub, drawn>>

SaveCode(r) ==
    /\ At(r, "saveCode")
    /\ saved' = [saved EXCEPT !.sticker = job[r].code]
    /\ Goto(r, "announce")
    /\ UNCHANGED <<devices, sticker, members, card, printed, hub, drawn>>

Announce(r) ==
    /\ At(r, "announce")
    /\ printed' = [printed EXCEPT !.sticker = job[r].code]
    /\ Done(r)
    /\ UNCHANGED <<devices, sticker, members, card, saved, hub, drawn>>

(* casasmart.factory_reset: one transaction clears the tables, then the engine *)
(* unpairs everyone, then the saved hashes go and the hub reloads.             *)
FactoryReset(r) ==
    /\ MayReset
    /\ Begin(r, "unpairAll", None, None)
    /\ sticker' = None
    /\ members' = {}
    /\ card' = None
    /\ UNCHANGED <<devices, saved, printed, hub, drawn>>

UnpairAll(r) ==
    /\ At(r, "unpairAll")
    /\ devices' = {}
    /\ Goto(r, "forget")
    /\ UNCHANGED <<sticker, members, card, saved, printed, hub, drawn>>

(* Jobs that look the runtime up again when they run survive a reload; the *)
(* others hold the closed storage and fail.                                *)
Survivors == {r \in Requests : job[r].step \in {"arm", "finish"}}

HubStops(kept) ==
    /\ hub' = "down"
    /\ drawn' = NoPair
    /\ job' = [r \in Requests |-> IF r \in kept THEN job[r] ELSE Idle]

ForgetCodes(r) ==
    /\ At(r, "forget")
    /\ saved' = NoPair
    /\ \E kept \in SUBSET Survivors : HubStops(kept)
    /\ UNCHANGED <<devices, sticker, members, card, printed>>

-----------------------------------------------------------------------------
(* The hub stops and starts. *)

(* Codes that are in force after a restart and that nobody has seen. *)
Unshown ==
    \/ drawn # NoPair
    \/ \E r \in Requests : job[r].step \in {"engrave", "announce"}

(* A crash, a reload, a start that fails, or a reset that failed part-way. *)
Stop ==
    /\ hub # "down"
    /\ StopWhileMinting \/ ~Unshown
    /\ \E kept \in SUBSET Survivors : HubStops(kept)
    /\ UNCHANGED <<devices, sticker, members, card, saved, printed>>

StartSticker ==
    /\ hub = "down"
    /\ IF saved.sticker # None
       THEN /\ sticker' = IF Claimed THEN None ELSE saved.sticker
            /\ hub' = "card"
            /\ UNCHANGED drawn
       ELSE IF Claimed \/ sticker # None
       THEN /\ sticker' = IF Claimed THEN None ELSE sticker
            /\ hub' = "card"
            /\ UNCHANGED drawn
       ELSE \E c \in Fresh(Stickers) :
              /\ sticker' = c
                   /\ drawn' = [drawn EXCEPT !.sticker = c]
              /\ hub' = "saveSticker"
    /\ UNCHANGED <<devices, members, card, saved, printed, job>>

SaveSticker ==
    /\ hub = "saveSticker"
    /\ saved' = [saved EXCEPT !.sticker = drawn.sticker]
    /\ hub' = "card"
    /\ UNCHANGED <<devices, sticker, members, card, printed, drawn, job>>

(* Fault: every start draws a card. *)
StartCardAnew ==
    /\ hub = "card"
    /\ \E c \in Fresh(Cards) :
         /\ card' = c
         /\ drawn' = [drawn EXCEPT !.card = c]
    /\ hub' = "saveCard"
    /\ UNCHANGED <<devices, sticker, members, saved, printed, job>>

StartCard ==
    /\ hub = "card"
    /\ IF saved.card # None
       THEN card' = saved.card /\ hub' = "show" /\ UNCHANGED drawn
       ELSE \E c \in Fresh(Cards) :
              /\ card' = c
                   /\ drawn' = [drawn EXCEPT !.card = c]
              /\ hub' = "saveCard"
    /\ UNCHANGED <<devices, sticker, members, saved, printed, job>>

SaveCard ==
    /\ hub = "saveCard"
    /\ saved' = [saved EXCEPT !.card = drawn.card]
    /\ hub' = "show"
    /\ UNCHANGED <<devices, sticker, members, card, printed, drawn, job>>

Newest(new, old) == IF new # None THEN new ELSE old

Show ==
    /\ hub = "show"
    /\ printed' = [sticker |-> Newest(drawn.sticker, printed.sticker),
                   card |-> Newest(drawn.card, printed.card)]
    /\ drawn' = NoPair
    /\ hub' = "up"
    /\ UNCHANGED <<devices, sticker, members, card, saved, job>>

-----------------------------------------------------------------------------
Init ==
    /\ devices = {} /\ members = {}
    /\ sticker = None /\ card = None
    /\ saved = NoPair /\ printed = NoPair /\ drawn = NoPair
    /\ hub = "down"
    /\ job = [r \in Requests |-> Idle]

Start == StartSticker \/ SaveSticker \/ StartCard \/ SaveCard \/ Show

Request(r) ==
    \/ RedeemMember(r) \/ RedeemSticker(r) \/ RedeemCard(r)
    \/ Leave(r) \/ AskCode(r) \/ Regenerate(r) \/ FactoryReset(r)

Continue(r) ==
    \/ Enroll(r) \/ ArmDrops(r) \/ ArmKeeps(r) \/ ArmMints(r) \/ Engrave(r)
    \/ Swap(r) \/ FinishLeave(r) \/ InstallSticker(r) \/ GenerateCode(r)
    \/ ClearCodes(r) \/ Remint(r) \/ SaveCode(r) \/ Announce(r)
    \/ UnpairAll(r) \/ ForgetCodes(r)

Next ==
    \/ \E r \in Requests : Request(r) \/ Continue(r)
    \/ Remove \/ DropCode \/ Stop \/ Start

Spec == Init /\ [][Next]_vars

(* A started request goes on to its end, and a stopped hub starts again. *)
FairSpec == Spec /\ (\A r \in Requests : WF_vars(Continue(r))) /\ WF_vars(Start)
-----------------------------------------------------------------------------
(* Every variable keeps its type, and the jobs carry what their step needs. *)
TypeOK ==
    /\ devices \subseteq Devices
    /\ sticker \in Stickers \cup {None}
    /\ members \subseteq MemberCodes
    /\ card \in Cards \cup {None}
    /\ {saved, printed, drawn} \subseteq Pairs
    /\ hub \in Starting \cup {"up"}
    /\ job \in [Requests -> Job]
    /\ \A r \in Requests :
         /\ job[r].step = "enroll" => job[r].phone # None /\ job[r].code \notin Cards \cup {None}
         /\ job[r].step = "swap" => job[r].phone # None
         /\ job[r].step = "engrave" => job[r].code \in Cards
         /\ job[r].step \in {"install", "saveCode", "announce"} => job[r].code \in Stickers

(* The hub never has two owners, although a sticker can be armed again while a *)
(* phone that redeemed it is still being enrolled, and a card can be redeemed  *)
(* twice at once.                                                              *)
OneOwner == \A d, e \in devices : d.admin /\ e.admin => d = e

(* A member code pairs one phone at most: while a device or a request holds it *)
(* the code is in no row, and nobody else holds it.                            *)
Holds(r, c) == job[r].step = "enroll" /\ job[r].code = c
PairedBy(c) == {d \in devices : d.via = c}
OneUsePerCode == \A c \in MemberCodes :
    /\ \A d, e \in PairedBy(c) : d = e
    /\ \A q, r \in Requests : Holds(q, c) /\ Holds(r, c) => q = r
    /\ (\E r \in Requests : Holds(r, c)) => PairedBy(c) = {} /\ c \notin members
    /\ c \in members => PairedBy(c) = {}

Settled == hub = "up" /\ NoneInFlight

(* Once the requests in flight are answered, the papers the owner holds are    *)
(* the ones the hub honours, also after a restart: the sticker that was printed *)
(* last and no other, which is armed when the hub has no owner whoever left and *)
(* whatever failed, and the card.                                               *)
HonoursPapers == Settled =>
    /\ saved.sticker = printed.sticker
    /\ sticker \in {None, printed.sticker}
    /\ ~Claimed => sticker # None
    /\ card # None /\ card = saved.card /\ card = printed.card

(* An unclaimed hub gets its owner by the sticker only: a recovery that started *)
(* while the hub had an owner must not claim it once that owner has left.       *)
UnclaimedNeedsSticker ==
    [][~Claimed => \A d \in devices' : d.admin => d.via \in Stickers]_vars

(* And the card is permanent: only a factory reset forgets it, so the papers *)
(* stay good from the day they are printed.                                   *)
PapersStayGood ==
    /\ []HonoursPapers
    /\ [][saved.card # None => saved'.card \in {saved.card, None}]_vars

(* An unclaimed hub becomes claimable, or is claimed, or stops. *)
BecomesClaimable ==
    (hub = "up" /\ ~Claimed) ~> (Claimed \/ sticker # None \/ hub # "up")
=============================================================================
