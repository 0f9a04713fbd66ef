----------------------------- MODULE ClaimProofs -----------------------------
(* What Claim guarantees for any number of phones, requests and codes, and   *)
(* whatever overlaps: the hub has one owner at most, a member code pairs one *)
(* phone at most, and an unclaimed hub gets its owner by the sticker only;   *)
(* and of a quiet hub: the papers its owner holds are the ones it honours.   *)
EXTENDS Claim, TLAPS

USE DEF Idle, Job, Steps, Resetting, Starting, Pairs, NoPair, Devices, Codes

LEMMA TypeInit == Init => TypeOK
  BY CodesAssumption DEF Init, TypeOK

LEMMA TypeStep == TypeOK /\ [Next]_vars => TypeOK'
<1> SUFFICES ASSUME TypeOK, [Next]_vars PROVE TypeOK'
  OBVIOUS
<1> USE CodesAssumption, PhonesAssumption
<1>1. ASSUME NEW r \in Requests, Request(r) PROVE TypeOK'
  <2>1. CASE RedeemMember(r)
    <3>1. PICK p \in Phones, c \in members :
            /\ Begin(r, "enroll", p, c) /\ c \in MemberCodes /\ members' = members \ {c}
            /\ UNCHANGED <<devices, sticker, card, saved, printed, hub, drawn>>
      BY <2>1 DEF RedeemMember, TypeOK
    <3>2. /\ [step |-> "enroll", phone |-> p, code |-> c] \in Job
          /\ job' = [job EXCEPT ![r] = [step |-> "enroll", phone |-> p, code |-> c]]
          /\ p # None
      BY <3>1 DEF Begin, TypeOK
    <3> QED
      BY <3>1, <3>2 DEF TypeOK
  <2>2. CASE RedeemSticker(r)
    <3>1. PICK p \in Phones :
            /\ Begin(r, "enroll", p, sticker) /\ sticker \in Stickers /\ sticker' = None
            /\ UNCHANGED <<devices, members, card, saved, printed, hub, drawn>>
      BY <2>2 DEF RedeemSticker, TypeOK
    <3>2. /\ [step |-> "enroll", phone |-> p, code |-> sticker] \in Job
          /\ job' = [job EXCEPT ![r] = [step |-> "enroll", phone |-> p, code |-> sticker]]
          /\ p # None
      BY <3>1 DEF Begin, TypeOK
    <3> QED
      BY <3>1, <3>2 DEF TypeOK
  <2>3. CASE RedeemCard(r)
    <3>1. PICK p \in Phones :
            /\ Begin(r, "swap", p, None)
            /\ UNCHANGED <<devices, sticker, members, card, saved, printed, hub, drawn>>
      BY <2>3 DEF RedeemCard, TypeOK
    <3>2. /\ [step |-> "swap", phone |-> p, code |-> None] \in Job
          /\ job' = [job EXCEPT ![r] = [step |-> "swap", phone |-> p, code |-> None]]
          /\ p # None
      BY <3>1 DEF Begin, TypeOK
    <3> QED
      BY <3>1, <3>2 DEF TypeOK
  <2>4. CASE Leave(r)
    BY <2>4 DEF Leave, Begin, TypeOK
  <2>5. CASE AskCode(r)
    BY <2>5 DEF AskCode, Begin, TypeOK
  <2>6. CASE Regenerate(r)
    BY <2>6 DEF Regenerate, Begin, TypeOK
  <2>7. CASE FactoryReset(r)
    BY <2>7 DEF FactoryReset, Begin, TypeOK
  <2> QED
    BY <1>1, <2>1, <2>2, <2>3, <2>4, <2>5, <2>6, <2>7 DEF Request
<1>2. ASSUME NEW r \in Requests, Continue(r) PROVE TypeOK'
  <2>1. CASE Enroll(r)
    <3> DEFINE new == [phone |-> job[r].phone, admin |-> job[r].code \in Stickers,
                       via |-> job[r].code]
    <3>0. new \in Devices
      <4>1. job[r].phone \in Phones /\ job[r].code \in Codes
        BY <2>1 DEF Enroll, At, TypeOK
      <4> QED
        BY <4>1
    <3>1. devices' \subseteq Devices
      <4>1. devices' = devices \/ devices' = devices \cup {new}
        BY <2>1 DEF Enroll
      <4> HIDE DEF Devices, new
      <4> QED
        BY <4>1, <3>0 DEF TypeOK
    <3>2. job' = [job EXCEPT ![r] = Idle] \/ job' = [job EXCEPT ![r].step = "arm"]
      BY <2>1 DEF Enroll, Goto, Done
    <3> QED
      BY <2>1, <3>1, <3>2 DEF Enroll, TypeOK
  <2>2. CASE ArmDrops(r)
    BY <2>2 DEF ArmDrops, At, Done, TypeOK
  <2>3. CASE ArmKeeps(r)
    BY <2>3 DEF ArmKeeps, Done, TypeOK
  <2>4. CASE ArmMints(r)
    <3>1. PICK c \in Cards : /\ saved' = [saved EXCEPT !.card = c]
                             /\ Carry(r, "engrave", c)
      BY <2>4 DEF ArmMints, Fresh
    <3>2. /\ job' \in [Requests -> Job]
          /\ \A q \in Requests \ {r} : job'[q] = job[q]
          /\ job'[r].step = "engrave" /\ job'[r].code = c
      <4>1. [step |-> "engrave", phone |-> None, code |-> c] \in Job
        OBVIOUS
      <4> QED
        BY <3>1, <4>1 DEF Carry, TypeOK
    <3>3. saved' \in Pairs
      BY <3>1 DEF TypeOK
    <3> QED
      BY <2>4, <3>2, <3>3 DEF ArmMints, TypeOK
  <2>5. CASE Engrave(r)
    BY <2>5 DEF Engrave, At, Done, TypeOK
  <2>6. CASE Swap(r)
    <3> DEFINE new == [phone |-> job[r].phone, admin |-> TRUE, via |-> None]
    <3>0. new \in Devices
      <4>1. job[r].phone \in Phones
        BY <2>6 DEF Swap, At, TypeOK
      <4> QED
        BY <4>1
    <3>1. devices' \subseteq Devices
      <4>1. devices' = devices \/ \E old \in devices : devices' = (devices \ {old}) \cup {new}
        BY <2>6 DEF Swap
      <4> HIDE DEF Devices, new
      <4> QED
        BY <4>1, <3>0 DEF TypeOK
    <3>2. job' = [job EXCEPT ![r] = Idle] \/ job' = [job EXCEPT ![r].step = "arm"]
      BY <2>6 DEF Swap, Goto, Done
    <3> QED
      BY <2>6, <3>1, <3>2 DEF Swap, TypeOK
  <2>7. CASE FinishLeave(r)
    BY <2>7 DEF FinishLeave, Carry, Done, TypeOK
  <2>8. CASE InstallSticker(r)
    BY <2>8 DEF InstallSticker, At, Done, TypeOK
  <2>9. CASE GenerateCode(r)
    BY <2>9 DEF GenerateCode, At, Done, Fresh, TypeOK
  <2>10. CASE ClearCodes(r)
    BY <2>10 DEF ClearCodes, At, Goto, TypeOK
  <2>11. CASE Remint(r)
    BY <2>11 DEF Remint, At, Carry, Done, Fresh, TypeOK
  <2>12. CASE SaveCode(r)
    BY <2>12 DEF SaveCode, At, Goto, TypeOK
  <2>13. CASE Announce(r)
    BY <2>13 DEF Announce, At, Done, TypeOK
  <2>14. CASE UnpairAll(r)
    BY <2>14 DEF UnpairAll, At, Goto, TypeOK
  <2>15. CASE ForgetCodes(r)
    BY <2>15 DEF ForgetCodes, At, HubStops, TypeOK
  <2> QED
    BY <1>2, <2>1, <2>2, <2>3, <2>4, <2>5, <2>6, <2>7, <2>8, <2>9, <2>10,
       <2>11, <2>12, <2>13, <2>14, <2>15 DEF Continue
<1>3. CASE Remove
  BY <1>3 DEF Remove, TypeOK
<1>4. CASE DropCode
  BY <1>4 DEF DropCode, TypeOK
<1>5. CASE Stop
  BY <1>5 DEF Stop, HubStops, TypeOK
<1>6. CASE Start
  <2>1. CASE StartSticker
    BY <2>1 DEF StartSticker, Fresh, TypeOK
  <2>2. CASE SaveSticker
    BY <2>2 DEF SaveSticker, TypeOK
  <2>3. CASE StartCard
    BY <2>3 DEF StartCard, Fresh, TypeOK
  <2>4. CASE SaveCard
    BY <2>4 DEF SaveCard, TypeOK
  <2>5. CASE Show
    BY <2>5 DEF Show, Newest, TypeOK
  <2> QED
    BY <1>6, <2>1, <2>2, <2>3, <2>4, <2>5 DEF Start
<1>7. CASE UNCHANGED vars
  BY <1>7 DEF vars, TypeOK
<1> QED
  BY <1>1, <1>2, <1>3, <1>4, <1>5, <1>6, <1>7 DEF Next

(* Every variable keeps its type. *)
THEOREM TypeCorrect == Spec => []TypeOK
  BY TypeInit, TypeStep, PTL DEF Spec

-----------------------------------------------------------------------------
(* Devices are added by a finished enrollment or a recovery, by nothing else. *)
LEMMA OnlyPairingAdds ==
    [Next]_vars => \/ devices' \subseteq devices
                   \/ \E r \in Requests : Enroll(r) \/ Swap(r)
<1> SUFFICES ASSUME [Next]_vars, \A r \in Requests : ~Enroll(r) /\ ~Swap(r)
             PROVE  devices' \subseteq devices
  OBVIOUS
<1>1. ASSUME NEW r \in Requests, Request(r) PROVE devices' \subseteq devices
  BY <1>1 DEF Request, RedeemMember, RedeemSticker, RedeemCard, Leave, AskCode,
     Regenerate, FactoryReset
<1>2. ASSUME NEW r \in Requests, Continue(r) PROVE devices' \subseteq devices
  BY <1>2 DEF Continue, ArmDrops, ArmKeeps, ArmMints, Engrave, FinishLeave,
     InstallSticker, GenerateCode, ClearCodes, Remint, SaveCode, Announce,
     UnpairAll, ForgetCodes
<1>3. CASE Remove \/ DropCode \/ Stop \/ Start
  BY <1>3 DEF Remove, DropCode, Stop, Start, StartSticker, SaveSticker, StartCard,
     SaveCard, Show
<1>4. CASE UNCHANGED vars
  BY <1>4 DEF vars
<1> QED
  BY <1>1, <1>2, <1>3, <1>4 DEF Next

(* What a finished enrollment and a recovery add. *)
LEMMA EnrollAdds ==
    ASSUME TypeOK, NEW r \in Requests, Enroll(r)
    PROVE  \/ devices' = devices
           \/ \E d \in Devices :
                 /\ devices' = devices \cup {d}
                 /\ d.via = job[r].code
                 /\ d.admin => ~Claimed /\ d.via \in Stickers
<1> DEFINE new == [phone |-> job[r].phone, admin |-> job[r].code \in Stickers,
                   via |-> job[r].code]
<1>1. job[r].phone \in Phones /\ job[r].code \in Codes
  BY CodesAssumption DEF Enroll, At, TypeOK
<1>2. new \in Devices /\ new.via = job[r].code /\ new.admin = (job[r].code \in Stickers)
  BY <1>1
<1>3. devices' = devices \/ (devices' = devices \cup {new} /\ (new.admin => ~Claimed))
  BY <1>2 DEF Enroll
<1> HIDE DEF new
<1> QED
  BY <1>2, <1>3

LEMMA SwapAdds ==
    ASSUME NEW r \in Requests, Swap(r)
    PROVE  \/ devices' = devices
           \/ \E old \in devices : \E d \in devices' :
                 /\ old.admin
                 /\ devices' = (devices \ {old}) \cup {d}
                 /\ d.via = None
<1> DEFINE new == [phone |-> job[r].phone, admin |-> TRUE, via |-> None]
<1>1. new.via = None
  OBVIOUS
<1>2. \/ devices' = devices
      \/ \E old \in devices : old.admin /\ devices' = (devices \ {old}) \cup {new}
  BY DEF Swap
<1> HIDE DEF new
<1> QED
  BY <1>1, <1>2

LEMMA OneOwnerStep == TypeOK /\ OneOwner /\ [Next]_vars => OneOwner'
<1> SUFFICES ASSUME TypeOK, OneOwner, [Next]_vars PROVE OneOwner'
  OBVIOUS
<1>1. CASE devices' \subseteq devices
  BY <1>1 DEF OneOwner
<1>2. ASSUME NEW r \in Requests, Enroll(r) PROVE OneOwner'
  BY <1>2, EnrollAdds DEF OneOwner, Claimed
<1>3. ASSUME NEW r \in Requests, Swap(r) PROVE OneOwner'
  BY <1>3, SwapAdds DEF OneOwner
<1> QED
  BY <1>1, <1>2, <1>3, OnlyPairingAdds

(* The hub never has two owners. *)
THEOREM OneOwnerAlways == Spec => []OneOwner
<1>1. Init => OneOwner
  BY DEF Init, OneOwner
<1> QED
  BY <1>1, TypeCorrect, OneOwnerStep, PTL DEF Spec

(* An unclaimed hub gets its owner by the sticker only. *)
THEOREM StickerClaims == Spec => UnclaimedNeedsSticker
<1> DEFINE A == ~Claimed => \A d \in devices' : d.admin => d.via \in Stickers
<1>1. TypeOK /\ [Next]_vars => A
  <2> SUFFICES ASSUME TypeOK, [Next]_vars, ~Claimed,
                      NEW d \in devices', d.admin
               PROVE  d.via \in Stickers
    OBVIOUS
  <2>1. CASE devices' \subseteq devices
    BY <2>1 DEF Claimed
  <2>2. ASSUME NEW r \in Requests, Enroll(r) PROVE d.via \in Stickers
    BY <2>2, EnrollAdds DEF Claimed
  <2>3. ASSUME NEW r \in Requests, Swap(r) PROVE d.via \in Stickers
    BY <2>3, SwapAdds DEF Claimed
  <2> QED
    BY <2>1, <2>2, <2>3, OnlyPairingAdds
<1> HIDE DEF A
<1>2. TypeOK /\ [Next]_vars => [A]_vars
  BY <1>1
<1>3. [][A]_vars => UnclaimedNeedsSticker
  BY PTL DEF A, UnclaimedNeedsSticker
<1> QED
  BY <1>2, <1>3, TypeCorrect, PTL DEF Spec

-----------------------------------------------------------------------------
(* A step that pairs nobody, draws no member code and redeems none. *)
Quiet ==
    /\ devices' \subseteq devices
    /\ members' \subseteq members
    /\ \A r \in Requests, c \in MemberCodes : Holds(r, c)' => Holds(r, c)

LEMMA QuietKeeps == OneUsePerCode /\ Quiet => OneUsePerCode'
  BY DEF OneUsePerCode, Quiet, PairedBy

(* Only the four steps that handle a member code are not quiet. *)
LEMMA QuietStep ==
    ASSUME TypeOK, [Next]_vars,
           \A r \in Requests : ~RedeemMember(r) /\ ~Enroll(r) /\ ~Swap(r) /\ ~GenerateCode(r)
    PROVE  Quiet
<1>1. devices' \subseteq devices
  BY OnlyPairingAdds
<1>2. members' \subseteq members
  <2>1. ASSUME NEW r \in Requests, Request(r) PROVE members' \subseteq members
    BY <2>1 DEF Request, RedeemSticker, RedeemCard, Leave, AskCode, Regenerate, FactoryReset
  <2>2. ASSUME NEW r \in Requests, Continue(r) PROVE members' \subseteq members
    BY <2>2 DEF Continue, ArmDrops, ArmKeeps, ArmMints, Engrave, FinishLeave,
       InstallSticker, ClearCodes, Remint, SaveCode, Announce, UnpairAll, ForgetCodes
  <2>3. CASE Remove \/ DropCode \/ Stop \/ Start
    BY <2>3 DEF Remove, DropCode, Stop, Start, StartSticker, SaveSticker, StartCard,
       SaveCard, Show
  <2>4. CASE UNCHANGED vars
    BY <2>4 DEF vars
  <2> QED
    BY <2>1, <2>2, <2>3, <2>4 DEF Next
<1>3. ASSUME NEW q \in Requests, NEW c \in MemberCodes, Holds(q, c)' PROVE Holds(q, c)
  <2>1. ASSUME NEW r \in Requests, RedeemSticker(r) PROVE Holds(q, c)
    BY <1>3, <2>1, CodesAssumption DEF RedeemSticker, Begin, Holds, TypeOK
  <2>2. ASSUME NEW r \in Requests, NEW step \in Steps \ {"enroll"}, NEW p, NEW k,
               Begin(r, step, p, k)
        PROVE  Holds(q, c)
    BY <1>3, <2>2 DEF Begin, Holds, TypeOK
  <2>3. ASSUME NEW r \in Requests, Request(r), ~RedeemSticker(r) PROVE Holds(q, c)
    BY <2>2, <2>3 DEF Request, RedeemCard, Leave, AskCode, Regenerate, FactoryReset
  <2>4. ASSUME NEW r \in Requests, NEW step \in Steps \ {"enroll"}, Goto(r, step)
        PROVE  Holds(q, c)
    BY <1>3, <2>4 DEF Goto, Holds, TypeOK
  <2>5. ASSUME NEW r \in Requests, NEW step \in Steps \ {"enroll"}, NEW k, Carry(r, step, k)
        PROVE  Holds(q, c)
    BY <1>3, <2>5 DEF Carry, Holds, TypeOK
  <2>6. ASSUME NEW r \in Requests, Done(r) PROVE Holds(q, c)
    BY <1>3, <2>6 DEF Done, Holds, TypeOK
  <2>7. ASSUME NEW r \in Requests, Continue(r), ~ForgetCodes(r) PROVE Holds(q, c)
    BY <2>4, <2>5, <2>6, <2>7 DEF Continue, ArmDrops, ArmKeeps, ArmMints, Engrave,
       FinishLeave, InstallSticker, ClearCodes, Remint, SaveCode, Announce, UnpairAll
  <2>8. ASSUME NEW kept, HubStops(kept) PROVE Holds(q, c)
    BY <1>3, <2>8 DEF HubStops, Holds, TypeOK
  <2>9. CASE UNCHANGED job
    BY <1>3, <2>9 DEF Holds
  <2>10. CASE Stop \/ \E r \in Requests : ForgetCodes(r)
    BY <2>8, <2>10 DEF Stop, ForgetCodes
  <2>11. CASE Remove \/ DropCode \/ Start \/ UNCHANGED vars
    BY <2>9, <2>11 DEF Remove, DropCode, Start, StartSticker, SaveSticker, StartCard,
       SaveCard, Show, vars
  <2> QED
    BY <2>1, <2>3, <2>7, <2>10, <2>11 DEF Next
<1> QED
  BY <1>1, <1>2, <1>3 DEF Quiet

LEMMA OneUseStep == TypeOK /\ OneUsePerCode /\ [Next]_vars => OneUsePerCode'
<1> SUFFICES ASSUME TypeOK, OneUsePerCode, [Next]_vars PROVE OneUsePerCode'
  OBVIOUS
<1>1. ASSUME NEW r \in Requests, RedeemMember(r) PROVE OneUsePerCode'
  <2>1. PICK c \in members :
          /\ members' = members \ {c}
          /\ devices' = devices
          /\ \A q \in Requests, k \in MemberCodes : Holds(q, k)' => Holds(q, k) \/ (q = r /\ k = c)
    BY <1>1 DEF RedeemMember, Begin, Holds, TypeOK
  <2>2. c \in MemberCodes /\ PairedBy(c) = {} /\ \A q \in Requests : ~Holds(q, c)
    BY DEF OneUsePerCode, TypeOK
  <2> QED
    BY <2>1, <2>2 DEF OneUsePerCode, PairedBy
<1>2. ASSUME NEW r \in Requests, Enroll(r) PROVE OneUsePerCode'
  <2>1. /\ members' = members
        /\ Holds(r, job[r].code)
        /\ \A k \in MemberCodes : ~Holds(r, k)'
        /\ \A q \in Requests, k \in MemberCodes : Holds(q, k)' => Holds(q, k) /\ q # r
    BY <1>2 DEF Enroll, At, Goto, Done, Holds, TypeOK
  <2>2. CASE devices' = devices
    BY <2>1, <2>2 DEF OneUsePerCode, PairedBy
  <2>3. ASSUME NEW d \in Devices, devices' = devices \cup {d}, d.via = job[r].code
        PROVE  OneUsePerCode'
    <3>1. \A q \in Requests : q # r => ~Holds(q, d.via) \/ d.via \notin MemberCodes
      BY <2>1, <2>3 DEF OneUsePerCode
    <3>2. d.via \in MemberCodes => PairedBy(d.via) = {} /\ d.via \notin members
      BY <2>1, <2>3 DEF OneUsePerCode
    <3> HIDE DEF Devices
    <3> QED
      BY <2>1, <2>3, <3>1, <3>2 DEF OneUsePerCode, PairedBy
  <2> QED
    BY <1>2, <2>2, <2>3, EnrollAdds
<1>3. ASSUME NEW r \in Requests, Swap(r) PROVE OneUsePerCode'
  <2>1. /\ members' = members
        /\ \A q \in Requests, k \in MemberCodes : Holds(q, k)' => Holds(q, k)
    BY <1>3 DEF Swap, At, Goto, Done, Holds, TypeOK
  <2>2. \A k \in MemberCodes : PairedBy(k)' \subseteq PairedBy(k)
    BY <1>3, SwapAdds, CodesAssumption DEF PairedBy
  <2> QED
    BY <2>1, <2>2 DEF OneUsePerCode
<1>4. ASSUME NEW r \in Requests, GenerateCode(r) PROVE OneUsePerCode'
  <2>1. PICK c \in Fresh(MemberCodes) : members' = members \cup {c}
    BY <1>4 DEF GenerateCode
  <2>2. /\ devices' = devices
        /\ \A q \in Requests, k \in MemberCodes : Holds(q, k)' => Holds(q, k)
    BY <1>4 DEF GenerateCode, Done, Holds, TypeOK
  <2>3. PairedBy(c) = {} /\ \A q \in Requests : ~Holds(q, c)
    BY <2>1 DEF Fresh, Live, PairedBy, Holds
  <2> QED
    BY <2>1, <2>2, <2>3 DEF OneUsePerCode, PairedBy
<1> QED
  BY <1>1, <1>2, <1>3, <1>4, QuietStep, QuietKeeps

(* A member code pairs one phone at most. *)
THEOREM OneUseAlways == Spec => []OneUsePerCode
<1>1. Init => OneUsePerCode
  BY DEF Init, OneUsePerCode, Holds, PairedBy
<1> QED
  BY <1>1, TypeCorrect, OneUseStep, PTL DEF Spec

-----------------------------------------------------------------------------
(* The papers: a hub whose resets run alone, whose owner does not leave while *)
(* the card is being armed, and that does not stop while a code is drawn.     *)

QuietHub == QuietResets /\ ~LeaveWhileArming /\ ~StopWhileMinting

(* The owner holds what the hub saved. *)
Papers == saved = printed /\ saved.sticker # None /\ saved.card # None

(* A hub that was never started, or was reset: nobody is paired and nothing runs. *)
Blank == devices = {} /\ NoneInFlight
FirstStart ==
    /\ Blank
    /\ hub \in {"down", "saveSticker"} => saved = NoPair
    /\ hub = "down" => sticker = None /\ drawn = NoPair
    /\ hub \in {"saveSticker", "card", "saveCard", "show"} => sticker # None /\ drawn.sticker = sticker
    /\ hub \in {"card", "saveCard", "show"} => saved.sticker = sticker
    /\ hub \in {"saveSticker", "card"} => drawn.card = None
    /\ hub \in {"card", "saveCard"} => saved.card = None
    /\ hub \in {"saveCard", "show"} => card # None /\ drawn.card = card
    /\ hub = "show" => saved.card = card

LaterStart ==
    /\ Papers /\ drawn = NoPair
    /\ hub \in {"card", "show"} => sticker = IF Claimed THEN None ELSE saved.sticker
    /\ hub = "show" => card = saved.card
    /\ hub \in {"down", "card", "show"}

(* What a request knows.  The card is never missing while the hub serves, so no *)
(* request draws one, and the owner that a claim made is there while it ends.   *)
InHand(t) ==
    /\ t.step = "install" => t.code = saved.sticker
    /\ t.step = "arm" => Claimed
    /\ t.step # "engrave"

(* A hub that nobody owns can be claimed, or a request is about to see to it. *)
Claimable == Claimed \/ sticker # None
    \/ \E r \in Requests : \/ job[r].step \in {"finish", "install"}
                           \/ job[r].step = "enroll" /\ job[r].code \in Stickers

Serving ==
    /\ drawn = NoPair /\ Papers /\ card = saved.card
    /\ sticker \in {None, saved.sticker}
    /\ Claimable

Alone(r) == \A q \in Requests \ {r} : job[q] = Idle

Regenerating(r) ==
    /\ drawn = NoPair /\ devices = {} /\ card = saved.card
    /\ saved.card = printed.card /\ saved.card # None /\ saved.sticker # None
    /\ job[r].step # "announce" => saved = printed
    /\ job[r].step = "clear" => sticker \in {None, saved.sticker}
    /\ job[r].step = "remint" => sticker = None
    /\ job[r].step \in {"saveCode", "announce"} => sticker = job[r].code
    /\ job[r].step = "announce" => saved.sticker = job[r].code

Forgetting(r) ==
    /\ drawn = NoPair /\ Papers /\ sticker = None
    /\ job[r].step = "forget" => devices = {}

(* In every step of a start and of a reset that runs alone, one of the above. *)
PapersInv ==
    /\ \A r \in Requests : InHand(job[r])
    /\ \A r \in Requests : job[r].step \in Resetting => Alone(r)
    /\ hub # "up" => ~InReset /\ (FirstStart \/ LaterStart)
    /\ hub = "up" =>
         /\ ~InReset => Serving
         /\ \A r \in Requests :
              /\ job[r].step \in {"clear", "remint", "saveCode", "announce"} => Regenerating(r)
              /\ job[r].step \in {"unpairAll", "forget"} => Forgetting(r)

LEMMA PapersInit == Init => PapersInv
  BY DEF Init, PapersInv, InHand, InReset, FirstStart, Blank, NoneInFlight, Alone

(* While no reset runs, nothing else of the invariant is at stake. *)
LEMMA StaysServing ==
    ASSUME hub' = "up", ~InReset', \A q \in Requests : InHand(job[q])', Serving'
    PROVE  PapersInv'
  BY DEF PapersInv, InReset, Regenerating, Forgetting, Resetting

(* A request of a hub that no reset disturbs moves to t. *)
Moved(r, t) ==
    /\ hub = "up" /\ hub' = "up" /\ ~InReset
    /\ job' = [job EXCEPT ![r] = t]
    /\ t \in Job /\ t.step \notin Resetting
    /\ UNCHANGED <<card, saved, printed, drawn>>

LEMMA MovesServing ==
    ASSUME TypeOK, PapersInv, NEW r \in Requests, NEW t, Moved(r, t),
           Claimed => Claimed' \/ ~Arming,
           t.step \in {"arm", "engrave"} => Claimed' /\ t.step = "arm",
           t.step = "install" => t.code = saved.sticker,
           sticker' \in {None, saved.sticker},
           \/ Claimed' \/ sticker' # None
           \/ t.step \in {"finish", "install"} \/ (t.step = "enroll" /\ t.code \in Stickers)
           \/ ~Claimed /\ sticker = None
              /\ ~(job[r].step \in {"finish", "install"})
              /\ ~(job[r].step = "enroll" /\ job[r].code \in Stickers)
    PROVE  PapersInv'
<1>1. /\ job'[r] = t
      /\ \A q \in Requests \ {r} : job'[q] = job[q]
  BY DEF Moved, TypeOK
<1>2. Serving
  BY DEF PapersInv, Moved
<1>3. ~InReset'
  BY <1>1 DEF InReset, Moved, Resetting
<1>4. ASSUME NEW q \in Requests PROVE InHand(job[q])'
  <2>1. CASE q = r
    BY <2>1, <1>1 DEF InHand, Moved
  <2>2. CASE q # r
    BY <2>2, <1>1 DEF InHand, Moved, PapersInv, Arming
  <2> QED
    BY <2>1, <2>2
<1>5. Claimable'
  <2>1. CASE ~Claimed /\ sticker = None
    <3>1. PICK q \in Requests : \/ job[q].step \in {"finish", "install"}
                                \/ job[q].step = "enroll" /\ job[q].code \in Stickers
      BY <2>1, <1>2 DEF Serving, Claimable
    <3>2. CASE q = r
      BY <3>1, <3>2, <1>1, <2>1 DEF Claimable
    <3>3. CASE q # r
      BY <3>1, <3>3, <1>1 DEF Claimable
    <3> QED
      BY <3>2, <3>3
  <2>2. CASE ~(~Claimed /\ sticker = None)
    BY <2>2, <1>1 DEF Claimable
  <2> QED
    BY <2>1, <2>2
<1>6. Serving'
  BY <1>2, <1>5 DEF Serving, Papers, Moved
<1> QED
  BY <1>3, <1>4, <1>6, StaysServing DEF Moved

LEMMA BegunMoves ==
    ASSUME QuietHub, TypeOK, NEW r \in Requests, NEW step \in Steps \ Resetting,
           NEW p \in Phones \cup {None}, NEW c \in Codes \cup {None}, Begin(r, step, p, c),
           UNCHANGED <<card, saved, printed, hub, drawn>>
    PROVE  Moved(r, [step |-> step, phone |-> p, code |-> c]) /\ job[r].step = "idle"
  BY DEF QuietHub, Begin, Moved, TypeOK

LEMMA RequestPapers ==
    ASSUME QuietHub, TypeOK, PapersInv, NEW r \in Requests, Request(r)
    PROVE  PapersInv'
<1>0. hub = "up" /\ job[r] = Idle /\ ~InReset /\ Serving
  BY DEF QuietHub, PapersInv, Request, RedeemMember, RedeemSticker, RedeemCard, Leave, AskCode,
     Regenerate, FactoryReset, Begin
<1>1. CASE RedeemMember(r)
  <2>1. PICK p \in Phones, c \in members :
          /\ Begin(r, "enroll", p, c)
          /\ UNCHANGED <<devices, sticker, card, saved, printed, hub, drawn>>
    BY <1>1 DEF RedeemMember
  <2> DEFINE t == [step |-> "enroll", phone |-> p, code |-> c]
  <2>2. c \in Codes
    BY DEF TypeOK
  <2>3. Moved(r, t) /\ t.step = "enroll"
    BY <2>1, <2>2, BegunMoves
  <2> HIDE DEF t
  <2> QED
    BY <1>0, <2>1, <2>3, MovesServing DEF Claimed, Serving
<1>2. CASE RedeemSticker(r)
  <2>1. PICK p \in Phones :
          /\ Begin(r, "enroll", p, sticker) /\ sticker # None /\ sticker' = None
          /\ UNCHANGED <<devices, members, card, saved, printed, hub, drawn>>
    BY <1>2 DEF RedeemSticker
  <2> DEFINE t == [step |-> "enroll", phone |-> p, code |-> sticker]
  <2>2. sticker \in Stickers
    BY <2>1 DEF TypeOK
  <2>3. Moved(r, t) /\ t.step = "enroll" /\ t.code \in Stickers
    BY <2>1, <2>2, BegunMoves
  <2> HIDE DEF t
  <2> QED
    BY <1>0, <2>1, <2>3, MovesServing DEF Claimed, Serving
<1>3. CASE RedeemCard(r)
  <2>1. PICK p \in Phones :
          /\ Begin(r, "swap", p, None)
          /\ UNCHANGED <<devices, sticker, members, card, saved, printed, hub, drawn>>
    BY <1>3 DEF RedeemCard
  <2> DEFINE t == [step |-> "swap", phone |-> p, code |-> None]
  <2>2. Moved(r, t) /\ t.step = "swap"
    BY <2>1, BegunMoves
  <2> HIDE DEF t
  <2> QED
    BY <1>0, <2>1, <2>2, MovesServing DEF Claimed, Serving
<1>4. CASE Leave(r)
  <2>1. /\ Begin(r, "finish", None, None) /\ ~Arming
        /\ UNCHANGED <<sticker, members, card, saved, printed, hub, drawn>>
    BY <1>4 DEF Leave, QuietHub
  <2> DEFINE t == [step |-> "finish", phone |-> None, code |-> None]
  <2>2. Moved(r, t) /\ t.step = "finish"
    BY <2>1, BegunMoves
  <2> HIDE DEF t
  <2> QED
    BY <1>0, <2>1, <2>2, MovesServing DEF Serving
<1>5. CASE AskCode(r)
  <2>1. /\ Begin(r, "mint", None, None)
        /\ UNCHANGED <<devices, sticker, members, card, saved, printed, hub, drawn>>
    BY <1>5 DEF AskCode
  <2> DEFINE t == [step |-> "mint", phone |-> None, code |-> None]
  <2>2. Moved(r, t) /\ t.step = "mint"
    BY <2>1, BegunMoves
  <2> HIDE DEF t
  <2> QED
    BY <1>0, <2>1, <2>2, MovesServing DEF Claimed, Serving
<1>6. CASE Regenerate(r)
  <2>1. /\ NoneInFlight /\ devices' = {}
        /\ job' = [job EXCEPT ![r] = [step |-> "clear", phone |-> None, code |-> None]]
        /\ UNCHANGED <<sticker, card, saved, printed, hub, drawn>>
    BY <1>6 DEF Regenerate, MayReset, QuietHub, Begin
  <2>2. /\ job'[r].step = "clear"
        /\ \A q \in Requests \ {r} : job'[q] = Idle
    BY <2>1 DEF NoneInFlight, TypeOK
  <2>3. Regenerating(r)'
    BY <1>0, <2>1, <2>2 DEF Regenerating, Serving, Papers
  <2>4. \A q \in Requests : InHand(job[q])'
    BY <2>2 DEF InHand
  <2> QED
    BY <1>0, <2>1, <2>2, <2>3, <2>4 DEF PapersInv, Alone, InReset
<1>7. CASE FactoryReset(r)
  <2>1. /\ NoneInFlight /\ sticker' = None
        /\ job' = [job EXCEPT ![r] = [step |-> "unpairAll", phone |-> None, code |-> None]]
        /\ UNCHANGED <<saved, printed, hub, drawn>>
    BY <1>7 DEF FactoryReset, MayReset, QuietHub, Begin
  <2>2. /\ job'[r].step = "unpairAll"
        /\ \A q \in Requests \ {r} : job'[q] = Idle
    BY <2>1 DEF NoneInFlight, TypeOK
  <2>3. Forgetting(r)'
    BY <1>0, <2>1, <2>2 DEF Forgetting, Serving, Papers
  <2>4. \A q \in Requests : InHand(job[q])'
    BY <2>2 DEF InHand
  <2> QED
    BY <1>0, <2>1, <2>2, <2>3, <2>4 DEF PapersInv, Alone, InReset
<1> QED
  BY <1>1, <1>2, <1>3, <1>4, <1>5, <1>6, <1>7 DEF Request

(* A chain that is no reset, in a hub that is up. *)
LEMMA DoneMoves ==
    ASSUME TypeOK, PapersInv, NEW r \in Requests, job[r].step \notin Resetting, job[r] # Idle,
           hub = "up", Done(r), UNCHANGED <<card, saved, printed, hub, drawn>>
    PROVE  Moved(r, Idle) /\ ~InReset /\ Serving
<1>1. ~InReset
  BY DEF InReset, PapersInv, Alone
<1> QED
  BY <1>1 DEF Done, Moved, PapersInv

LEMMA GoneOnMoves ==
    ASSUME TypeOK, PapersInv, NEW r \in Requests, job[r].step \notin Resetting, job[r] # Idle,
           hub = "up", NEW step \in Steps \ Resetting, Goto(r, step),
           UNCHANGED <<card, saved, printed, hub, drawn>>
    PROVE  /\ Moved(r, [job[r] EXCEPT !.step = step]) /\ ~InReset /\ Serving
           /\ [job[r] EXCEPT !.step = step].step = step
<1>1. ~InReset
  BY DEF InReset, PapersInv, Alone
<1>2. job[r] \in Job
  BY DEF TypeOK
<1>3. job' = [job EXCEPT ![r] = [job[r] EXCEPT !.step = step]]
  BY DEF Goto
<1>4. [job[r] EXCEPT !.step = step] \in Job /\ [job[r] EXCEPT !.step = step].step = step
  BY <1>2
<1> QED
  BY <1>1, <1>3, <1>4 DEF Moved, PapersInv

LEMMA EnrollPapers ==
    ASSUME TypeOK, PapersInv, NEW r \in Requests, Enroll(r)
    PROVE  PapersInv'
<1>1. /\ hub = "up" /\ job[r].step = "enroll" /\ job[r] # Idle
      /\ UNCHANGED <<sticker, members, card, saved, printed, hub, drawn>>
  BY DEF Enroll, At
<1>2. Claimed => Claimed'
  BY EnrollAdds DEF Claimed
<1>3. CASE job[r].code \in Stickers /\ ~Claimed
  <2> DEFINE new == [phone |-> job[r].phone, admin |-> job[r].code \in Stickers,
                     via |-> job[r].code]
  <2>1. Claimed' /\ Goto(r, "arm")
    <3>1. devices' = devices \cup {new} /\ Goto(r, "arm") /\ new.admin
      BY <1>3 DEF Enroll
    <3> HIDE DEF new
    <3> QED
      BY <3>1 DEF Claimed
  <2>2. Moved(r, [job[r] EXCEPT !.step = "arm"]) /\ Serving
        /\ [job[r] EXCEPT !.step = "arm"].step = "arm"
    BY <1>1, <2>1, GoneOnMoves
  <2> QED
    BY <1>1, <1>2, <2>1, <2>2, MovesServing DEF Serving
<1>4. CASE job[r].code \notin Stickers \/ Claimed
  <2>1. Done(r)
    BY <1>4 DEF Enroll
  <2>2. Moved(r, Idle) /\ Serving
    BY <1>1, <2>1, DoneMoves
  <2> QED
    BY <1>1, <1>2, <1>4, <2>2, MovesServing DEF Serving
<1> QED
  BY <1>3, <1>4

LEMMA SwapPapers ==
    ASSUME TypeOK, PapersInv, NEW r \in Requests, Swap(r)
    PROVE  PapersInv'
<1>1. /\ hub = "up" /\ job[r].step = "swap" /\ job[r] # Idle
      /\ UNCHANGED <<sticker, members, card, saved, printed, hub, drawn>>
  BY DEF Swap, At
<1>2. CASE Claimed
  <2> DEFINE new == [phone |-> job[r].phone, admin |-> TRUE, via |-> None]
  <2>1. Claimed' /\ Goto(r, "arm")
    <3>1. PICK old \in devices : devices' = (devices \ {old}) \cup {new}
      BY <1>2 DEF Swap
    <3>2. new.admin /\ Goto(r, "arm")
      BY <1>2 DEF Swap
    <3> HIDE DEF new
    <3> QED
      BY <3>1, <3>2 DEF Claimed
  <2>2. Moved(r, [job[r] EXCEPT !.step = "arm"]) /\ Serving
        /\ [job[r] EXCEPT !.step = "arm"].step = "arm"
    BY <1>1, <2>1, GoneOnMoves
  <2> QED
    BY <1>1, <2>1, <2>2, MovesServing DEF Serving
<1>3. CASE ~Claimed
  <2>1. Done(r) /\ UNCHANGED devices
    BY <1>3 DEF Swap
  <2>2. Moved(r, Idle) /\ Serving
    BY <1>1, <2>1, DoneMoves
  <2> QED
    BY <1>1, <1>3, <2>1, <2>2, MovesServing DEF Serving, Claimed
<1> QED
  BY <1>2, <1>3

(* A chain survives in a hub that is not up only as a step that changes nothing. *)
LEMMA EndsWhileDown ==
    ASSUME TypeOK, PapersInv, NEW r \in Requests, job[r].step \in {"arm", "finish"}, hub # "up",
           Done(r), UNCHANGED <<devices, sticker, card, saved, printed, hub, drawn>>
    PROVE  PapersInv'
<1>1. job'[r] = Idle /\ \A q \in Requests \ {r} : job'[q] = job[q]
  BY DEF Done, TypeOK
<1>2. LaterStart
  BY DEF PapersInv, FirstStart, Blank, NoneInFlight
<1>3. LaterStart'
  BY <1>2 DEF LaterStart, Papers, Claimed
<1>4. \A q \in Requests : InHand(job[q])'
  BY <1>1 DEF InHand, PapersInv, Claimed
<1> QED
  BY <1>1, <1>3, <1>4 DEF PapersInv, Alone, InReset

LEMMA ArmPapers ==
    ASSUME TypeOK, PapersInv, NEW r \in Requests,
           ArmDrops(r) \/ ArmKeeps(r) \/ ArmMints(r) \/ Engrave(r)
    PROVE  PapersInv'
<1>1. InHand(job[r])
  BY DEF PapersInv
<1>2. ~ArmDrops(r) /\ ~Engrave(r)
  BY <1>1 DEF ArmDrops, Engrave, At, InHand
<1>3. ASSUME ArmMints(r) PROVE FALSE
  <2>1. hub = "up" /\ job[r].step = "arm" /\ card = None
    BY <1>3 DEF ArmMints, At
  <2>2. Serving
    BY <2>1 DEF PapersInv, InReset, Alone
  <2> QED
    BY <2>1, <2>2 DEF Serving, Papers
<1>4. /\ ArmKeeps(r) /\ job[r].step = "arm" /\ Done(r)
      /\ UNCHANGED <<devices, sticker, card, saved, printed, hub, drawn>>
  BY <1>2, <1>3 DEF ArmKeeps
<1>5. CASE hub = "up"
  <2>1. Moved(r, Idle) /\ Serving
    BY <1>4, <1>5, DoneMoves
  <2> QED
    BY <1>4, <2>1, MovesServing DEF Serving, Claimed
<1>6. CASE hub # "up"
  BY <1>4, <1>6, EndsWhileDown
<1> QED
  BY <1>5, <1>6

LEMMA FinishLeavePapers ==
    ASSUME TypeOK, PapersInv, NEW r \in Requests, FinishLeave(r)
    PROVE  PapersInv'
<1>1. job[r].step = "finish" /\ UNCHANGED <<devices, sticker, members, card, saved, printed, hub, drawn>>
  BY DEF FinishLeave
<1>2. CASE hub # "up"
  BY <1>1, <1>2, EndsWhileDown DEF FinishLeave
<1>3. CASE hub = "up" /\ Claimed
  <2>1. Done(r)
    BY <1>3 DEF FinishLeave
  <2>2. Moved(r, Idle) /\ Serving
    BY <1>1, <1>3, <2>1, DoneMoves
  <2> QED
    BY <1>1, <1>3, <2>2, MovesServing DEF Serving, Claimed
<1>4. CASE hub = "up" /\ ~Claimed
  <2> DEFINE t == [step |-> "install", phone |-> None, code |-> saved.sticker]
  <2>1. Serving /\ ~InReset
    BY <1>1, <1>4 DEF PapersInv, InReset, Alone
  <2>2. saved.sticker \in Stickers
    BY <2>1 DEF Serving, Papers, TypeOK
  <2>3. Carry(r, "install", saved.sticker)
    BY <1>4, <2>1 DEF FinishLeave, Serving, Papers
  <2>4. Moved(r, t) /\ t.step = "install" /\ t.code = saved.sticker
    BY <1>1, <1>4, <2>1, <2>2, <2>3 DEF Carry, Moved
  <2> HIDE DEF t
  <2> QED
    BY <1>1, <2>1, <2>4, MovesServing DEF Serving, Claimed
<1> QED
  BY <1>2, <1>3, <1>4

LEMMA InstallPapers ==
    ASSUME TypeOK, PapersInv, NEW r \in Requests, InstallSticker(r)
    PROVE  PapersInv'
<1>1. /\ hub = "up" /\ job[r].step = "install" /\ Done(r)
      /\ sticker' = IF Claimed THEN None ELSE job[r].code
      /\ UNCHANGED <<devices, members, card, saved, printed, hub, drawn>>
  BY DEF InstallSticker, At
<1>2. Moved(r, Idle) /\ Serving
  BY <1>1, DoneMoves
<1>3. job[r].code = saved.sticker
  BY <1>1 DEF PapersInv, InHand
<1> QED
  BY <1>1, <1>2, <1>3, MovesServing DEF Serving, Papers, Claimed

LEMMA GenerateCodePapers ==
    ASSUME TypeOK, PapersInv, NEW r \in Requests, GenerateCode(r)
    PROVE  PapersInv'
<1>1. /\ hub = "up" /\ job[r].step = "mint" /\ Done(r)
      /\ UNCHANGED <<devices, sticker, card, saved, printed, hub, drawn>>
  BY DEF GenerateCode, At
<1>2. Moved(r, Idle) /\ Serving
  BY <1>1, DoneMoves
<1> QED
  BY <1>1, <1>2, MovesServing DEF Serving, Claimed

(* A reset, which is alone, moves to t. *)
LEMMA ResetMoves ==
    ASSUME TypeOK, NEW r \in Requests, Alone(r), hub' = "up",
           NEW t, job' = [job EXCEPT ![r] = t],
           \/ t.step \in {"clear", "remint", "saveCode", "announce"} /\ Regenerating(r)'
           \/ t.step = "forget" /\ Forgetting(r)'
           \/ t.step = "idle" /\ Serving'
    PROVE  PapersInv'
<1>1. job'[r] = t /\ \A q \in Requests \ {r} : job'[q] = Idle
  BY DEF Alone, TypeOK
<1>2. \A q \in Requests : InHand(job[q])'
  BY <1>1 DEF InHand
<1> QED
  BY <1>1, <1>2 DEF PapersInv, Alone, InReset

(* The steps of a reset. *)
LEMMA ResetPapers ==
    ASSUME TypeOK, PapersInv, NEW r \in Requests,
           ClearCodes(r) \/ Remint(r) \/ SaveCode(r) \/ Announce(r) \/ UnpairAll(r)
    PROVE  PapersInv'
<1>1. /\ hub = "up" /\ hub' = "up" /\ Alone(r)
      /\ job[r].step \in {"clear", "remint", "saveCode", "announce"} => Regenerating(r)
      /\ job[r].step = "unpairAll" => Forgetting(r)
  BY DEF ClearCodes, Remint, SaveCode, Announce, UnpairAll, At, PapersInv
<1>2. CASE ClearCodes(r)
  <2> DEFINE t == [job[r] EXCEPT !.step = "remint"]
  <2>1. t.step = "remint" /\ job' = [job EXCEPT ![r] = t]
    BY <1>2 DEF ClearCodes, Goto, TypeOK
  <2>2. job'[r].step = "remint"
    BY <2>1 DEF TypeOK
  <2>3. Regenerating(r)'
    BY <1>1, <1>2, <2>2 DEF ClearCodes, At, Regenerating
  <2> HIDE DEF t
  <2> QED
    BY <1>1, ResetMoves, <2>1, <2>3
<1>3. CASE Remint(r)
  <2>1. Regenerating(r) /\ job[r].step = "remint"
    BY <1>1, <1>3 DEF Remint, At
  <2>2. PICK c \in Fresh(Stickers) : sticker' = c /\ Carry(r, "saveCode", c)
    BY <2>1, <1>3 DEF Remint, Regenerating, Claimed
  <2> DEFINE t == [step |-> "saveCode", phone |-> None, code |-> c]
  <2>3. t.step = "saveCode" /\ t.code = c /\ job' = [job EXCEPT ![r] = t]
    BY <2>2 DEF Carry, Fresh
  <2>4. job'[r].step = "saveCode" /\ job'[r].code = c
    BY <2>3 DEF TypeOK
  <2>5. Regenerating(r)'
    BY <2>1, <2>2, <2>4, <1>3 DEF Remint, Regenerating
  <2> HIDE DEF t
  <2> QED
    BY <1>1, ResetMoves, <2>3, <2>5
<1>4. CASE SaveCode(r)
  <2> DEFINE t == [job[r] EXCEPT !.step = "announce"]
  <2>1. t.step = "announce" /\ job' = [job EXCEPT ![r] = t]
    BY <1>4 DEF SaveCode, Goto, TypeOK
  <2>2. job'[r].step = "announce" /\ job'[r].code = job[r].code /\ job[r].code \in Stickers
    BY <1>4 DEF SaveCode, At, Goto, TypeOK
  <2>3. Regenerating(r)'
    BY <1>1, <1>4, <2>2, CodesAssumption DEF SaveCode, At, Regenerating, TypeOK
  <2> HIDE DEF t
  <2> QED
    BY <1>1, ResetMoves, <2>1, <2>3
<1>5. CASE Announce(r)
  <2>1. /\ Regenerating(r) /\ job[r].step = "announce"
        /\ printed' = [printed EXCEPT !.sticker = job[r].code]
        /\ job' = [job EXCEPT ![r] = Idle]
        /\ UNCHANGED <<devices, sticker, members, card, saved, drawn>>
    BY <1>1, <1>5 DEF Announce, At, Done
  <2>2. saved' = printed'
    BY <2>1 DEF Regenerating, TypeOK
  <2>3. Serving'
    BY <2>1, <2>2 DEF Regenerating, Serving, Papers, Claimable
  <2> QED
    BY <1>1, ResetMoves, <2>1, <2>3
<1>6. CASE UnpairAll(r)
  <2> DEFINE t == [job[r] EXCEPT !.step = "forget"]
  <2>1. t.step = "forget" /\ job' = [job EXCEPT ![r] = t]
    BY <1>6 DEF UnpairAll, Goto, TypeOK
  <2>2. job'[r].step = "forget"
    BY <2>1 DEF TypeOK
  <2>3. Forgetting(r)'
    BY <1>1, <1>6, <2>2 DEF UnpairAll, At, Forgetting, Papers
  <2> HIDE DEF t
  <2> QED
    BY <1>1, ResetMoves, <2>1, <2>3
<1> QED
  BY <1>2, <1>3, <1>4, <1>5, <1>6

(* The requests that survive a stop are of no reset. *)
LEMMA StoppedRequests ==
    ASSUME TypeOK, PapersInv, NEW kept \in SUBSET Survivors, HubStops(kept), Claimed => Claimed',
           saved.sticker = saved'.sticker
    PROVE  /\ hub' = "down" /\ drawn' = NoPair /\ ~InReset'
           /\ \A q \in Requests : InHand(job[q])'
<1>1. \A q \in Requests : job'[q] = Idle \/ (job'[q] = job[q] /\ job[q].step \in {"arm", "finish"})
  BY DEF HubStops, Survivors
<1>2. ~InReset'
  BY <1>1 DEF InReset
<1>3. \A q \in Requests : InHand(job[q])'
  BY <1>1 DEF InHand, PapersInv
<1> QED
  BY <1>2, <1>3 DEF HubStops

LEMMA ForgetPapers ==
    ASSUME TypeOK, PapersInv, NEW r \in Requests, ForgetCodes(r)
    PROVE  PapersInv'
<1>1. PICK kept \in SUBSET Survivors : HubStops(kept)
  BY DEF ForgetCodes
<1>2. /\ Forgetting(r) /\ Alone(r) /\ job[r].step = "forget" /\ saved' = NoPair
      /\ UNCHANGED <<devices, sticker, members, card, printed>>
  BY DEF ForgetCodes, At, PapersInv
<1>3. hub' = "down" /\ drawn' = NoPair /\ \A q \in Requests : job'[q] = Idle
  <2>1. kept \subseteq Requests /\ r \notin kept
    BY <1>2 DEF Survivors
  <2> QED
    BY <1>1, <1>2, <2>1 DEF Alone, HubStops
<1>4. FirstStart'
  BY <1>2, <1>3 DEF FirstStart, Blank, NoneInFlight, Forgetting
<1>5. \A q \in Requests : InHand(job[q])'
  BY <1>3 DEF InHand
<1> QED
  BY <1>3, <1>4, <1>5 DEF PapersInv, InReset

LEMMA StopPapers ==
    ASSUME QuietHub, TypeOK, PapersInv, Stop
    PROVE  PapersInv'
<1>1. PICK kept \in SUBSET Survivors : HubStops(kept)
  BY DEF Stop
<1>2. /\ hub # "down" /\ ~Unshown
      /\ UNCHANGED <<devices, sticker, members, card, saved, printed>>
  BY DEF Stop, QuietHub
<1>3. Papers
  <2>1. CASE hub # "up"
    BY <2>1, <1>2, CodesAssumption DEF PapersInv, FirstStart, LaterStart, Unshown, TypeOK
  <2>2. CASE hub = "up" /\ ~InReset
    BY <2>2 DEF PapersInv, Serving
  <2>3. CASE hub = "up" /\ InReset
    <3>1. PICK r \in Requests : job[r].step \in Resetting
      BY <2>3 DEF InReset
    <3>2. job[r].step # "announce"
      BY <1>2 DEF Unshown
    <3> QED
      BY <2>3, <3>1, <3>2 DEF PapersInv, Regenerating, Forgetting, Papers
  <2> QED
    BY <2>1, <2>2, <2>3
<1>4. hub' = "down" /\ drawn' = NoPair /\ ~InReset' /\ \A q \in Requests : InHand(job[q])'
  BY <1>1, <1>2, StoppedRequests DEF Claimed
<1>5. LaterStart'
  BY <1>2, <1>3, <1>4 DEF LaterStart, Papers
<1> QED
  BY <1>4, <1>5 DEF PapersInv, InReset

(* A start of the hub, with the requests that outlived its last stop. *)
LEMMA StartKeepsRequests ==
    ASSUME PapersInv, hub # "up", UNCHANGED <<devices, job>>, saved'.sticker = saved.sticker
    PROVE  ~InReset' /\ \A q \in Requests : InHand(job[q])'
  BY DEF PapersInv, InReset, InHand, Claimed

LEMMA StartPapers ==
    ASSUME TypeOK, PapersInv, Start
    PROVE  PapersInv'
<1>0. hub # "up" /\ UNCHANGED <<devices, job>> /\ (FirstStart \/ LaterStart)
  BY DEF Start, StartSticker, SaveSticker, StartCard, SaveCard, Show, PapersInv
<1>1. ASSUME FirstStart PROVE ~InReset' /\ \A q \in Requests : InHand(job[q])'
  BY <1>0, <1>1 DEF FirstStart, Blank, NoneInFlight, InReset, InHand
<1>2. CASE StartSticker
  <2>1. CASE FirstStart
    <3>1. PICK c \in Fresh(Stickers) : /\ sticker' = c /\ drawn' = [drawn EXCEPT !.sticker = c]
                                       /\ hub' = "saveSticker"
      BY <1>2, <2>1 DEF StartSticker, FirstStart, Blank, Claimed
    <3>2. c # None
      BY CodesAssumption DEF Fresh
    <3>3. UNCHANGED <<devices, card, saved, printed, job>> /\ hub = "down"
      BY <1>2 DEF StartSticker
    <3>4. FirstStart'
      BY <2>1, <3>1, <3>2, <3>3 DEF FirstStart, Blank, NoneInFlight
    <3> QED
      BY <1>1, <2>1, <3>1, <3>4 DEF PapersInv, InReset
  <2>2. CASE LaterStart
    <3>1. /\ sticker' = IF Claimed THEN None ELSE saved.sticker
          /\ hub' = "card" /\ UNCHANGED <<devices, card, saved, printed, job, drawn>>
      BY <1>2, <2>2 DEF StartSticker, LaterStart, Papers
    <3>2. LaterStart'
      BY <2>2, <3>1 DEF LaterStart, Papers, Claimed
    <3> QED
      BY <1>0, <3>1, <3>2, StartKeepsRequests DEF PapersInv, InReset
  <2> QED
    BY <1>0, <2>1, <2>2
<1>3. CASE SaveSticker
  <2>1. FirstStart /\ hub = "saveSticker"
    BY <1>0, <1>3 DEF SaveSticker, LaterStart
  <2>2. FirstStart' /\ hub' = "card"
    BY <1>3, <2>1, CodesAssumption DEF SaveSticker, FirstStart, Blank, NoneInFlight, TypeOK
  <2> QED
    BY <1>1, <2>1, <2>2 DEF PapersInv, InReset
<1>4. CASE StartCard
  <2>1. CASE FirstStart
    <3>1. PICK c \in Fresh(Cards) : /\ card' = c /\ drawn' = [drawn EXCEPT !.card = c]
                                    /\ hub' = "saveCard"
      BY <1>4, <2>1 DEF StartCard, FirstStart
    <3>2. c # None
      BY CodesAssumption DEF Fresh
    <3>3. UNCHANGED <<devices, sticker, saved, printed, job>> /\ hub = "card"
      BY <1>4 DEF StartCard
    <3>4. FirstStart'
      BY <2>1, <3>1, <3>2, <3>3 DEF FirstStart, Blank, NoneInFlight, TypeOK
    <3> QED
      BY <1>1, <2>1, <3>1, <3>4 DEF PapersInv, InReset
  <2>2. CASE LaterStart
    <3>1. /\ card' = saved.card /\ hub = "card" /\ hub' = "show"
          /\ UNCHANGED <<devices, sticker, saved, printed, job, drawn>>
      BY <1>4, <2>2 DEF StartCard, LaterStart, Papers
    <3>2. LaterStart'
      BY <2>2, <3>1 DEF LaterStart, Papers, Claimed
    <3> QED
      BY <1>0, <3>1, <3>2, StartKeepsRequests DEF PapersInv, InReset
  <2> QED
    BY <1>0, <2>1, <2>2
<1>5. CASE SaveCard
  <2>1. FirstStart /\ hub = "saveCard"
    BY <1>0, <1>5 DEF SaveCard, LaterStart
  <2>2. FirstStart' /\ hub' = "show"
    BY <1>5, <2>1, CodesAssumption DEF SaveCard, FirstStart, Blank, NoneInFlight, TypeOK
  <2> QED
    BY <1>1, <2>1, <2>2 DEF PapersInv, InReset
<1>6. CASE Show
  <2>1. /\ hub = "show" /\ hub' = "up" /\ drawn' = NoPair
        /\ printed' = [sticker |-> Newest(drawn.sticker, printed.sticker),
                       card |-> Newest(drawn.card, printed.card)]
        /\ UNCHANGED <<devices, sticker, members, card, saved, job>>
    BY <1>6 DEF Show
  <2>2. ~InReset' /\ \A q \in Requests : InHand(job[q])'
    BY <1>0, <2>1, StartKeepsRequests
  <2>3. CASE FirstStart
    <3>1. printed' = saved /\ saved = [sticker |-> sticker, card |-> card]
      BY <2>1, <2>3 DEF FirstStart, Newest, TypeOK
    <3>2. Serving'
      BY <2>1, <2>3, <3>1 DEF FirstStart, Serving, Papers, Claimable
    <3> QED
      BY <2>1, <2>2, <3>2, StaysServing
  <2>4. CASE LaterStart
    <3>1. printed' = printed
      BY <2>1, <2>4 DEF LaterStart, Newest, TypeOK
    <3>2. Serving'
      BY <2>1, <2>4, <3>1 DEF LaterStart, Serving, Papers, Claimable, Claimed
    <3> QED
      BY <2>1, <2>2, <3>2, StaysServing
  <2> QED
    BY <1>0, <2>3, <2>4
<1> QED
  BY <1>2, <1>3, <1>4, <1>5, <1>6 DEF Start

(* A device or a member code goes: the owner stays. *)
LEMMA DropPapers ==
    ASSUME TypeOK, PapersInv, Remove \/ DropCode
    PROVE  PapersInv'
<1>1. hub = "up" /\ UNCHANGED <<sticker, card, saved, printed, hub, drawn, job>>
  BY DEF Remove, DropCode
<1>2. Claimed' = Claimed
  BY DEF Remove, DropCode, Claimed
<1>3. devices' \subseteq devices
  BY DEF Remove, DropCode
<1>4. Serving => Serving'
  BY <1>1, <1>2 DEF Serving, Papers, Claimable
<1>5. \A q \in Requests : InHand(job[q])'
  BY <1>1, <1>2 DEF InHand, PapersInv
<1>6. \A q \in Requests : (Regenerating(q) => Regenerating(q)') /\ (Forgetting(q) => Forgetting(q)')
  BY <1>1, <1>3 DEF Regenerating, Forgetting, Papers
<1> QED
  BY <1>1, <1>4, <1>5, <1>6 DEF PapersInv, Alone, InReset

LEMMA PapersStep == QuietHub /\ TypeOK /\ PapersInv /\ [Next]_vars => PapersInv'
<1> SUFFICES ASSUME QuietHub, TypeOK, PapersInv, [Next]_vars PROVE PapersInv'
  OBVIOUS
<1>1. ASSUME NEW r \in Requests, Request(r) PROVE PapersInv'
  BY <1>1, RequestPapers
<1>2. ASSUME NEW r \in Requests, Continue(r) PROVE PapersInv'
  BY <1>2, EnrollPapers, SwapPapers, ArmPapers, FinishLeavePapers, InstallPapers,
     GenerateCodePapers, ResetPapers, ForgetPapers DEF Continue
<1>3. CASE Remove \/ DropCode \/ Stop \/ Start
  BY <1>3, DropPapers, StopPapers, StartPapers
<1>4. CASE UNCHANGED vars
  BY <1>4 DEF vars, PapersInv, InHand, Alone, InReset, FirstStart, Blank, NoneInFlight,
     LaterStart, Papers, Claimed, Serving, Claimable, Regenerating, Forgetting
<1> QED
  BY <1>1, <1>2, <1>3, <1>4 DEF Next

(* The card that is saved is never replaced: only a reset forgets it. *)
LEMMA CardStays ==
    ASSUME TypeOK, PapersInv, [Next]_vars, saved.card # None
    PROVE  saved'.card \in {saved.card, None}
<1>1. ASSUME NEW r \in Requests, Request(r) PROVE saved'.card = saved.card
  BY <1>1 DEF Request, RedeemMember, RedeemSticker, RedeemCard, Leave, AskCode,
     Regenerate, FactoryReset
<1>2. ASSUME NEW r \in Requests, Continue(r) PROVE saved'.card \in {saved.card, None}
  <2>1. CASE ArmMints(r)
    <3>1. hub = "up" /\ job[r].step = "arm" /\ card = None
      BY <2>1 DEF ArmMints, At
    <3>2. Serving
      BY <3>1 DEF PapersInv, InReset, Alone
    <3> QED
      BY <3>1, <3>2 DEF Serving
  <2>2. CASE SaveCode(r)
    BY <2>2 DEF SaveCode, TypeOK
  <2>3. CASE ForgetCodes(r)
    BY <2>3 DEF ForgetCodes
  <2>4. CASE ~ArmMints(r) /\ ~SaveCode(r) /\ ~ForgetCodes(r)
    BY <1>2, <2>4 DEF Continue, Enroll, ArmDrops, ArmKeeps, Engrave, Swap, FinishLeave,
       InstallSticker, GenerateCode, ClearCodes, Remint, Announce, UnpairAll
  <2> QED
    BY <2>1, <2>2, <2>3, <2>4
<1>3. CASE Start
  <2>1. CASE SaveCard
    BY <2>1 DEF SaveCard, PapersInv, FirstStart, LaterStart
  <2>2. CASE SaveSticker
    BY <2>2 DEF SaveSticker, TypeOK
  <2>3. CASE StartSticker \/ StartCard \/ Show
    BY <2>3 DEF StartSticker, StartCard, Show
  <2> QED
    BY <1>3, <2>1, <2>2, <2>3 DEF Start
<1>4. CASE Remove \/ DropCode \/ Stop \/ UNCHANGED vars
  BY <1>4 DEF Remove, DropCode, Stop, vars
<1> QED
  BY <1>1, <1>2, <1>3, <1>4 DEF Next

LEMMA PapersHonoured == TypeOK /\ PapersInv => HonoursPapers
<1> SUFFICES ASSUME TypeOK, PapersInv, Settled PROVE HonoursPapers
  BY DEF HonoursPapers
<1>1. Serving /\ \A r \in Requests : job[r].step = "idle"
  BY DEF PapersInv, Settled, NoneInFlight, InReset
<1> QED
  BY <1>1 DEF HonoursPapers, Serving, Papers, Claimable

(* In a hub that does not stop while a code is drawn, whose owner does not leave *)
(* while the card is armed and whose resets run alone, the printed papers are    *)
(* always the ones the hub honours, and the card is permanent.                   *)
THEOREM PapersAlwaysGood == QuietHub => (Spec => PapersStayGood)
<1> SUFFICES ASSUME QuietHub PROVE Spec => PapersStayGood
  OBVIOUS
<1> DEFINE A == saved.card # None => saved'.card \in {saved.card, None}
<1>1. TypeOK /\ PapersInv /\ [Next]_vars => PapersInv'
  BY PapersStep
<1>2. TypeOK /\ PapersInv /\ [Next]_vars => [A]_vars
  BY CardStays
<1>3. TypeOK /\ PapersInv => HonoursPapers
  BY PapersHonoured
<1> HIDE DEF A
<1>4. []HonoursPapers /\ [][A]_vars => PapersStayGood
  BY PTL DEF A, PapersStayGood
<1> QED
  BY <1>1, <1>2, <1>3, <1>4, PapersInit, TypeCorrect, PTL DEF Spec
=============================================================================
