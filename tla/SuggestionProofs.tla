--------------------------- MODULE SuggestionProofs ---------------------------
(* Proofs about Suggestion, for clients that do not give up while their        *)
(* refused claim is released.                                                  *)
(*                                                                             *)
(* RunsOnce is not inductive: it needs that a claim has one owner, that the    *)
(* owner's receipt stands until it settles it, and that a window with no       *)
(* receipt left has sent nothing.  IInv says so.                               *)
EXTENDS Suggestion, TLAPS

LEMMA IdleTyped == Idle \in Job /\ Idle.step = "idle" /\ Idle.step \notin Owning
BY DEF Idle, Job, Steps, Owning, Checking, Settling

LEMMA StepsSorted ==
    /\ Checking \subseteq Owning /\ Settling \subseteq Owning /\ "running" \in Owning
    /\ Waiting \cap Owning = {} /\ "idle" \notin Owning \cup Waiting
    /\ Unsent \subseteq Owning /\ "running" \notin Unsent /\ "finish" \notin Unsent
    /\ "mark" \notin Unsent
BY DEF Owning, Checking, Settling, Waiting, Unsent

(* A request that only moves: it owns what it owned, or nothing. *)
LEMMA MoveKeeps ==
    ASSUME IInv, NEW r \in Requests, NEW w \in Job, Shaped(w),
           job' = [job EXCEPT ![r] = w],
           UNCHANGED <<World, Store, History>>,
           \/ job[r].step \notin Owning /\ w.step \notin Owning
           \/ /\ job[r].step \in Owning \ {"mark"} /\ w.step \in Owning
              /\ w.plan = job[r].plan
              /\ w.step \in Unsent => job[r].step \in Unsent
    PROVE  IInv'
<1>1. UNCHANGED <<offer, listed, age, receipts, muted, ran, stuck>>
  BY DEF World, Store, History
<1>2. job' \in [Requests -> Job] /\ job'[r] = w
      /\ \A q \in Requests \ {r} : job'[q] = job[q]
  BY DEF IInv, TypeOK
<1>3. TypeOK'
  BY <1>1, <1>2 DEF IInv, TypeOK
<1>4. JobShape'
  BY <1>1, <1>2 DEF IInv, JobShape, Shaped
<1>5. \A q \in Requests, p \in Plans : Owns(q, p)' <=> Owns(q, p)
  BY <1>2 DEF Owns
<1>6. OwnersHold'
  BY <1>1, <1>2, <1>5 DEF IInv, OwnersHold, Owns
<1>7. OwnedClaims'
  BY <1>1, <1>5 DEF IInv, OwnedClaims
<1>8. (OffersOpen /\ OneReceipt /\ RunsOnce /\ RunsLeaveReceipts /\ StuckExecuting)'
  BY <1>1 DEF IInv, OffersOpen, OneReceipt, RunsOnce, RunsLeaveReceipts, StuckExecuting
<1> QED  BY <1>3, <1>4, <1>6, <1>7, <1>8 DEF IInv

LEMMA JobTyped ==
    ASSUME IInv, NEW r \in Requests
    PROVE  job[r] \in Job /\ Shaped(job[r])
BY DEF IInv, TypeOK, JobShape

(* A step of a request and no more. *)
LEMMA StepTyped ==
    ASSUME IInv, NEW r \in Requests, NEW step \in Steps
    PROVE  /\ [job[r] EXCEPT !.step = step] \in Job
           /\ [job EXCEPT ![r].step = step]
                = [job EXCEPT ![r] = [job[r] EXCEPT !.step = step]]
           /\ [job[r] EXCEPT !.step = step].step = step
           /\ [job[r] EXCEPT !.step = step].plan = job[r].plan
           /\ [job[r] EXCEPT !.step = step].member = job[r].member
           /\ [job[r] EXCEPT !.step = step].gone = job[r].gone
BY JobTyped DEF Job, IInv, TypeOK

LEMMA IdleShaped == Shaped(Idle)
BY DEF Shaped, Idle, Owning, Checking, Settling

LEMMA DoneKeeps ==
    ASSUME IInv, NEW r \in Requests, job[r].step \notin Owning, Done(r),
           UNCHANGED <<World, Store, History>>
    PROVE  IInv'
BY MoveKeeps, IdleTyped, IdleShaped DEF Done

(* Moving on within the checks, before the claim or with it. *)
LEMMA GotoKeeps ==
    ASSUME IInv, NEW r \in Requests, NEW step \in Steps, Goto(r, step),
           UNCHANGED <<World, Store, History>>,
           Shaped([job[r] EXCEPT !.step = step]),
           \/ job[r].step \notin Owning /\ step \notin Owning
           \/ /\ job[r].step \in Owning \ {"mark"} /\ step \in Owning
              /\ step \in Unsent => job[r].step \in Unsent
    PROVE  IInv'
<1> DEFINE w == [job[r] EXCEPT !.step = step]
<1>1. w \in Job /\ w.step = step /\ w.plan = job[r].plan
      /\ job' = [job EXCEPT ![r] = w]
  BY StepTyped DEF Goto
<1>2. Shaped(w)
  OBVIOUS
<1> HIDE DEF w
<1> QED  BY <1>1, <1>2, MoveKeeps

(* What the window of an owner, or of a plan on offer, says of the next step. *)
LEMMA StillShaped ==
    ASSUME IInv, NEW r \in Requests, NEW step \in Steps \ {"idle"},
           job[r].step # "idle",
           step \in Checking \cup {"release"} => job[r].step \in Checking,
           \/ job[r].step \in Owning
           \/ job[r].plan \in offer
           \/ job[r].step \in {"judge"} /\ job[r].plan \notin Rules
           \/ step \in {"look", "mute"}
           \/ step = "judge" /\ job[r].plan \in Rules
    PROVE  Shaped([job[r] EXCEPT !.step = step])
<1> DEFINE w == [job[r] EXCEPT !.step = step]
<1>1. w.step = step /\ w.plan = job[r].plan /\ w.member = job[r].member /\ w.gone = job[r].gone
  BY StepTyped
<1>2. Shaped(job[r]) /\ OffersOpen
  BY JobTyped DEF IInv
<1>3. job[r].plan \in offer => age[SlotOf[job[r].plan]] # "old"
  BY <1>2 DEF OffersOpen
<1> HIDE DEF w
<1>4. "look" \notin Owning /\ "mute" \notin Owning /\ "judge" \notin Owning
  BY DEF Owning, Checking, Settling
<1>5. Shaped(w)
  BY <1>1, <1>2, <1>3, <1>4 DEF Shaped
<1> QED  BY <1>5 DEF w

LEMMA MovesKeep ==
    ASSUME IInv, ~QuitsAtRelease, NEW r \in Requests,
           \/ Ask(r) \/ Look(r) \/ Judge(r) \/ Refused(r) \/ Recheck(r) \/ Relook(r)
           \/ HoldBack(r) \/ SceneEnds(r) \/ Cancel(r)
    PROVE  IInv'
<1> USE StepsSorted
<1>1. CASE Ask(r)
  <2>1. PICK m \in Members, p \in Plans, act \in {"run", "mute"} :
          job' = [job EXCEPT ![r] = [step |-> "look", act |-> act, member |-> m,
                                     plan |-> p, gone |-> FALSE]]
    BY <1>1 DEF Ask
  <2> DEFINE w == [step |-> "look", act |-> act, member |-> m, plan |-> p, gone |-> FALSE]
  <2>2. w \in Job /\ Shaped(w) /\ w.step \notin Owning
    BY DEF Job, Shaped, Steps, Owning, Waiting, Checking, Settling
  <2>3. job[r].step \notin Owning
    BY <1>1, IdleTyped DEF Ask
  <2> HIDE DEF w
  <2>4. job' = [job EXCEPT ![r] = w]
    BY <2>1 DEF w
  <2> QED  BY <1>1, <2>2, <2>3, <2>4, MoveKeeps DEF Ask
<1>2. CASE Look(r)
  <2>1. CASE Done(r)
    BY <1>2, <2>1, DoneKeeps DEF Look, At, Waiting
  <2>2. CASE FirstLook(r, Shown(r)) /\ Goto(r, "judge")
    <3>1. job[r].plan \in Rules \/ job[r].plan \in offer
      BY <2>2 DEF FirstLook, Offered
    <3>2. Shaped([job[r] EXCEPT !.step = "judge"])
      BY <1>2, <3>1, StillShaped DEF Look, At, Steps, Waiting, Checking
    <3> QED  BY <1>2, <2>2, <3>2, GotoKeeps DEF Look, At, Steps, Waiting
  <2> QED  BY <1>2, <2>1, <2>2 DEF Look
<1>3. CASE Judge(r)
  <2>1. CASE Done(r)
    BY <1>3, <2>1, DoneKeeps DEF Judge, At, Waiting
  <2>2. CASE \E step \in {"claim", "mute"} : SecondLook(r, Shown(r)) /\ Goto(r, step)
    <3>1. PICK step \in {"claim", "mute"} : SecondLook(r, Shown(r)) /\ Goto(r, step)
      BY <2>2
    <3>2. job[r].plan \notin Rules \/ job[r].plan \in offer
      BY <3>1 DEF SecondLook, Offered
    <3>3. Shaped([job[r] EXCEPT !.step = step])
      BY <1>3, <3>2, StillShaped DEF Judge, At, Steps, Waiting, Checking
    <3> QED  BY <1>3, <3>1, <3>3, GotoKeeps DEF Judge, At, Steps, Waiting
  <2> QED  BY <1>3, <2>1, <2>2 DEF Judge
<1>4. CASE Refused(r)
  BY <1>4, DoneKeeps DEF Refused, Waiting
<1>5. CASE Recheck(r)
  <2>1. PICK step \in {"relook", "release"} : Goto(r, step)
    BY <1>5 DEF Recheck
  <2> QED  BY <1>5, <2>1, StillShaped, GotoKeeps DEF Recheck, At, Steps, Unsent, Checking, Settling
<1>6. CASE Relook(r)
  <2>1. PICK step \in {"ready", "undo"} : Goto(r, step)
    BY <1>6 DEF Relook
  <2> QED  BY <1>6, <2>1, StillShaped, GotoKeeps DEF Relook, At, Steps, Unsent, Checking, Settling
<1>7. CASE HoldBack(r)
  BY <1>7, StillShaped, GotoKeeps DEF HoldBack, At, Steps, Unsent, Checking, Settling
<1>8. CASE SceneEnds(r)
  <2>1. PICK step \in {"finish", "mark"} : Goto(r, step)
    BY <1>8 DEF SceneEnds
  <2> QED  BY <1>8, <2>1, StillShaped, GotoKeeps DEF SceneEnds, At, Steps, Settling, Checking
<1>9. CASE Cancel(r)
  <2>0. /\ UNCHANGED <<World, Store, History>>
        /\ job[r].step # "release" /\ job[r].step # "idle"
    BY <1>9 DEF Cancel, At
  <2>1. CASE job[r].step \in {"claim", "mute", "finish"} /\ job' = [job EXCEPT ![r].gone = TRUE]
    <3> DEFINE w == [job[r] EXCEPT !.gone = TRUE]
    <3>1. w \in Job /\ w.step = job[r].step /\ w.plan = job[r].plan /\ w.member = job[r].member
      BY JobTyped DEF Job
    <3>2. job' = [job EXCEPT ![r] = w]
      BY <2>1 DEF IInv, TypeOK
    <3> HIDE DEF w
    <3>3. Shaped(w)
      BY <2>0, <2>1, <3>1, JobTyped DEF Shaped, Checking
    <3> QED  BY <2>0, <2>1, <3>1, <3>2, <3>3, MoveKeeps DEF Waiting
  <2>2. CASE job[r].step \in Waiting /\ Done(r)
    BY <2>0, <2>2, DoneKeeps
  <2>3. CASE job[r].step \in Checking /\ Goto(r, "undo")
    BY <2>0, <2>3, StillShaped, GotoKeeps DEF Steps, Unsent, Settling, Checking
  <2>4. CASE job[r].step \in {"running", "finish"} /\ Goto(r, "mark")
    BY <2>0, <2>4, StillShaped, GotoKeeps DEF Steps, Settling, Checking
  <2> QED  BY <1>9, <2>0, <2>1, <2>2, <2>3, <2>4 DEF Cancel
<1> QED  BY <1>1, <1>2, <1>3, <1>4, <1>5, <1>6, <1>7, <1>8, <1>9

-----------------------------------------------------------------------------
(* Sending the scene. *)

LEMMA DispatchKeeps ==
    ASSUME IInv, NEW r \in Requests, Dispatch(r)
    PROVE  IInv'
<1> DEFINE w == [job[r] EXCEPT !.step = "running"]
           s == SlotOf[job[r].plan]
<1> USE StepsSorted
<1>0. job[r].step = "ready" /\ "ready" \in Checking /\ "ready" \in Unsent
  BY DEF Dispatch, At, Checking, Unsent
<1>1. /\ w \in Job /\ w.step = "running" /\ w.plan = job[r].plan
      /\ w.member = job[r].member /\ w.gone = job[r].gone
      /\ job' = [job EXCEPT ![r] = w]
  BY StepTyped DEF Dispatch, Goto, Steps
<1> HIDE DEF w
<1>2. Shaped(job[r]) /\ job[r].plan \in Plans
  BY <1>0, JobTyped DEF Shaped
<1>3. /\ job' \in [Requests -> Job] /\ job'[r] = w
      /\ \A q \in Requests \ {r} : job'[q] = job[q]
  BY <1>1 DEF IInv, TypeOK
<1>4. UNCHANGED <<offer, listed, age, receipts, muted, stuck>>
  BY DEF Dispatch, World, Store
<1>5. Owns(r, job[r].plan) /\ s \in Slots
  BY <1>0, <1>2, SlotAssumption DEF Owns
<1>6. /\ receipts[job[r].plan] = "executing" /\ ran[s] = 0
      /\ \A q \in Requests : Owns(q, job[r].plan) => q = r
  BY <1>0, <1>2, <1>5 DEF IInv, OwnersHold
<1>7. ran' \in [Slots -> Nat] /\ ran'[s] = 1 /\ \A x \in Slots \ {s} : ran'[x] = ran[x]
  BY <1>5, <1>6 DEF Dispatch, IInv, TypeOK
<1>8. TypeOK'
  BY <1>3, <1>4, <1>7 DEF IInv, TypeOK
<1>9. JobShape'
  <2>1. Shaped(w)
    BY <1>0, <1>1, <1>2 DEF Shaped, Checking
  <2> QED  BY <1>3, <1>4, <2>1 DEF IInv, JobShape, Shaped
<1>10. \A q \in Requests, p \in Plans : Owns(q, p)' <=> Owns(q, p)
  BY <1>0, <1>1, <1>3 DEF Owns
<1>11. OwnersHold'
  <2> SUFFICES ASSUME NEW q \in Requests, NEW p \in Plans, Owns(q, p)'
               PROVE  (/\ receipts[p] # None
                       /\ job[q].step # "mark" => receipts[p] = "executing"
                       /\ job[q].step \in Unsent => ran[SlotOf[p]] = 0
                       /\ p \notin stuck
                       /\ \A z \in Requests : Owns(z, p) => z = q)'
    BY DEF OwnersHold
  <2>1. Owns(q, p) /\ \A z \in Requests : Owns(z, p)' => Owns(z, p)
    BY <1>10
  <2>2. /\ receipts[p] # None /\ p \notin stuck
        /\ job[q].step # "mark" => receipts[p] = "executing"
        /\ job[q].step \in Unsent => ran[SlotOf[p]] = 0
        /\ \A z \in Requests : Owns(z, p) => z = q
    BY <2>1 DEF IInv, OwnersHold
  <2>3. CASE q = r
    BY <1>1, <1>3, <1>4, <2>1, <2>2, <2>3, <1>0, <1>6, <1>5 DEF Owns
  <2>4. CASE q # r
    <3>1. job'[q] = job[q] /\ p # job[r].plan
      BY <1>3, <1>5, <2>2, <2>4
    <3>2. SlotOf[p] # s
      BY <1>2, <1>6, <2>2, <3>1, NoneAssumption DEF IInv, OneReceipt
    <3> QED  BY <1>4, <1>7, <2>1, <2>2, <3>1, <3>2, SlotAssumption
  <2> QED  BY <2>3, <2>4
<1>12. OwnedClaims'
  BY <1>4, <1>10 DEF IInv, OwnedClaims
<1>13. (RunsOnce /\ RunsLeaveReceipts)'
  BY <1>2, <1>4, <1>6, <1>7, NoneAssumption DEF IInv, RunsOnce, RunsLeaveReceipts
<1>14. (OffersOpen /\ OneReceipt /\ StuckExecuting)'
  BY <1>4 DEF IInv, OffersOpen, OneReceipt, StuckExecuting
<1> QED  BY <1>8, <1>9, <1>11, <1>12, <1>13, <1>14 DEF IInv

-----------------------------------------------------------------------------
(* Settling a claim, and forgetting old windows. *)

(* r's step adds no receipt, and deletes one only of an old window or of one   *)
(* that has sent nothing; it leaves others what they own.                      *)
Lessened(r, p) ==
    /\ receipts'[p] # None => receipts[p] # None
    /\ receipts'[p] # receipts[p] /\ receipts'[p] = None
         => age[SlotOf[p]] = "old" \/ ran[SlotOf[p]] = 0
    /\ receipts'[p] = "executing" => receipts[p] = "executing"
    /\ p \in stuck' => receipts'[p] = "executing"
    /\ receipts'[p] = "executing" /\ p \notin stuck' => p \notin stuck /\ ~Owns(r, p)
Spared(q, p) == Owns(q, p) => receipts'[p] = receipts[p] /\ p \notin stuck'

LEMMA StoreKeeps ==
    ASSUME IInv, NEW r \in Requests, NEW w \in Job, Shaped(w),
           job' = [job EXCEPT ![r] = w],
           UNCHANGED <<World, ran>>,
           muted' \subseteq Members \X Slots, stuck' \subseteq Plans,
           receipts' \in [Plans -> {None} \cup Statuses],
           \A p \in Plans : Lessened(r, p),
           \A q \in Requests \ {r} : \A p \in Plans : Spared(q, p),
           \/ w.step \notin Owning
           \/ /\ w.step = "mark" /\ job[r].step \in Owning /\ w.plan = job[r].plan
              /\ receipts'[w.plan] # None /\ w.plan \notin stuck'
    PROVE  IInv'
<1>1. UNCHANGED <<offer, listed, age, ran>>
  BY DEF World
<1>2. job' \in [Requests -> Job] /\ job'[r] = w
      /\ \A q \in Requests \ {r} : job'[q] = job[q]
  BY DEF IInv, TypeOK
<1>3. TypeOK'
  BY <1>1, <1>2 DEF IInv, TypeOK
<1>4. JobShape'
  BY <1>1, <1>2 DEF IInv, JobShape, Shaped
<1>5. /\ \A q \in Requests, p \in Plans : Owns(q, p)' => Owns(q, p)
      /\ \A q \in Requests \ {r}, p \in Plans : Owns(q, p) => Owns(q, p)'
  BY <1>2 DEF Owns
<1>6. OwnersHold'
  BY <1>1, <1>2, <1>5, StepsSorted DEF IInv, OwnersHold, Owns, Lessened, Spared
<1>7. OwnedClaims'
  BY <1>1, <1>5 DEF IInv, OwnedClaims, Lessened
<1>8. RunsLeaveReceipts'
  BY <1>1 DEF IInv, RunsLeaveReceipts, TypeOK, Lessened
<1>9. (OffersOpen /\ OneReceipt /\ RunsOnce /\ StuckExecuting)'
  BY <1>1 DEF IInv, OffersOpen, OneReceipt, RunsOnce, StuckExecuting, Lessened
<1> QED  BY <1>3, <1>4, <1>6, <1>7, <1>8, <1>9 DEF IInv

LEMMA PrunedOld ==
    ASSUME IInv, NEW forgotten \in SUBSET OldSlots
    PROVE  /\ Pruned(forgotten) \in [Plans -> {None} \cup Statuses]
           /\ \A p \in Plans : SlotOf[p] \in forgotten =>
                Pruned(forgotten)[p] = None /\ age[SlotOf[p]] = "old"
           /\ \A p \in Plans : SlotOf[p] \notin forgotten => Pruned(forgotten)[p] = receipts[p]
BY DEF Pruned, OldSlots, IInv, TypeOK

(* No window with an owner is old. *)
LEMMA OwnersRecent ==
    ASSUME IInv, NEW r \in Requests, NEW p \in Plans, Owns(r, p)
    PROVE  age[SlotOf[p]] # "old"
BY JobTyped DEF Owns, Shaped

LEMMA SuppressKeeps ==
    ASSUME IInv, NEW r \in Requests, Suppress(r)
    PROVE  IInv'
<1>1. PICK forgotten \in SUBSET OldSlots :
        /\ receipts' = Pruned(forgotten)
        /\ muted' = {<<job[r].member, SlotOf[job[r].plan]>>}
                     \cup {x \in muted : x[2] \notin forgotten}
        /\ stuck' = {p \in stuck : SlotOf[p] \notin forgotten}
  BY DEF Suppress
<1>2. job[r].step \notin Owning /\ job[r].plan \in Plans /\ job[r].member \in Members
  BY JobTyped DEF Suppress, At, Shaped, Owning, Checking, Settling
<1>3. \A p \in Plans : ~Owns(r, p)
  BY <1>2 DEF Owns
<1>4. muted' \subseteq Members \X Slots /\ stuck' \subseteq Plans
  BY <1>1, <1>2, SlotAssumption DEF IInv, TypeOK
<1>5. UNCHANGED <<World, ran>> /\ job' = [job EXCEPT ![r] = Idle]
  BY DEF Suppress, Done
<1>6. "executing" # None
  BY NoneAssumption
<1>7. \A p \in Plans : Lessened(r, p)
  BY <1>1, <1>3, <1>6, PrunedOld DEF Lessened, IInv, StuckExecuting
<1>8. \A q \in Requests \ {r} : \A p \in Plans : Spared(q, p)
  BY <1>1, PrunedOld, OwnersRecent DEF IInv, OwnersHold, Spared
<1>9. receipts' \in [Plans -> {None} \cup Statuses]
  BY <1>1, PrunedOld
<1> QED  BY <1>4, <1>5, <1>7, <1>8, <1>9, StoreKeeps, IdleTyped, IdleShaped

(* What a request that settles its claim knows of it. *)
LEMMA SettlerOwns ==
    ASSUME IInv, NEW r \in Requests, job[r].step \in Settling
    PROVE  /\ job[r].plan \in Plans /\ Owns(r, job[r].plan)
           /\ receipts[job[r].plan] # None
           /\ job[r].step # "mark" => receipts[job[r].plan] = "executing"
           /\ job[r].step \in Unsent => ran[SlotOf[job[r].plan]] = 0
           /\ job[r].plan \notin stuck
           /\ \A q \in Requests \ {r} : ~Owns(q, job[r].plan)
<1>1. job[r].plan \in Plans
  BY JobTyped DEF Shaped, Settling
<1>2. Owns(r, job[r].plan)
  BY StepsSorted DEF Owns
<1> QED  BY <1>1, <1>2 DEF IInv, OwnersHold

LEMMA SettleKeeps ==
    ASSUME IInv, ~QuitsAtRelease, NEW r \in Requests,
           Finish(r) \/ Mark(r) \/ Release(r) \/ Undo(r)
    PROVE  IInv'
<1> DEFINE p == job[r].plan
           w == [job[r] EXCEPT !.step = "mark"]
<1> USE SettlerOwns, StepsSorted
<1>1. job[r].step \in Settling /\ p \in Plans /\ UNCHANGED <<World, ran, muted>>
  BY DEF Finish, Mark, Release, Undo, At, Settling, History, Store
<1>2. /\ w \in Job /\ w.step = "mark" /\ w.plan = p /\ Shaped(w)
      /\ (Goto(r, "mark") => job' = [job EXCEPT ![r] = w])
  BY <1>1, StepTyped, StillShaped DEF Goto, Settling, Steps, Checking
<1> HIDE DEF w
<1>3. "executing" # None /\ "executing" # "unknown"
  BY NoneAssumption
<1>4. CASE /\ Done(r) /\ UNCHANGED receipts
           /\ stuck' = stuck \cup {x \in {p} : receipts[x] = "executing"}
  <2>1. /\ stuck' \subseteq Plans /\ muted' \subseteq Members \X Slots
        /\ receipts' \in [Plans -> {None} \cup Statuses]
    BY <1>1, <1>4 DEF IInv, TypeOK
  <2>2. \A x \in Plans : Lessened(r, x)
    BY <1>1, <1>4 DEF Owns, Lessened, IInv, StuckExecuting
  <2>3. \A q \in Requests \ {r} : \A x \in Plans : Spared(q, x)
    BY <1>1, <1>4 DEF IInv, OwnersHold, Spared
  <2> QED  BY <1>1, <1>4, <2>1, <2>2, <2>3, StoreKeeps, IdleTyped, IdleShaped DEF Done
<1>5. ASSUME NEW status \in {None} \cup Statuses, Settle(r, status), status # "executing",
             status = None => job[r].step \in Unsent,
             stuck' = stuck,
             Done(r) \/ (Goto(r, "mark") /\ status # None)
      PROVE  IInv'
  <2>1. /\ receipts' \in [Plans -> {None} \cup Statuses] /\ receipts'[p] = status
        /\ \A x \in Plans \ {p} : receipts'[x] = receipts[x]
    BY <1>1, <1>5 DEF Settle, IInv, TypeOK
  <2>2. stuck' \subseteq Plans /\ muted' \subseteq Members \X Slots
    BY <1>1, <1>5 DEF IInv, TypeOK
  <2>3. \A x \in Plans : Lessened(r, x)
    BY <1>1, <1>5, <2>1 DEF Owns, Lessened, IInv, StuckExecuting
  <2>4. \A q \in Requests \ {r} : \A x \in Plans : Spared(q, x)
    BY <1>1, <1>5, <2>1 DEF IInv, OwnersHold, Spared
  <2>5. CASE Done(r)
    BY <1>1, <2>1, <2>2, <2>3, <2>4, <2>5, StoreKeeps, IdleTyped, IdleShaped DEF Done
  <2>6. CASE Goto(r, "mark") /\ status # None
    BY <1>1, <1>2, <1>5, <2>1, <2>2, <2>3, <2>4, <2>6, StoreKeeps
  <2> QED  BY <1>5, <2>5, <2>6
<1>6. CASE Finish(r)
  <2>1. receipts[p] = "executing"
    BY <1>6 DEF Finish, At, Settling
  <2>2. CASE UNCHANGED receipts /\ Goto(r, "mark")
    <3>1. w.step \in Owning /\ w.step \notin Unsent /\ job[r].step \in Owning \ {"mark"}
      BY <1>1, <1>2, <1>6 DEF Finish, At, Settling
    <3> QED  BY <1>1, <1>2, <1>6, <2>2, <3>1, MoveKeeps DEF Finish, Store, History
  <2>3. CASE \E status \in {"succeeded", "partial_failure"} :
               Settle(r, status) /\ (Goto(r, "mark") \/ Done(r))
    BY <1>3, <1>5, <1>6, <2>3, NoneAssumption DEF Finish, History, Statuses
  <2> QED  BY <1>6, <2>1, <2>2, <2>3, NoneAssumption DEF Finish, Executing
<1>7. CASE Mark(r)
  <2>1. CASE Settle(r, "unknown") /\ UNCHANGED stuck
    BY <1>3, <1>5, <1>7, <2>1, NoneAssumption DEF Mark, Statuses
  <2> QED  BY <1>4, <1>7, <2>1 DEF Mark
<1>8. CASE Release(r)
  <2>1. job[r].step \in Unsent /\ receipts[p] = "executing" /\ ~job[r].gone
    BY <1>1, <1>8, JobTyped DEF Release, At, Unsent, Shaped
  <2>2. CASE Settle(r, None) /\ Done(r)
    BY <1>3, <1>5, <1>8, <2>1, <2>2 DEF Release, History
  <2>3. CASE UNCHANGED receipts /\ Goto(r, "undo")
    BY <1>8, <2>1, <2>3, StillShaped, GotoKeeps
       DEF Release, At, History, Store, Steps, Unsent, Settling, Checking
  <2> QED  BY <1>8, <2>1, <2>2, <2>3 DEF Release, Executing
<1>9. CASE Undo(r)
  <2>1. job[r].step \in Unsent /\ receipts[p] = "executing" /\ p \notin stuck
    BY <1>1, <1>9 DEF Undo, At, Unsent
  <2>2. CASE Settle(r, None) /\ stuck' = stuck \ {p}
    <3>1. stuck' = stuck
      BY <2>1, <2>2
    <3> QED  BY <1>3, <1>5, <1>9, <2>1, <2>2, <3>1 DEF Undo
  <2> QED  BY <1>4, <1>9, <2>1, <2>2 DEF Undo, Executing
<1> QED  BY <1>6, <1>7, <1>8, <1>9

-----------------------------------------------------------------------------
(* The claim. *)

LEMMA ClaimKeeps ==
    ASSUME IInv, NEW r \in Requests, Claim(r)
    PROVE  IInv'
<1> DEFINE p == job[r].plan
           s == SlotOf[p]
           w == IF job[r].gone THEN Idle ELSE [job[r] EXCEPT !.step = "refresh"]
<1> USE StepsSorted
<1>1. PICK forgotten \in SUBSET OldSlots :
        LET kept == Pruned(forgotten)
            free == ~Taken(kept, p)
        IN  /\ receipts' = IF free THEN [kept EXCEPT ![p] = "executing"] ELSE receipts
            /\ muted' = IF free THEN {x \in muted : x[2] \notin forgotten} ELSE muted
            /\ stuck' = {x \in stuck : receipts'[x] # None}
                        \cup (IF free /\ job[r].gone THEN {p} ELSE {})
            /\ IF free /\ ~job[r].gone THEN Goto(r, "refresh") ELSE Done(r)
  BY DEF Claim
<1> DEFINE kept == Pruned(forgotten)
<1>2. /\ job[r].step = "claim" /\ "claim" \notin Owning /\ UNCHANGED <<offer, listed, age, ran>>
      /\ \A x \in Plans : ~Owns(r, x)
  BY DEF Claim, At, World, Owns, Owning, Checking, Settling
<1>3. p \in Plans /\ s \in Slots /\ age[s] # "old"
  BY <1>2, JobTyped, SlotAssumption DEF Shaped
<1>4. "executing" # None /\ "executing" \in Statuses
  BY NoneAssumption DEF Statuses
<1>5. /\ kept \in [Plans -> {None} \cup Statuses]
      /\ \A x \in Plans : kept[x] = receipts[x] \/ (kept[x] = None /\ age[SlotOf[x]] = "old")
  BY PrunedOld
<1> HIDE DEF kept
<1>6. CASE Taken(kept, p)
  <2>1. receipts' = receipts /\ muted' = muted /\ Done(r)
    BY <1>1, <1>6 DEF kept
  <2>2. stuck' = stuck
    <3>1. \A x \in stuck : receipts[x] = "executing"
      BY DEF IInv, StuckExecuting
    <3> QED  BY <1>1, <1>4, <1>6, <2>1, <3>1 DEF kept
  <2> QED  BY <1>2, <2>1, <2>2, DoneKeeps DEF World, Store, History
<1>7. CASE ~Taken(kept, p)
  <2>1. /\ receipts' = [kept EXCEPT ![p] = "executing"]
        /\ muted' \subseteq muted
        /\ stuck' = {x \in stuck : receipts'[x] # None} \cup (IF job[r].gone THEN {p} ELSE {})
        /\ IF job[r].gone THEN Done(r) ELSE Goto(r, "refresh")
    BY <1>1, <1>7 DEF kept
  <2>2. /\ receipts' \in [Plans -> {None} \cup Statuses] /\ receipts'[p] = "executing"
        /\ \A x \in Plans \ {p} : receipts'[x] = kept[x]
    BY <1>3, <1>4, <1>5, <2>1
  (* The window has no receipt, so nothing was sent and nobody owns a claim. *)
  <2>3. \A x \in Plans : SlotOf[x] = s => receipts[x] = None
    <3>1. \A x \in Plans : SlotOf[x] = s => kept[x] = None
      BY <1>7 DEF Taken, Mates
    <3> QED  BY <1>3, <1>5, <3>1
  <2>4. ran[s] = 0
    BY <1>3, <2>3 DEF IInv, RunsLeaveReceipts, TypeOK
  <2>5. \A q \in Requests, x \in Plans : Owns(q, x) => SlotOf[x] # s /\ receipts'[x] = receipts[x]
    BY <1>3, <1>5, <2>2, <2>3, OwnersRecent DEF IInv, OwnersHold
  <2>6. /\ w \in Job /\ Shaped(w) /\ job' = [job EXCEPT ![r] = w]
        /\ (job[r].gone => w.step \notin Owning)
        /\ (~job[r].gone => w.step = "refresh" /\ w.plan = p)
    <3>1. CASE job[r].gone
      BY <2>1, <3>1, IdleTyped, IdleShaped DEF Done
    <3>2. CASE ~job[r].gone
      <4> DEFINE v == [job[r] EXCEPT !.step = "refresh"]
      <4>1. /\ v \in Job /\ v.step = "refresh" /\ v.plan = p /\ v.member = job[r].member
            /\ v.gone = job[r].gone
            /\ job' = [job EXCEPT ![r] = v]
        BY <2>1, <3>2, StepTyped DEF Goto, Steps, Owning, Checking
      <4> HIDE DEF v
      <4>2. Shaped(v)
        BY <1>2, <1>3, <3>2, <4>1, JobTyped DEF Shaped
      <4> QED  BY <3>2, <4>1, <4>2 DEF v
    <3> QED  BY <3>1, <3>2
  <2> HIDE DEF w
  <2>7. /\ job' \in [Requests -> Job] /\ job'[r] = w
        /\ \A q \in Requests \ {r} : job'[q] = job[q]
    BY <2>6 DEF IInv, TypeOK
  <2>8. TypeOK'
    BY <1>2, <1>3, <2>1, <2>2, <2>7 DEF IInv, TypeOK
  <2>9. JobShape'
    BY <1>2, <2>6, <2>7 DEF IInv, JobShape, Shaped
  <2>10. \A q \in Requests, x \in Plans :
           Owns(q, x)' <=> Owns(q, x) \/ (q = r /\ x = p /\ ~job[r].gone)
    BY <1>2, <2>6, <2>7 DEF Owns, Owning, Checking
  <2>11. p \notin stuck
    BY <1>4, <2>3, <1>3 DEF IInv, StuckExecuting
  <2>12. OwnersHold'
    <3> SUFFICES ASSUME NEW q \in Requests, NEW x \in Plans, Owns(q, x)'
                 PROVE  (/\ receipts[x] # None
                         /\ job[q].step # "mark" => receipts[x] = "executing"
                         /\ job[q].step \in Unsent => ran[SlotOf[x]] = 0
                         /\ x \notin stuck
                         /\ \A z \in Requests : Owns(z, x) => z = q)'
      BY DEF OwnersHold
    <3>1. CASE Owns(q, x)
      BY <1>2, <1>3, <2>1, <2>5, <2>7, <2>10, <3>1 DEF IInv, OwnersHold
    <3>2. CASE q = r /\ x = p /\ ~job[r].gone
      BY <1>2, <1>3, <1>4, <2>1, <2>2, <2>4, <2>5, <2>7, <2>10, <2>11, <3>2
    <3> QED  BY <2>10, <3>1, <3>2
  <2>13. OneReceipt'
    BY <1>3, <1>5, <2>2, <2>3 DEF IInv, OneReceipt
  <2>14. OwnedClaims'
    <3> SUFFICES ASSUME NEW x \in Plans, receipts'[x] = "executing", x \notin stuck'
                 PROVE  \E q \in Requests : /\ Owns(q, x)'
                                           /\ \A z \in Requests : Owns(z, x)' => z = q
      BY DEF OwnedClaims
    <3>1. CASE x = p
      BY <1>3, <2>1, <2>5, <2>10, <3>1
    <3>2. CASE x # p
      <4>1. receipts[x] = "executing" /\ x \notin stuck
        BY <1>4, <1>5, <2>1, <2>2, <3>2
      <4> QED  BY <2>10, <3>2, <4>1 DEF IInv, OwnedClaims
    <3> QED  BY <3>1, <3>2
  <2>15. RunsLeaveReceipts'
    BY <1>2, <1>3, <1>4, <1>5, <2>2 DEF IInv, RunsLeaveReceipts
  <2>16. StuckExecuting'
    BY <1>3, <1>5, <2>1, <2>2 DEF IInv, StuckExecuting, TypeOK
  <2> QED  BY <1>2, <2>8, <2>9, <2>12, <2>13, <2>14, <2>15, <2>16 DEF IInv, OffersOpen, RunsOnce
<1> QED  BY <1>6, <1>7

-----------------------------------------------------------------------------
(* The home and the hub. *)

LEMMA RestartKeeps ==
    ASSUME IInv, Restart
    PROVE  IInv'
<1>1. /\ UNCHANGED <<offer, listed, age, muted, ran>> /\ stuck' = {}
      /\ \A r \in Requests : job'[r] = Idle
  BY DEF Restart, World
<1>2. /\ receipts' \in [Plans -> {None} \cup Statuses]
      /\ \A p \in Plans : receipts'[p] # "executing" /\ (receipts'[p] = None <=> receipts[p] = None)
  BY NoneAssumption DEF Restart, IInv, TypeOK, Statuses
<1>3. TypeOK'
  BY <1>1, <1>2, IdleTyped DEF Restart, IInv, TypeOK
<1>4. JobShape'
  BY <1>1, IdleShaped DEF JobShape, Shaped
<1>5. (OwnersHold /\ OwnedClaims /\ StuckExecuting)'
  BY <1>1, <1>2, IdleTyped DEF OwnersHold, Owns, OwnedClaims, StuckExecuting
<1>6. (OffersOpen /\ OneReceipt /\ RunsOnce /\ RunsLeaveReceipts)'
  BY <1>1, <1>2 DEF IInv, OffersOpen, OneReceipt, RunsOnce, RunsLeaveReceipts
<1> QED  BY <1>3, <1>4, <1>5, <1>6 DEF IInv

(* Time goes by and the offers change; claims are left alone. *)
LEMMA TimeKeeps ==
    ASSUME IInv, UNCHANGED <<receipts, job, ran, stuck>>,
           listed' \subseteq Plans, muted' \subseteq Members \X Slots,
           offer' \subseteq Plans, age' \in [Slots -> {"open", "over", "old"}],
           OffersOpen',
           \A s \in Slots : age'[s] = "old" => age[s] = "old" \/ ~Asked(s),
           \A s \in Slots : age'[s] # "old" => age[s] # "old"
    PROVE  IInv'
<1>1. TypeOK'
  BY DEF IInv, TypeOK
<1>2. JobShape'
  <2> SUFFICES ASSUME NEW r \in Requests PROVE Shaped(job[r])'
    BY DEF JobShape
  <2>1. Shaped(job[r]) /\ (job[r].plan \in Plans => SlotOf[job[r].plan] \in Slots)
    BY JobTyped, SlotAssumption
  <2>2. job[r].plan \in Plans => ~(SlotOf[job[r].plan] \in Slots /\ ~Asked(SlotOf[job[r].plan]))
    BY NoneAssumption DEF Asked
  <2>3. "idle" \notin Owning
    BY StepsSorted
  <2> QED  BY <2>1, <2>2, <2>3 DEF Shaped
<1>3. (OwnersHold /\ OwnedClaims /\ StuckExecuting /\ OneReceipt /\ RunsOnce)'
  BY DEF IInv, OwnersHold, Owns, OwnedClaims, StuckExecuting, OneReceipt, RunsOnce
<1>4. RunsLeaveReceipts'
  BY DEF IInv, RunsLeaveReceipts
<1> QED  BY <1>1, <1>2, <1>3, <1>4 DEF IInv

LEMMA WorldKeeps ==
    ASSUME IInv, NEW s \in Slots,
           \/ OfferChanges \/ RulesReplaced \/ SnoozeEnds \/ WindowEnds(s) \/ GrowsOld(s)
    PROVE  IInv'
<1>1. CASE OfferChanges
  BY <1>1, TimeKeeps DEF OfferChanges, OpenPlans, OffersOpen, IInv, TypeOK, Store, History
<1>2. CASE RulesReplaced
  BY <1>2, TimeKeeps, SlotAssumption DEF RulesReplaced, OffersOpen, IInv, TypeOK, Store, History
<1>3. CASE SnoozeEnds
  BY <1>3, TimeKeeps DEF SnoozeEnds, OffersOpen, IInv, TypeOK, World, History
<1>4. CASE WindowEnds(s)
  <2>1. OffersOpen' /\ offer' \subseteq Plans /\ age' \in [Slots -> {"open", "over", "old"}]
    BY <1>4, SlotAssumption DEF WindowEnds, OffersOpen, IInv, TypeOK
  <2> QED  BY <1>4, <2>1, TimeKeeps DEF WindowEnds, IInv, TypeOK, Store, History
<1>5. CASE GrowsOld(s)
  <2>1. OffersOpen' /\ age' \in [Slots -> {"open", "over", "old"}]
    BY <1>5, SlotAssumption DEF GrowsOld, OffersOpen, IInv, TypeOK
  <2> QED  BY <1>5, <2>1, TimeKeeps DEF GrowsOld, IInv, TypeOK, Store, History
<1> QED  BY <1>1, <1>2, <1>3, <1>4, <1>5

LEMMA NewWindowKeeps ==
    ASSUME IInv, NEW s \in Slots, NewWindow(s)
    PROVE  IInv'
<1>1. /\ UNCHANGED <<offer, listed, receipts, muted, job, stuck>>
      /\ age' \in [Slots -> {"open", "over", "old"}]
      /\ \A x \in Slots : age'[x] = "old" => age[x] = "old"
      /\ \A x \in Slots : age[x] = "open" => age'[x] = "open"
      /\ ran' \in [Slots -> Nat]
      /\ \A x \in Slots : ran'[x] = IF x = s THEN 0 ELSE ran[x]
      /\ \A x \in Slots \ {s} : age'[x] = age[x]
  BY DEF NewWindow, Store, IInv, TypeOK
<1>2. TypeOK'
  BY <1>1 DEF IInv, TypeOK
<1>3. JobShape'
  BY <1>1, SlotAssumption DEF IInv, JobShape, Shaped, Idle, Owning, Checking, Settling
<1>4. OffersOpen'
  BY <1>1, SlotAssumption DEF IInv, OffersOpen, TypeOK
<1>5. OwnersHold'
  BY <1>1, SlotAssumption DEF IInv, OwnersHold, Owns
<1>6. (OwnedClaims /\ StuckExecuting /\ OneReceipt)'
  BY <1>1 DEF IInv, OwnedClaims, Owns, StuckExecuting, OneReceipt
<1>7. (RunsOnce /\ RunsLeaveReceipts)'
  BY <1>1 DEF IInv, RunsOnce, RunsLeaveReceipts
<1> QED  BY <1>2, <1>3, <1>4, <1>5, <1>6, <1>7 DEF IInv

-----------------------------------------------------------------------------
LEMMA InitHolds == Init => IInv
<1> SUFFICES ASSUME Init PROVE IInv
  OBVIOUS
<1>1. TypeOK
  BY IdleTyped DEF Init, TypeOK
<1>2. JobShape
  BY IdleShaped DEF Init, JobShape
<1>3. OwnersHold /\ OwnedClaims /\ StuckExecuting
  BY IdleTyped, NoneAssumption DEF Init, OwnersHold, Owns, OwnedClaims, StuckExecuting
<1>4. OffersOpen /\ OneReceipt /\ RunsOnce /\ RunsLeaveReceipts
  BY DEF Init, OffersOpen, OneReceipt, RunsOnce, RunsLeaveReceipts
<1> QED  BY <1>1, <1>2, <1>3, <1>4 DEF IInv

LEMMA StepHolds ==
    ASSUME IInv, ~QuitsAtRelease, [Next]_vars
    PROVE  IInv'
<1>1. ASSUME NEW r \in Requests,
             \/ Ask(r) \/ Look(r) \/ Judge(r) \/ Suppress(r) \/ Claim(r) \/ Refused(r)
             \/ Recheck(r) \/ Relook(r) \/ Dispatch(r) \/ HoldBack(r) \/ SceneEnds(r)
             \/ Finish(r) \/ Mark(r) \/ Release(r) \/ Undo(r) \/ Cancel(r)
      PROVE  IInv'
  BY <1>1, MovesKeep, SuppressKeeps, ClaimKeeps, DispatchKeeps, SettleKeeps
<1>2. ASSUME NEW s \in Slots, WindowEnds(s) \/ GrowsOld(s) \/ NewWindow(s)
      PROVE  IInv'
  BY <1>2, WorldKeeps, NewWindowKeeps
<1>3. CASE OfferChanges \/ RulesReplaced \/ SnoozeEnds
  <2>1. CASE OfferChanges
    <3>1. PICK p \in Plans : SlotOf[p] \in Slots
      BY <2>1, SlotAssumption DEF OfferChanges, OpenPlans
    <3> QED  BY <2>1, <3>1, WorldKeeps
  <2>2. CASE RulesReplaced
    <3>1. PICK p \in Plans : SlotOf[p] \in Slots
      BY <2>2, SlotAssumption DEF RulesReplaced
    <3> QED  BY <2>2, <3>1, WorldKeeps
  <2>3. CASE SnoozeEnds
    <3>1. \E s \in Slots : TRUE
      BY <2>3 DEF SnoozeEnds, IInv, TypeOK
    <3> QED  BY <2>3, <3>1, WorldKeeps
  <2> QED  BY <1>3, <2>1, <2>2, <2>3
<1>4. CASE UNCHANGED vars
  <2>1. UNCHANGED <<offer, listed, age, receipts, muted, job, ran, stuck>>
    BY <1>4 DEF vars
  <2> QED
    BY <2>1 DEF IInv, TypeOK, JobShape, Shaped, OffersOpen, OneReceipt, StuckExecuting,
                OwnersHold, Owns, RunsOnce, RunsLeaveReceipts, OwnedClaims
<1> QED  BY <1>1, <1>2, <1>3, <1>4, RestartKeeps DEF Next

(* The invariant the results below rest on. *)
THEOREM Invariant == ~QuitsAtRelease => (Spec => []IInv)
<1> SUFFICES ASSUME ~QuitsAtRelease PROVE Spec => []IInv
  OBVIOUS
<1>1. Init => IInv
  BY InitHolds
<1>2. IInv /\ [Next]_vars => IInv'
  BY StepHolds
<1> QED  BY <1>1, <1>2, PTL DEF Spec

(* The variables keep their types. *)
THEOREM TypeCorrect == ~QuitsAtRelease => (Spec => []TypeOK)
<1>1. IInv => TypeOK
  BY DEF IInv
<1> QED  BY <1>1, Invariant, PTL

(* For any number of clients, members, windows and versions of a plan, with    *)
(* restarts and failing writes: a window's offer is sent at most once.         *)
THEOREM SentAtMostOnce == ~QuitsAtRelease => (Spec => []RunsOnce)
<1>1. IInv => RunsOnce
  BY DEF IInv
<1> QED  BY <1>1, Invariant, PTL

(* A run that was sent stays on record while its window is recent. *)
THEOREM SentIsRecorded == ~QuitsAtRelease => (Spec => []RunsLeaveReceipts)
<1>1. IInv => RunsLeaveReceipts
  BY DEF IInv
<1> QED  BY <1>1, Invariant, PTL

(* A claim that says it is executing has one owner, or none that could settle it. *)
THEOREM ClaimsAreOwned == ~QuitsAtRelease => (Spec => []OwnedClaims)
<1>1. IInv => OwnedClaims
  BY DEF IInv
<1> QED  BY <1>1, Invariant, PTL

-----------------------------------------------------------------------------
(* The promise of WindowRuns.  What a step does to one window follows from    *)
(* the window's age and from the one receipt it may have.                     *)

LEMMA StageKept ==
    ASSUME NEW s \in Slots,
           age'[s] = "old" <=> age[s] = "old",
           age[s] # "old" => \A p \in Plans : SlotOf[p] = s => receipts'[p] = receipts[p]
    PROVE  WindowStage'[s] = WindowStage[s]
BY DEF WindowStage

LEMMA StageOfReceipt ==
    ASSUME IInv, NEW p \in Plans, receipts[p] # None, age[SlotOf[p]] # "old"
    PROVE  WindowStage[SlotOf[p]] = IF receipts[p] = "executing" THEN "held" ELSE "closed"
<1>1. SlotOf[p] \in Slots
  BY SlotAssumption
<1>2. \A q \in Plans : SlotOf[q] = SlotOf[p] => q = p \/ receipts[q] = None
  BY DEF IInv, OneReceipt
<1> QED  BY <1>1, <1>2, NoneAssumption DEF WindowStage

LEMMA StageFree ==
    ASSUME NEW s \in Slots, age[s] # "old",
           \A p \in Plans : SlotOf[p] = s => receipts[p] = None
    PROVE  WindowStage[s] = "free"
BY NoneAssumption DEF WindowStage

(* A step that leaves the counts and the ages alone, and one receipt at most. *)
LEMMA OneWindowMoves ==
    ASSUME NEW p \in Plans, UNCHANGED <<age, ran>>,
           \A q \in Plans \ {p} : age[SlotOf[q]] # "old" => receipts'[q] = receipts[q],
           NEW s \in Slots,
           Window!Legal(WindowStage[SlotOf[p]], WindowStage'[SlotOf[p]],
                        ran[SlotOf[p]], ran'[SlotOf[p]])
    PROVE  Window!Legal(WindowStage[s], WindowStage'[s], ran[s], ran'[s])
<1>1. CASE s = SlotOf[p]
  BY <1>1
<1>2. CASE s # SlotOf[p]
  <2>1. WindowStage'[s] = WindowStage[s] /\ ran'[s] = ran[s]
    BY <1>2, StageKept
  <2> QED  BY <2>1 DEF Window!Legal
<1> QED  BY <1>1, <1>2

LEMMA NothingMoves ==
    ASSUME UNCHANGED <<age, receipts, ran>>, NEW s \in Slots
    PROVE  Window!Legal(WindowStage[s], WindowStage'[s], ran[s], ran'[s])
<1>1. WindowStage'[s] = WindowStage[s]
  BY StageKept
<1> QED  BY <1>1 DEF Window!Legal

LEMMA SuppressLegal ==
    ASSUME NEW r \in Requests, Suppress(r), NEW s \in Slots
    PROVE  Window!Legal(WindowStage[s], WindowStage'[s], ran[s], ran'[s])
<1>1. PICK forgotten \in SUBSET OldSlots : receipts' = Pruned(forgotten)
  BY DEF Suppress
<1>2. age' = age /\ ran' = ran
  BY DEF Suppress, World
<1>3. age[s] # "old" => \A p \in Plans : SlotOf[p] = s => receipts'[p] = receipts[p]
  BY <1>1 DEF Pruned, OldSlots
<1>4. WindowStage'[s] = WindowStage[s]
  BY <1>2, <1>3, StageKept
<1> QED  BY <1>2, <1>4 DEF Window!Legal

LEMMA ClaimLegal ==
    ASSUME IInv, IInv', NEW r \in Requests, Claim(r), NEW s \in Slots
    PROVE  Window!Legal(WindowStage[s], WindowStage'[s], ran[s], ran'[s])
<1> DEFINE p == job[r].plan
<1>1. p \in Plans /\ SlotOf[p] \in Slots /\ age[SlotOf[p]] # "old"
  BY JobTyped, SlotAssumption DEF Claim, At, Shaped
<1>2. age' = age /\ ran' = ran
  BY DEF Claim, World
<1>3. PICK forgotten \in SUBSET OldSlots :
        LET free == ~Taken(Pruned(forgotten), p)
        IN  receipts' = IF free THEN [Pruned(forgotten) EXCEPT ![p] = "executing"] ELSE receipts
  BY DEF Claim
<1> HIDE DEF p
<1>4. CASE receipts' = receipts
  BY <1>2, <1>4, NothingMoves
<1>5. CASE /\ ~Taken(Pruned(forgotten), p)
           /\ receipts' = [Pruned(forgotten) EXCEPT ![p] = "executing"]
  <2>1. receipts'[p] = "executing"
    BY <1>1, <1>5 DEF Pruned
  <2>2. \A q \in Plans \ {p} : age[SlotOf[q]] # "old" => receipts'[q] = receipts[q]
    BY <1>1, <1>5 DEF Pruned, OldSlots
  <2>3. \A q \in Plans : SlotOf[q] = SlotOf[p] => receipts[q] = None
    BY <1>1, <1>5 DEF Taken, Mates, Pruned, OldSlots
  <2>4. WindowStage[SlotOf[p]] = "free"
    BY <1>1, <2>3, StageFree
  <2>5. WindowStage'[SlotOf[p]] = "held"
    BY <1>1, <1>2, <2>1 DEF WindowStage
  <2>6. Window!Legal(WindowStage[SlotOf[p]], WindowStage'[SlotOf[p]],
                     ran[SlotOf[p]], ran'[SlotOf[p]])
    BY <1>2, <2>4, <2>5 DEF Window!Legal, Window!Held
  <2> QED  BY <1>1, <1>2, <2>2, <2>6, OneWindowMoves
<1> QED  BY <1>3, <1>4, <1>5

LEMMA OwnerStands ==
    ASSUME IInv, NEW r \in Requests, job[r].step \in Owning
    PROVE  /\ job[r].plan \in Plans /\ SlotOf[job[r].plan] \in Slots
           /\ age[SlotOf[job[r].plan]] # "old"
           /\ receipts[job[r].plan] # None
           /\ job[r].step # "mark" => receipts[job[r].plan] = "executing"
           /\ job[r].step \in Unsent => ran[SlotOf[job[r].plan]] = 0
<1>1. job[r].plan \in Plans /\ age[SlotOf[job[r].plan]] # "old"
  BY JobTyped, StepsSorted DEF Shaped
<1>2. Owns(r, job[r].plan)
  BY DEF Owns
<1> QED  BY <1>1, <1>2, SlotAssumption DEF IInv, OwnersHold

LEMMA DispatchLegal ==
    ASSUME IInv, NEW r \in Requests, Dispatch(r), NEW s \in Slots
    PROVE  Window!Legal(WindowStage[s], WindowStage'[s], ran[s], ran'[s])
<1> DEFINE p == job[r].plan
<1>1. job[r].step = "ready" /\ "ready" \in Owning /\ "ready" \in Unsent /\ "ready" # "mark"
  BY DEF Dispatch, At, Owning, Unsent, Checking
<1>2. /\ p \in Plans /\ SlotOf[p] \in Slots /\ age[SlotOf[p]] # "old"
      /\ receipts[p] = "executing" /\ ran[SlotOf[p]] = 0
  BY <1>1, OwnerStands
<1>3. /\ age' = age /\ receipts' = receipts
      /\ ran' = [ran EXCEPT ![SlotOf[p]] = @ + 1]
  BY DEF Dispatch, World, Store
<1>4. WindowStage'[s] = WindowStage[s] /\ WindowStage[SlotOf[p]] = "held"
  BY <1>2, <1>3, StageKept DEF WindowStage
<1>5. ran'[SlotOf[p]] = 1 /\ (s # SlotOf[p] => ran'[s] = ran[s])
  BY <1>2, <1>3 DEF IInv, TypeOK
<1> HIDE DEF p
<1>6. CASE s = SlotOf[p]
  BY <1>2, <1>4, <1>5, <1>6 DEF Window!Legal, Window!Sent
<1>7. CASE s # SlotOf[p]
  BY <1>4, <1>5, <1>7 DEF Window!Legal
<1> QED  BY <1>6, <1>7

(* Settling a claim closes its window; only one that sent nothing frees it. *)
LEMMA SettleLegal ==
    ASSUME IInv, IInv', NEW r \in Requests,
           Finish(r) \/ Mark(r) \/ Release(r) \/ Undo(r), NEW s \in Slots
    PROVE  Window!Legal(WindowStage[s], WindowStage'[s], ran[s], ran'[s])
<1> DEFINE p == job[r].plan
<1>1. job[r].step \in Owning
  BY DEF Finish, Mark, Release, Undo, At, Owning, Settling
<1>2. /\ p \in Plans /\ SlotOf[p] \in Slots /\ age[SlotOf[p]] # "old"
      /\ receipts[p] # None
      /\ job[r].step # "mark" => receipts[p] = "executing"
      /\ job[r].step \in Unsent => ran[SlotOf[p]] = 0
  BY <1>1, OwnerStands
<1>3. age' = age /\ ran' = ran
  BY DEF Finish, Mark, Release, Undo, World, History
<1>4. \/ receipts' = receipts
      \/ \E v \in Statuses \ {"executing"} : receipts' = [receipts EXCEPT ![p] = v]
      \/ /\ receipts' = [receipts EXCEPT ![p] = None]
         /\ receipts[p] = "executing" /\ job[r].step \in Unsent
  <2>1. CASE Finish(r)
    BY <2>1 DEF Finish, Settle, Statuses
  <2>2. CASE Mark(r)
    BY <2>2 DEF Mark, Settle, Statuses
  <2>3. CASE Release(r)
    BY <2>3 DEF Release, Settle, Executing, At, Unsent
  <2>4. CASE Undo(r)
    BY <2>4 DEF Undo, Settle, Executing, At, Unsent
  <2> QED  BY <2>1, <2>2, <2>3, <2>4
<1>5. WindowStage[SlotOf[p]] = IF receipts[p] = "executing" THEN "held" ELSE "closed"
  BY <1>2, StageOfReceipt
<1>6. receipts \in [Plans -> {None} \cup Statuses]
  BY DEF IInv, TypeOK
<1> HIDE DEF p
<1>7. CASE receipts' = receipts
  BY <1>3, <1>7, NothingMoves
<1>8. ASSUME NEW v \in Statuses \ {"executing"}, receipts' = [receipts EXCEPT ![p] = v]
      PROVE  Window!Legal(WindowStage[s], WindowStage'[s], ran[s], ran'[s])
  <2>1. receipts'[p] = v /\ \A q \in Plans \ {p} : receipts'[q] = receipts[q]
    BY <1>2, <1>6, <1>8
  <2>2. \A q \in Plans : SlotOf[q] = SlotOf[p] => q = p \/ receipts[q] = None
    BY <1>2 DEF IInv, OneReceipt
  <2>3. v # None
    BY NoneAssumption DEF Statuses
  <2>4. WindowStage'[SlotOf[p]] = "closed"
    BY <1>2, <1>3, <2>1, <2>2, <2>3, NoneAssumption DEF WindowStage
  <2>5. Window!Legal(WindowStage[SlotOf[p]], WindowStage'[SlotOf[p]],
                     ran[SlotOf[p]], ran'[SlotOf[p]])
    BY <1>3, <1>5, <2>4 DEF Window!Legal, Window!Closed
  <2> QED  BY <1>2, <1>3, <2>1, <2>5, OneWindowMoves
<1>9. CASE /\ receipts' = [receipts EXCEPT ![p] = None]
           /\ receipts[p] = "executing" /\ job[r].step \in Unsent
  <2>1. receipts'[p] = None /\ \A q \in Plans \ {p} : receipts'[q] = receipts[q]
    BY <1>2, <1>6, <1>9
  <2>2. \A q \in Plans : SlotOf[q] = SlotOf[p] => receipts'[q] = None
    BY <1>2, <2>1 DEF IInv, OneReceipt
  <2>3. WindowStage'[SlotOf[p]] = "free"
    BY <1>2, <1>3, <2>2, NoneAssumption DEF WindowStage
  <2>4. Window!Legal(WindowStage[SlotOf[p]], WindowStage'[SlotOf[p]],
                     ran[SlotOf[p]], ran'[SlotOf[p]])
    BY <1>2, <1>3, <1>5, <1>9, <2>3 DEF Window!Legal, Window!LetGo
  <2> QED  BY <1>2, <1>3, <2>1, <2>4, OneWindowMoves
<1> QED  BY <1>4, <1>7, <1>8, <1>9

LEMMA RestartLegal ==
    ASSUME IInv, Restart, NEW s \in Slots
    PROVE  Window!Legal(WindowStage[s], WindowStage'[s], ran[s], ran'[s])
<1>1. /\ age' = age /\ ran' = ran
      /\ \A p \in Plans :
           receipts'[p] = IF receipts[p] = "executing" THEN "unknown" ELSE receipts[p]
  BY DEF Restart, World
<1>2. CASE age[s] # "old" /\ \E p \in Plans : SlotOf[p] = s /\ receipts[p] = "executing"
  <2>1. WindowStage[s] = "held"
    BY <1>2 DEF WindowStage
  <2>2. PICK p \in Plans : SlotOf[p] = s /\ receipts'[p] = "unknown"
    BY <1>1, <1>2
  <2>3. \A q \in Plans : receipts'[q] # "executing"
    BY <1>1
  <2>4. WindowStage'[s] = "closed"
    BY <1>1, <1>2, <2>2, <2>3, NoneAssumption DEF WindowStage
  <2> QED  BY <1>1, <2>1, <2>4 DEF Window!Legal, Window!Closed
<1>3. CASE ~(age[s] # "old" /\ \E p \in Plans : SlotOf[p] = s /\ receipts[p] = "executing")
  <2>1. WindowStage'[s] = WindowStage[s]
    BY <1>1, <1>3, StageKept
  <2> QED  BY <1>1, <2>1 DEF Window!Legal
<1> QED  BY <1>2, <1>3

LEMMA TimeLegal ==
    ASSUME IInv, NEW x \in Slots, WindowEnds(x) \/ GrowsOld(x) \/ NewWindow(x), NEW s \in Slots
    PROVE  Window!Legal(WindowStage[s], WindowStage'[s], ran[s], ran'[s])
<1>1. age \in [Slots -> {"open", "over", "old"}] /\ ran \in [Slots -> Nat]
  BY DEF IInv, TypeOK
<1>2. CASE WindowEnds(x)
  <2>1. receipts' = receipts /\ ran' = ran /\ (age'[s] = "old" <=> age[s] = "old")
    BY <1>1, <1>2 DEF WindowEnds, Store, History
  <2>2. WindowStage'[s] = WindowStage[s]
    BY <2>1, StageKept
  <2> QED  BY <2>1, <2>2 DEF Window!Legal
<1>3. CASE GrowsOld(x)
  <2>1. receipts' = receipts /\ ran' = ran /\ (age'[s] = "old" <=> age[s] = "old" \/ s = x)
    BY <1>1, <1>3 DEF GrowsOld, Store, History
  <2>2. CASE s = x
    <3>1. WindowStage'[s] = "past"
      BY <2>1, <2>2 DEF WindowStage
    <3> QED  BY <2>1, <3>1 DEF Window!Legal, Window!Expired
  <2>3. CASE s # x
    <3>1. WindowStage'[s] = WindowStage[s]
      BY <2>1, <2>3, StageKept
    <3> QED  BY <2>1, <3>1 DEF Window!Legal
  <2> QED  BY <2>2, <2>3
<1>4. CASE NewWindow(x)
  <2>1. /\ receipts' = receipts
        /\ s = x => age[s] = "old" /\ age'[s] = "open" /\ ran'[s] = 0
        /\ s # x => age'[s] = age[s] /\ ran'[s] = ran[s]
    BY <1>1, <1>4 DEF NewWindow, Store
  <2>2. CASE s = x
    <3>1. \A p \in Plans : SlotOf[p] = s => receipts'[p] = None
      BY <1>4, <2>1, <2>2 DEF NewWindow
    <3>2. WindowStage[s] = "past" /\ WindowStage'[s] = "free"
      BY <2>1, <2>2, <3>1, NoneAssumption DEF WindowStage
    <3> QED  BY <2>1, <2>2, <3>2 DEF Window!Legal, Window!Reopened
  <2>3. CASE s # x
    <3>1. WindowStage'[s] = WindowStage[s]
      BY <2>1, <2>3, StageKept
    <3> QED  BY <2>1, <2>3, <3>1 DEF Window!Legal
  <2> QED  BY <2>2, <2>3
<1> QED  BY <1>2, <1>3, <1>4

LEMMA WindowStep ==
    ASSUME IInv, IInv', Next
    PROVE  Window!Next
<1>1. ASSUME NEW s \in Slots
      PROVE  Window!Legal(WindowStage[s], WindowStage'[s], ran[s], ran'[s])
  <2>1. ASSUME NEW r \in Requests,
               \/ Ask(r) \/ Look(r) \/ Judge(r) \/ Refused(r) \/ Recheck(r) \/ Relook(r)
               \/ HoldBack(r) \/ SceneEnds(r) \/ Cancel(r)
        PROVE  Window!Legal(WindowStage[s], WindowStage'[s], ran[s], ran'[s])
    <3>1. UNCHANGED <<age, receipts, ran>>
      BY <2>1 DEF Ask, Look, Judge, Refused, Recheck, Relook, HoldBack, SceneEnds, Cancel,
                  World, Store, History
    <3> QED  BY <3>1, NothingMoves
  <2>2. ASSUME NEW r \in Requests,
               \/ Suppress(r) \/ Claim(r) \/ Dispatch(r)
               \/ Finish(r) \/ Mark(r) \/ Release(r) \/ Undo(r)
        PROVE  Window!Legal(WindowStage[s], WindowStage'[s], ran[s], ran'[s])
    BY <2>2, SuppressLegal, ClaimLegal, DispatchLegal, SettleLegal
  <2>3. ASSUME NEW x \in Slots, WindowEnds(x) \/ GrowsOld(x) \/ NewWindow(x)
        PROVE  Window!Legal(WindowStage[s], WindowStage'[s], ran[s], ran'[s])
    BY <2>3, TimeLegal
  <2>4. CASE OfferChanges \/ RulesReplaced \/ SnoozeEnds
    <3>1. UNCHANGED <<age, receipts, ran>>
      BY <2>4 DEF OfferChanges, RulesReplaced, SnoozeEnds, World, Store, History
    <3> QED  BY <3>1, NothingMoves
  <2> QED  BY <2>1, <2>2, <2>3, <2>4, RestartLegal DEF Next
<1>2. WindowStage' \in [Slots -> Window!Stages]
  BY DEF WindowStage, Window!Stages
<1>3. ran' \in [Slots -> {0, 1}]
  BY DEF IInv, TypeOK, RunsOnce
<1> QED  BY <1>1, <1>2, <1>3 DEF Window!Next

LEMMA WindowInit == Init => Window!Init
BY NoneAssumption DEF Init, Window!Init, WindowStage

(* Whatever requests, restarts and failures do to a receipt, the windows go    *)
(* through the stages WindowRuns allows: a sent run is never taken back.       *)
THEOREM WindowsAlwaysKept == ~QuitsAtRelease => (Spec => WindowsKept)
<1> SUFFICES ASSUME ~QuitsAtRelease PROVE Spec => WindowsKept
  OBVIOUS
<1>1. IInv /\ IInv' /\ [Next]_vars =>
        [<<age, receipts, ran>>' # <<age, receipts, ran>> => Window!Next]_vars
  BY WindowStep
<1> QED  BY <1>1, WindowInit, Invariant, PTL DEF Spec, WindowsKept

(* So the suggestions implement WindowRuns. *)
THEOREM SuggestionsKeepPromise == ~QuitsAtRelease => (Spec => Window!Spec)
<1> SUFFICES ASSUME ~QuitsAtRelease PROVE Spec => Window!Spec
  OBVIOUS
<1>1. UNCHANGED vars => UNCHANGED Window!vars
  BY DEF vars, Window!vars, WindowStage
<1>2. IInv /\ IInv' /\ [Next]_vars => [Window!Next]_(Window!vars)
  BY <1>1, WindowStep
<1> QED  BY <1>2, WindowInit, Invariant, PTL DEF Spec, Window!Spec
=============================================================================
