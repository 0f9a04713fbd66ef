------------------------------ MODULE Suggestion ------------------------------
(* Suggestions on the Now page: the claims, receipts and dismissals of         *)
(* suggestion_store.py and the run and dismiss requests of suggestion_api.py   *)
(* over what suggestion_runtime.py offers.                                     *)
(*                                                                             *)
(* A request is a chain of executor jobs, each one storage transaction, and    *)
(* what the event loop does between them; other requests run in between, and a *)
(* client that gives up cancels the request where it waits.  A job that an     *)
(* executor thread has begun runs all the same.                                *)
(*                                                                             *)
(* A plan is an occurrence: what is offered, with its scene and its window.    *)
(* Plans of one room, kind and window share a slot; a rule's plan has its own. *)
EXTENDS Naturals

CONSTANTS
    None,
    Requests,          \* slots for requests in flight
    Members,
    Slots,
    Plans,
    SlotOf,            \* plan -> its slot
    Rules,             \* plans made by rules; the others are generated
    WritesFail,        \* a storage write may raise
    QuitsAtRelease     \* a client may give up while its refused claim is released

ASSUME SlotAssumption ==
    /\ SlotOf \in [Plans -> Slots]
    /\ Rules \subseteq Plans
    /\ \A p \in Rules, q \in Plans : SlotOf[p] = SlotOf[q] => p = q
ASSUME NoneAssumption ==
    None \notin Members \cup Plans \cup {"executing", "succeeded", "partial_failure", "unknown"}
ASSUME SwitchAssumption == {WritesFail, QuitsAtRelease} \subseteq BOOLEAN

VARIABLES
    offer,     \* plans whose conditions hold now, and which may be run
    listed,    \* plans as the stored rules and scenes now make them
    age,       \* slot -> its window is "open", "over", or "old": over for a day
    receipts,  \* executions: plan -> status, None without a receipt
    muted,     \* suppressions in force: <<member, slot>>
    job,       \* requests in flight
    ran,       \* history: how often a plan of the slot was sent to the devices
    stuck      \* history: claims whose request is over and did not settle them

vars == <<offer, listed, age, receipts, muted, job, ran, stuck>>

Statuses == {"executing", "succeeded", "partial_failure", "unknown"}

(* Where a request waits: for its two looks at the offer and the store, its     *)
(* dismissal or its claim; with a claim, for the refresh and the two looks that *)
(* repeat the checks; for the devices; for a job that settles the claim.        *)
Waiting == {"look", "judge", "mute", "claim"}
Checking == {"refresh", "relook", "ready"}
Settling == {"finish", "release", "undo", "mark"}
Owning == Checking \cup {"running"} \cup Settling
Steps == {"idle"} \cup Waiting \cup Owning

Job == [step : Steps, act : {"run", "mute"}, member : Members \cup {None},
        plan : Plans \cup {None}, gone : BOOLEAN]
Idle == [step |-> "idle", act |-> "run", member |-> None, plan |-> None, gone |-> FALSE]

At(r, step) == job[r].step = step
Goto(r, step) == job' = [job EXCEPT ![r].step = step]
Done(r) == job' = [job EXCEPT ![r] = Idle]

Mates(p) == {q \in Plans : SlotOf[q] = SlotOf[p]}
Taken(f, p) == \E q \in Mates(p) : f[q] # None
Muted(r) == <<job[r].member, SlotOf[job[r].plan]>> \in muted

(* _prune, by a clock read when the request looked: it may miss the latest. *)
OldSlots == {s \in Slots : age[s] = "old"}
Pruned(forgotten) == [p \in Plans |-> IF SlotOf[p] \in forgotten THEN None ELSE receipts[p]]

World == <<offer, listed, age>>
Store == <<receipts, muted>>
History == <<ran, stuck>>

-----------------------------------------------------------------------------
(* The checks before a claim.  A rule is judged by states read after the store; *)
(* a generated plan is made first, and the store read last.                     *)

Ask(r) == \E m \in Members, p \in Plans, act \in {"run", "mute"} :
    /\ job[r] = Idle
    /\ job' = [job EXCEPT ![r] = [step |-> "look", act |-> act, member |-> m,
                                  plan |-> p, gone |-> FALSE]]
    /\ UNCHANGED <<World, Store, History>>

Offered(r) == job[r].plan \in offer

(* A rule's plan that failed in part stays on show, to be dismissed. *)
Shown(r) == LET p == job[r].plan IN
    /\ ~Muted(r)
    /\ \/ ~Taken(receipts, p)
       \/ job[r].act = "mute" /\ p \in Rules /\ receipts[p] = "partial_failure"

FirstLook(r, stored) ==
    IF job[r].plan \in Rules THEN job[r].plan \in listed /\ stored ELSE Offered(r)
SecondLook(r, stored) == IF job[r].plan \in Rules THEN Offered(r) ELSE stored

Look(r) ==
    /\ At(r, "look")
    /\ IF FirstLook(r, Shown(r)) THEN Goto(r, "judge") ELSE Done(r)
    /\ UNCHANGED <<World, Store, History>>

Judge(r) ==
    /\ At(r, "judge")
    /\ IF SecondLook(r, Shown(r))
       THEN Goto(r, IF job[r].act = "run" THEN "claim" ELSE "mute")
       ELSE Done(r)
    /\ UNCHANGED <<World, Store, History>>

Suppress(r) ==
    /\ At(r, "mute")
    /\ \E forgotten \in SUBSET OldSlots :
         /\ receipts' = Pruned(forgotten)
         /\ muted' = {<<job[r].member, SlotOf[job[r].plan]>>}
                     \cup {x \in muted : x[2] \notin forgotten}
         /\ stuck' = {p \in stuck : SlotOf[p] \notin forgotten}
    /\ Done(r)
    /\ UNCHANGED <<World, ran>>

-----------------------------------------------------------------------------
(* The claim. *)

(* Fault: only a receipt of the very same plan stands in the way. *)
ClaimOwnPlan(r) ==
    /\ At(r, "claim")
    /\ IF receipts[job[r].plan] # None
       THEN Done(r) /\ UNCHANGED receipts
       ELSE /\ receipts' = [receipts EXCEPT ![job[r].plan] = "executing"]
            /\ IF job[r].gone THEN Done(r) ELSE Goto(r, "refresh")
    /\ UNCHANGED <<World, muted, History>>

Claim(r) ==
    /\ At(r, "claim")
    /\ \E forgotten \in SUBSET OldSlots :
         LET kept == Pruned(forgotten)
             free == ~Taken(kept, job[r].plan)
         IN  /\ receipts' = IF free THEN [kept EXCEPT ![job[r].plan] = "executing"]
                            ELSE receipts
             /\ muted' = IF free THEN {x \in muted : x[2] \notin forgotten} ELSE muted
             /\ stuck' = {p \in stuck : receipts'[p] # None}
                         \cup (IF free /\ job[r].gone THEN {job[r].plan} ELSE {})
             /\ IF free /\ ~job[r].gone THEN Goto(r, "refresh") ELSE Done(r)
    /\ UNCHANGED <<World, ran>>

(* The store is full, or storage failed. *)
Refused(r) ==
    /\ job[r].step \in {"claim", "mute"}
    /\ Done(r)
    /\ UNCHANGED <<World, Store, History>>

(* The offers are refreshed and the token is checked again. *)
Recheck(r) ==
    /\ At(r, "refresh")
    /\ \E ok \in BOOLEAN : Goto(r, IF ok THEN "relook" ELSE "release")
    /\ UNCHANGED <<World, Store, History>>

Relook(r) ==
    /\ At(r, "relook")
    /\ Goto(r, IF FirstLook(r, ~Muted(r)) THEN "ready" ELSE "undo")
    /\ UNCHANGED <<World, Store, History>>

Dispatch(r) ==
    /\ At(r, "ready")
    /\ SecondLook(r, ~Muted(r))
    /\ Goto(r, "running")
    /\ ran' = [ran EXCEPT ![SlotOf[job[r].plan]] = @ + 1]
    /\ UNCHANGED <<World, Store, stuck>>

HoldBack(r) ==
    /\ At(r, "ready")
    /\ ~SecondLook(r, ~Muted(r))
    /\ Goto(r, "undo")
    /\ UNCHANGED <<World, Store, History>>

(* The scene's last command is through, or it raised. *)
SceneEnds(r) ==
    /\ At(r, "running")
    /\ \E step \in {"finish", "mark"} : Goto(r, step)
    /\ UNCHANGED <<World, Store, History>>

-----------------------------------------------------------------------------
(* Settling the claim. *)

Executing(r) == receipts[job[r].plan] = "executing"
Settle(r, status) == receipts' = [receipts EXCEPT ![job[r].plan] = status]

(* A client that is gone, or a write that fails, lands in the except branch. *)
Finish(r) ==
    /\ At(r, "finish")
    /\ \/ /\ receipts[job[r].plan] # None
          /\ IF Executing(r) THEN \E status \in {"succeeded", "partial_failure"} :
                                     Settle(r, status)
             ELSE UNCHANGED receipts
          /\ IF job[r].gone THEN Goto(r, "mark") ELSE Done(r)
       \/ /\ WritesFail \/ receipts[job[r].plan] = None
          /\ Goto(r, "mark")
          /\ UNCHANGED receipts
    /\ UNCHANGED <<World, muted, History>>

(* Fault: a run that raised is aborted like one that never started. *)
MarkReleases(r) ==
    /\ At(r, "mark")
    /\ Settle(r, None)
    /\ Done(r)
    /\ UNCHANGED <<World, muted, History>>

Mark(r) ==
    /\ At(r, "mark")
    /\ \/ /\ receipts[job[r].plan] # None
          /\ Settle(r, "unknown")
          /\ UNCHANGED stuck
       \/ /\ WritesFail \/ receipts[job[r].plan] = None
          /\ stuck' = stuck \cup {p \in {job[r].plan} : receipts[p] = "executing"}
          /\ UNCHANGED receipts
    /\ Done(r)
    /\ UNCHANGED <<World, muted, ran>>

(* The refused token's own release, inside the try: abandoned or failed, the *)
(* except branch aborts the claim again.                                     *)
Release(r) ==
    /\ At(r, "release")
    /\ \/ /\ IF Executing(r) THEN Settle(r, None) ELSE UNCHANGED receipts
          /\ IF job[r].gone THEN Goto(r, "undo") ELSE Done(r)
       \/ /\ WritesFail
          /\ Goto(r, "undo")
          /\ UNCHANGED receipts
    /\ UNCHANGED <<World, muted, History>>

Undo(r) ==
    /\ At(r, "undo")
    /\ \/ /\ IF Executing(r) THEN Settle(r, None) ELSE UNCHANGED receipts
          /\ stuck' = stuck \ {job[r].plan}
       \/ /\ WritesFail
          /\ stuck' = stuck \cup {p \in {job[r].plan} : receipts[p] = "executing"}
          /\ UNCHANGED receipts
    /\ Done(r)
    /\ UNCHANGED <<World, muted, ran>>

(* The request is cancelled where it waits.  A job not yet begun is dropped; *)
(* one that has begun runs, and the request is "gone" when it returns.  The  *)
(* last jobs of the except branch are shielded.                              *)
Cancel(r) ==
    /\ job[r].step \notin {"idle", "undo", "mark"} /\ ~job[r].gone
    /\ At(r, "release") => QuitsAtRelease
    /\ \/ /\ job[r].step \in {"claim", "mute", "finish", "release"}
          /\ job' = [job EXCEPT ![r].gone = TRUE]
       \/ /\ job[r].step \in Waiting
          /\ Done(r)
       \/ /\ job[r].step \in Checking \cup {"release"}
          /\ Goto(r, "undo")
       \/ /\ job[r].step \in {"running", "finish"}
          /\ Goto(r, "mark")
    /\ UNCHANGED <<World, Store, History>>

-----------------------------------------------------------------------------
(* The home and the hub around the requests. *)

(* recover: nobody knows whether a run was sent, so it is never run again. *)
Restart ==
    /\ job' = [r \in Requests |-> Idle]
    /\ receipts' = [p \in Plans |-> IF receipts[p] = "executing" THEN "unknown" ELSE receipts[p]]
    /\ stuck' = {}
    /\ UNCHANGED <<World, muted, ran>>

OpenPlans == {p \in Plans : age[SlotOf[p]] = "open"}
Asked(s) == \E r \in Requests : job[r].plan # None /\ SlotOf[job[r].plan] = s

(* Devices, conditions, Energy Saving and scopes change what may be run. *)
OfferChanges ==
    /\ \E p \in OpenPlans : offer' = (offer \ {p}) \cup ({p} \ offer)
    /\ UNCHANGED <<listed, age, Store, job, History>>

RulesReplaced ==
    /\ \E p \in Rules : listed' = (listed \ {p}) \cup ({p} \ listed)
    /\ UNCHANGED <<offer, age, Store, job, History>>

WindowEnds(s) ==
    /\ age[s] = "open"
    /\ age' = [age EXCEPT ![s] = "over"]
    /\ offer' = {p \in offer : SlotOf[p] # s}
    /\ UNCHANGED <<listed, Store, job, History>>

(* A day goes by; no request lasts that long. *)
GrowsOld(s) ==
    /\ age[s] = "over" /\ ~Asked(s)
    /\ age' = [age EXCEPT ![s] = "old"]
    /\ UNCHANGED <<offer, listed, Store, job, History>>

(* A slot that has left no trace stands for the next window's. *)
NewWindow(s) ==
    /\ age[s] = "old" /\ ~Asked(s)
    /\ \A p \in Plans : SlotOf[p] = s => receipts[p] = None
    /\ \A m \in Members : <<m, s>> \notin muted
    /\ age' = [age EXCEPT ![s] = "open"]
    /\ ran' = [ran EXCEPT ![s] = 0]
    /\ UNCHANGED <<offer, listed, Store, job, stuck>>

SnoozeEnds ==
    /\ \E x \in muted : muted' = muted \ {x}
    /\ UNCHANGED <<World, receipts, job, History>>

Init ==
    /\ offer = {} /\ listed = Plans
    /\ age = [s \in Slots |-> "open"]
    /\ receipts = [p \in Plans |-> None] /\ muted = {}
    /\ job = [r \in Requests |-> Idle]
    /\ ran = [s \in Slots |-> 0] /\ stuck = {}

Next ==
    \/ \E r \in Requests :
         \/ Ask(r) \/ Look(r) \/ Judge(r) \/ Suppress(r) \/ Claim(r) \/ Refused(r)
         \/ Recheck(r) \/ Relook(r) \/ Dispatch(r) \/ HoldBack(r) \/ SceneEnds(r)
         \/ Finish(r) \/ Mark(r) \/ Release(r) \/ Undo(r) \/ Cancel(r)
    \/ \E s \in Slots : WindowEnds(s) \/ GrowsOld(s) \/ NewWindow(s)
    \/ OfferChanges \/ RulesReplaced \/ SnoozeEnds \/ Restart

Spec == Init /\ [][Next]_vars

-----------------------------------------------------------------------------
TypeOK ==
    /\ offer \subseteq Plans /\ listed \subseteq Plans /\ stuck \subseteq Plans
    /\ age \in [Slots -> {"open", "over", "old"}]
    /\ receipts \in [Plans -> {None} \cup Statuses]
    /\ muted \subseteq Members \X Slots
    /\ job \in [Requests -> Job]
    /\ ran \in [Slots -> Nat]

(* What a window offers for a room and kind is sent to the devices at most    *)
(* once, whoever asks, however often and in whatever version of the plan, and *)
(* whatever fails or restarts on the way (the claim of suggestion_store.py).  *)
RunsOnce == \A s \in Slots : ran[s] <= 1

(* A run that was sent is on record until the window is a day past: no abort, *)
(* failure, restart or pruning makes it look as if it had not happened.       *)
RunsLeaveReceipts == \A s \in Slots :
    ran[s] > 0 /\ age[s] # "old" => \E p \in Plans : SlotOf[p] = s /\ receipts[p] # None

(* A receipt says "executing" only while the one request that claimed it is   *)
(* still on it, or when that request could not settle it: it was cancelled    *)
(* while claiming, or the write that settles the claim failed.                *)
Owns(r, p) == job[r].plan = p /\ job[r].step \in Owning
OwnedClaims == \A p \in Plans : receipts[p] = "executing" /\ p \notin stuck =>
    \E r \in Requests : /\ Owns(r, p)
                        /\ \A q \in Requests : Owns(q, p) => q = r

-----------------------------------------------------------------------------
(* Why it works. *)

Unsent == Checking \cup {"release", "undo"}

(* A request past its checks asks about a window that was open a moment ago;  *)
(* only a client that QuitsAtRelease leaves a release that goes on alone.     *)
Shaped(w) ==
    /\ w.step = "idle" => w = Idle
    /\ w.step # "idle" => w.plan \in Plans /\ w.member \in Members
    /\ w.step \in Checking \cup {"release"} => ~w.gone
    /\ \/ w.step \in Owning \cup {"claim"}
       \/ w.step = "judge" /\ w.plan \notin Rules
       => age[SlotOf[w.plan]] # "old"
JobShape == \A r \in Requests : Shaped(job[r])

OffersOpen == \A p \in offer : age[SlotOf[p]] = "open"

OneReceipt == \A p, q \in Plans :
    SlotOf[p] = SlotOf[q] /\ receipts[p] # None /\ receipts[q] # None => p = q

StuckExecuting == \A p \in stuck : receipts[p] = "executing"

(* A claim has one owner, whose receipt says "executing" until it settles it, *)
(* and nothing was sent for its window before it dispatches.                  *)
OwnersHold == \A r \in Requests, p \in Plans : Owns(r, p) =>
    /\ receipts[p] # None
    /\ job[r].step # "mark" => receipts[p] = "executing"
    /\ job[r].step \in Unsent => ran[SlotOf[p]] = 0
    /\ p \notin stuck
    /\ \A q \in Requests : Owns(q, p) => q = r

IInv ==
    /\ TypeOK
    /\ JobShape
    /\ OffersOpen
    /\ OneReceipt
    /\ StuckExecuting
    /\ OwnersHold
    /\ RunsOnce
    /\ RunsLeaveReceipts
    /\ OwnedClaims

-----------------------------------------------------------------------------
(* Receipts and requests implement the promise of WindowRuns: what is held is *)
(* what a receipt calls executing, and any other receipt closes the window.   *)
WindowStage == [s \in Slots |->
    IF age[s] = "old" THEN "past"
    ELSE IF \E p \in Plans : SlotOf[p] = s /\ receipts[p] = "executing" THEN "held"
    ELSE IF \A p \in Plans : SlotOf[p] = s => receipts[p] = None THEN "free" ELSE "closed"]

Window == INSTANCE WindowRuns WITH stage <- WindowStage, runs <- ran

(* A run that was sent is never taken back, nor its window held again: only a *)
(* claim that sent nothing is released, and a receipt stays until its window  *)
(* is a day past (abort_before_dispatch, finish, unknown, _prune, recover).   *)
(* Every step that changes a receipt, a window's age or a count is a step of  *)
(* WindowRuns; the others leave its variables alone, so this is Window!Spec.  *)
WindowsKept ==
    /\ Window!Init
    /\ [][<<age, receipts, ran>>' # <<age, receipts, ran>> => Window!Next]_vars
=============================================================================
