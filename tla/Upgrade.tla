------------------------------ MODULE Upgrade -------------------------------
(* How the hub updates itself (update.py, update_api.py, update_install.py)    *)
(* and brings its database up to the code that starts (storage/migrations.py). *)
(* Version n of the code wants schema n.  A tree of files is the version it    *)
(* holds, None when there is none at that place.                               *)
EXTENDS Naturals, FiniteSets

CONSTANTS
    None, Installs,
    LastVersion,   \* the newest release there will be
    MaxHalts,      \* bound: times the hub stops, in any state it is in
    Quits          \* a client that has gone takes its install request with it,
                   \* while the thread that swaps the trees goes on

VARIABLES
    published,     \* the latest release
    known, fresh,  \* UpdateChecker: the release it remembers, for how long
    swapped,       \* _SWAPPED_VERSION_KEY
    ins,           \* the install requests
    live, rollback, legacy,   \* the integration, the version before it, and
                              \* a version before it that an older updater left
    stray,         \* trees that a swap left in the staging folder
    broken,        \* history: a swap was cut off, or could not be undone
    running,       \* the code that runs
    hub,           \* "down", "migrating", "restoring", "refused", "up"
    db, backups,   \* the schema of the database (None: torn), and of its copies
    halts

disk == <<live, rollback, legacy, stray, broken>>
checker == <<published, known, fresh>>
code == <<running, hub, db, backups>>
vars == <<checker, swapped, ins, disk, code, halts>>

Versions == 0 .. LastVersion
Trees == Versions \cup {None}

(* An install: the release it is after and the one it downloads, the trees in   *)
(* its staging folder, and whether its request is still there to hear of it.    *)
Steps == {"idle", "locked", "urls", "stage", "out", "in", "retire", "keep", "undo", "clear", "done"}
Idle == [step |-> "idle", target |-> None, tree |-> None, out |-> None, retired |-> None,
         heard |-> TRUE]

At(i, step) == ins[i].step = step
Holder(i) == ins[i].step # "idle" /\ ins[i].heard
Locked == \E i \in Installs : Holder(i)
Newer(v) == known # None /\ known > v

-----------------------------------------------------------------------------
(* The check for a newer release. *)

Publish ==
    /\ published < LastVersion /\ published' = published + 1
    /\ UNCHANGED <<known, fresh, swapped, ins, disk, code, halts>>

CacheExpires ==
    /\ fresh /\ fresh' = FALSE
    /\ UNCHANGED <<published, known, swapped, ins, disk, code, halts>>

(* A failed refresh caches nothing and leaves the last good answer. *)
Refresh ==
    IF fresh THEN UNCHANGED checker
    ELSE /\ UNCHANGED published
         /\ \/ known' \in {published, None} /\ fresh' = TRUE
            \/ UNCHANGED <<known, fresh>>

Status ==
    /\ hub = "up" /\ ~fresh /\ Refresh
    /\ UNCHANGED <<swapped, ins, disk, code, halts>>

-----------------------------------------------------------------------------
(* An install. *)

Goes(i, new) == ins' = [ins EXCEPT ![i] = new]
Ends(i) == Goes(i, Idle)
OnLoop(i, step) == At(i, step) /\ ins[i].heard

(* perform_install *)
Ask(i) ==
    /\ hub = "up" /\ At(i, "idle") /\ swapped = None /\ ~Locked
    /\ Goes(i, [Idle EXCEPT !.step = "locked"])
    /\ UNCHANGED <<checker, swapped, disk, code, halts>>

AskStatus(i) ==
    /\ OnLoop(i, "locked") /\ Refresh
    /\ IF known' # None /\ known' > running
       THEN Goes(i, [ins[i] EXCEPT !.step = "urls", !.target = known'])
       ELSE Ends(i)
    /\ UNCHANGED <<swapped, disk, code, halts>>

(* The URLs may be those of a release that is newer than the one asked for. *)
AskUrls(i) ==
    /\ OnLoop(i, "urls") /\ Refresh
    /\ \/ known' # None /\ Goes(i, [ins[i] EXCEPT !.step = "stage", !.tree = known'])
       \/ Ends(i)      \* no assets, no signature, a download that fails
    /\ UNCHANGED <<swapped, disk, code, halts>>

(* Fault: the version of what was downloaded is not looked at. *)
MatchesAny(i) == TRUE
(* versions_match *)
Matches(i) == ins[i].tree = ins[i].target

(* A signature that does not verify, a version that does not match or a copy *)
(* that fails changes nothing.                                               *)
Stage(i) ==
    /\ At(i, "stage")
    /\ \/ Matches(i) /\ Goes(i, [ins[i] EXCEPT !.step = "out"])
       \/ Ends(i)
    /\ UNCHANGED <<checker, swapped, disk, code, halts>>

(* swap_integration_dir: four renames, undone in reverse when one fails. *)
Fails(i) == Goes(i, [ins[i] EXCEPT !.step = "undo"])

MoveOut(i) ==
    /\ At(i, "out")
    /\ \/ /\ live # None
          /\ Goes(i, [ins[i] EXCEPT !.step = "in", !.out = live]) /\ live' = None
       \/ Fails(i) /\ UNCHANGED live
    /\ UNCHANGED <<checker, swapped, rollback, legacy, stray, broken, code, halts>>

MoveIn(i) ==
    /\ At(i, "in")
    /\ \/ /\ live = None
          /\ Goes(i, [ins[i] EXCEPT !.step = "retire", !.tree = None]) /\ live' = ins[i].tree
       \/ Fails(i) /\ UNCHANGED live
    /\ UNCHANGED <<checker, swapped, rollback, legacy, stray, broken, code, halts>>

Retire(i) ==
    /\ At(i, "retire")
    /\ \/ Goes(i, [ins[i] EXCEPT !.step = "keep", !.retired = rollback]) /\ rollback' = None
       \/ rollback # None /\ Fails(i) /\ UNCHANGED rollback
    /\ UNCHANGED <<checker, swapped, live, legacy, stray, broken, code, halts>>

KeepOld(i) ==
    /\ At(i, "keep")
    /\ \/ /\ rollback = None
          /\ Goes(i, [ins[i] EXCEPT !.step = "clear", !.out = None]) /\ rollback' = ins[i].out
       \/ Fails(i) /\ UNCHANGED rollback
    /\ UNCHANGED <<checker, swapped, live, legacy, stray, broken, code, halts>>

(* The last rename that is still done is undone.  When that fails the next *)
(* is tried, but the old tree only finds its place when it is free.        *)
Undone(i, place, new) ==
    \/ Goes(i, new) /\ place /\ UNCHANGED <<stray, broken>>
    \/ /\ broken' = TRUE /\ UNCHANGED <<live, rollback>>
       /\ IF ins[i].retired # None
          THEN Goes(i, [ins[i] EXCEPT !.retired = None]) /\ stray' = stray \cup {ins[i].retired}
          ELSE Ends(i) /\ stray' = stray \cup {ins[i].out}

Undo(i) ==
    /\ At(i, "undo")
    /\ LET o == ins[i]
       IN  CASE o.retired # None ->
                  Undone(i, rollback' = o.retired /\ UNCHANGED live, [o EXCEPT !.retired = None])
             [] o.retired = None /\ o.out # None /\ o.tree = None ->
                  Undone(i, live' = None /\ UNCHANGED rollback, [o EXCEPT !.tree = live])
             [] o.retired = None /\ o.out # None /\ o.tree # None ->
                  Undone(i, live' = o.out /\ UNCHANGED rollback, [o EXCEPT !.out = None])
             [] OTHER -> Ends(i) /\ UNCHANGED <<live, rollback, stray, broken>>
    /\ UNCHANGED <<checker, swapped, legacy, code, halts>>

ClearRetired(i) ==
    /\ At(i, "clear") /\ Goes(i, [ins[i] EXCEPT !.step = "done", !.retired = None])
    /\ UNCHANGED <<checker, swapped, disk, code, halts>>

(* Fault: nothing says that a swap waits for its restart. *)
InstalledUntold(i) ==
    /\ OnLoop(i, "done") /\ Ends(i)
    /\ UNCHANGED <<checker, swapped, disk, code, halts>>

(* The request hears of the swap: no other install until the restart. *)
Installed(i) ==
    /\ OnLoop(i, "done") /\ Ends(i)
    /\ swapped' = ins[i].target
    /\ UNCHANGED <<checker, disk, code, halts>>

(* The request is cancelled: nobody hears of what its thread does. *)
Quit(i) ==
    /\ Quits /\ Holder(i)
    /\ IF ins[i].step \in {"locked", "urls"} THEN Ends(i)
       ELSE Goes(i, [ins[i] EXCEPT !.heard = FALSE])
    /\ UNCHANGED <<checker, swapped, disk, code, halts>>

Unheard(i) ==
    /\ At(i, "done") /\ ~ins[i].heard /\ Ends(i)
    /\ UNCHANGED <<checker, swapped, disk, code, halts>>

-----------------------------------------------------------------------------
(* Home Assistant stops, for the update or in the middle of anything, and *)
(* starts the code that is in its folder.                                 *)
Left(i) == {ins[i].out, ins[i].retired} \ {None}

Halt ==
    /\ halts < MaxHalts /\ halts' = halts + 1
    /\ ins' = [i \in Installs |-> Idle]
    /\ broken' = (broken \/ \E i \in Installs : ins[i].out # None)
    /\ stray' = stray \cup UNION {Left(i) : i \in Installs}
    /\ swapped' = None /\ known' = None /\ fresh' = FALSE
    /\ running' = None /\ hub' = "down"
    /\ db' \in IF hub = "restoring" THEN {db, None} ELSE {db}
    /\ UNCHANGED <<published, live, rollback, legacy, backups>>

(* A person puts the rollback in place while the hub is stopped. *)
RollBack ==
    /\ running = None /\ rollback # None
    /\ live' = rollback /\ rollback' = None
    /\ UNCHANGED <<legacy, stray, broken, checker, swapped, ins, code, halts>>

(* run_migrations: where a start of the code gets to at once. *)
Opens(c) ==
    IF db = None THEN "refused"
    ELSE IF db > c THEN "refused" ELSE IF db < c THEN "migrating" ELSE "up"

(* Set-up: an older updater's copy becomes the rollback or goes, the database *)
(* is copied before it is migrated.                                           *)
Start ==
    /\ hub = "down"
    /\ running' = IF running = None THEN live ELSE running
    /\ running' # None /\ hub' = Opens(running')
    /\ backups' = IF hub' = "migrating" THEN backups \cup {db} ELSE backups
    /\ rollback' = IF rollback = None THEN legacy ELSE rollback
    /\ legacy' = None
    /\ UNCHANGED <<live, stray, broken, checker, swapped, ins, db, halts>>

(* One step, in one transaction with its version. *)
Migrate ==
    /\ hub = "migrating"
    /\ \/ /\ db' = db + 1 /\ hub' = IF db + 1 = running THEN "up" ELSE hub
       \/ hub' = "restoring" /\ UNCHANGED db
    /\ UNCHANGED <<disk, checker, swapped, ins, running, backups, halts>>

(* A step failed: the copy taken before this run is put back, and set-up is *)
(* tried again later.                                                       *)
Restore ==
    /\ hub = "restoring"
    /\ \E b \in backups : (\A c \in backups : c <= b) /\ db' = b
    /\ hub' = "down"
    /\ UNCHANGED <<disk, checker, swapped, ins, running, backups, halts>>

(* A factory reset deletes the copies. *)
DeleteBackups ==
    /\ hub = "up" /\ backups' = {}
    /\ UNCHANGED <<disk, checker, swapped, ins, running, hub, db, halts>>

Init ==
    /\ published = 1 /\ known = None /\ fresh = FALSE /\ swapped = None
    /\ ins = [i \in Installs |-> Idle]
    /\ live = 1 /\ rollback = None /\ legacy \in {None, 0} /\ stray = {} /\ broken = FALSE
    /\ running = None /\ hub = "down" /\ db \in {0, 1} /\ backups = {} /\ halts = 0

Next ==
    \/ Publish \/ CacheExpires \/ Status
    \/ \E i \in Installs :
         \/ Ask(i) \/ AskStatus(i) \/ AskUrls(i) \/ Stage(i) \/ MoveOut(i) \/ MoveIn(i)
         \/ Retire(i) \/ KeepOld(i) \/ Undo(i) \/ ClearRetired(i) \/ Installed(i)
         \/ Quit(i) \/ Unheard(i)
    \/ Halt \/ RollBack \/ Start \/ Migrate \/ Restore \/ DeleteBackups

Spec == Init /\ [][Next]_vars
-----------------------------------------------------------------------------
TypeOK ==
    /\ published \in Versions /\ {known, swapped, live, rollback, legacy, running, db} \subseteq Trees
    /\ fresh \in BOOLEAN /\ broken \in BOOLEAN
    /\ stray \subseteq Versions /\ backups \subseteq Versions /\ halts \in 0 .. MaxHalts
    /\ hub \in {"down", "migrating", "restoring", "refused", "up"}
    /\ \A i \in Installs :
         /\ ins[i].step \in Steps /\ ins[i].heard \in BOOLEAN
         /\ {ins[i].target, ins[i].tree, ins[i].out, ins[i].retired} \subseteq Trees

(* Whatever fails, and wherever the hub stops, the code that runs is still on  *)
(* the disk, and there is code to start unless a swap was cut off or could not *)
(* be undone.                                                                  *)
CodeKept ==
    /\ running # None =>
         running \in {live, rollback} \cup stray \cup {ins[i].out : i \in Installs}
    /\ live = None => broken \/ \E i \in Installs : ins[i].step \in {"in", "undo"}

(* A swap that waits for its restart put the release it was asked for in place *)
(* and kept the code that runs as the way back, unless an older one broke.     *)
WayBack == swapped # None /\ ~broken => live = swapped /\ rollback = running /\ swapped > running

(* A hub that is up has the schema its code wants, and a database that a cut *)
(* restore tore has a copy.                                                  *)
DataKept == (hub = "up" => db = running) /\ (db = None => backups # {})
=============================================================================
