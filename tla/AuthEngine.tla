----------------------------- MODULE AuthEngine -----------------------------
(***************************************************************************)
(* The auth engine (auth_engine.py): the devices table in storage, the     *)
(* in-memory cache every request is checked against, and the RLock that    *)
(* writers hold from their first read to the cache update.                 *)
(*                                                                         *)
(* Writers run in executor threads.  Token checks run on the event loop    *)
(* and take no lock, so they see the cache between any two steps below.    *)
(* A write is durable once committed, and visible once published to the    *)
(* cache; a restart can come in between, and so can the factory reset,     *)
(* which clears the table without the engine's lock.                       *)
(***************************************************************************)
EXTENDS Naturals, FiniteSets

CONSTANTS
    Threads,      \* executor threads running engine calls
    FreshIds,     \* random device ids (secrets.token_urlsafe): never reused
    ManifestIds,  \* ids chosen by a developer manifest (ensure_enrolled)
    Rooms,        \* area ids a scope may name
    CamChoices,   \* stored camera_access values tried, None among them
    WritesFail,   \* TRUE: a storage write may raise instead of committing
    MaxVer,       \* bound: versions explored
    None          \* Python's None

ASSUME IdsAssumption == FreshIds \cap ManifestIds = {}

Roles == {"admin", "sub-admin", "user"}
CamValues == {"none", "rooms", "all"}
Ids == FreshIds \cup ManifestIds
RoomScopes == {None} \cup SUBSET Rooms

(* A stored device record: cam is the raw camera_access, possibly None. *)
Records == [role : Roles, rooms : RoomScopes, cam : CamValues \cup {None},
            ver : Nat]

(* A cache entry: cam is the resolved camera access. *)
Entries == [role : Roles, rooms : RoomScopes, cam : CamValues, ver : Nat]

ASSUME NoneAssumption ==
    /\ None \notin Records \cup Entries \cup Ids \cup Threads
    /\ \A scope \in SUBSET Rooms : scope # None
ASSUME CamAssumption == CamChoices \subseteq CamValues \cup {None}

Ops == {"idle", "enroll", "ensure", "replace", "update", "delete", "leave",
        "prune", "wipe", "factory"}

VARIABLES
    devices,  \* the devices table: id -> record, None when absent
    cache,    \* _device_cache: id -> entry, None when absent
    lock,     \* the thread holding the engine's RLock, or None
    job,      \* what each thread is doing
    used,     \* random ids drawn so far
    dead,     \* <<id, ver>> accepted once and refused since
    stale     \* TRUE after a wipe that failed part-way

vars == <<devices, cache, lock, job, used, dead, stale>>

-----------------------------------------------------------------------------
(* Records and cache entries *)

EffectiveCam(cam, rooms) ==
    IF cam # None THEN cam ELSE IF rooms = None THEN "all" ELSE "rooms"

CamOf(r) == IF r.role = "admin" THEN "all" ELSE EffectiveCam(r.cam, r.rooms)

EntryOf(r) ==
    IF r = None THEN None
    ELSE [role |-> r.role, rooms |-> r.rooms, cam |-> CamOf(r), ver |-> r.ver]

IsAdmin(e) == e # None /\ e.role = "admin"

HasAdmin == \E i \in Ids : IsAdmin(cache[i])

(* validate_token: a token of device i minted at version v passes. *)
Accepts(i, v) == cache[i] # None /\ cache[i].ver = v

NoRows == [i \in Ids |-> None]

Row(i, r) == [NoRows EXCEPT ![i] = r]

(* Only users are room-scoped. *)
ScopeFits(role, rooms) == rooms # None => role = "user"

(* Replace the cache, and remember the tokens that die with the change. *)
SetCache(new) ==
    /\ cache' = new
    /\ dead' = dead \cup
         {p \in {<<i, cache[i].ver>> : i \in {j \in Ids : cache[j] # None}} :
             new[p[1]] = None \/ new[p[1]].ver # p[2]}

(* A thread's call: the rows it means to write (None deletes), the ids still *)
(* to write, and the ids written and not yet in the cache.                   *)
Idle == [op |-> "idle", rows |-> NoRows, todo |-> {}, done |-> {}]

(* Fault: the engine's lock is not waited for. *)
AcquireUnlocked(t, op, rows, todo) ==
    /\ job[t] = Idle
    /\ lock' = t
    /\ job' = [job EXCEPT
         ![t] = [op |-> op, rows |-> rows, todo |-> todo, done |-> {}]]

Acquire(t, op, rows, todo) ==
    /\ lock = None
    /\ job[t] = Idle
    /\ lock' = t
    /\ job' = [job EXCEPT
         ![t] = [op |-> op, rows |-> rows, todo |-> todo, done |-> {}]]

Release(t) ==
    /\ lock' = None
    /\ job' = [job EXCEPT ![t] = Idle]

-----------------------------------------------------------------------------
(* The calls, up to the point where they have read what they need *)

(* Fault: a device id is derived, and comes back when its phone does. *)
EnrollReusingIds(t, i, role, rooms, cam) ==
    /\ i \in FreshIds /\ devices[i] = None
    /\ ScopeFits(role, rooms)
    /\ role = "admin" => ~HasAdmin
    /\ Acquire(t, "enroll",
         Row(i, [role |-> role, rooms |-> rooms, cam |-> cam, ver |-> 1]), {i})
    /\ used' = used \cup {i}
    /\ UNCHANGED <<devices, cache, dead, stale>>

EnrollDevice(t, i, role, rooms, cam) ==
    /\ i \in FreshIds \ used
    /\ ScopeFits(role, rooms)
    /\ role = "admin" => ~HasAdmin
    /\ Acquire(t, "enroll",
         Row(i, [role |-> role, rooms |-> rooms, cam |-> cam, ver |-> 1]), {i})
    /\ used' = used \cup {i}
    /\ UNCHANGED <<devices, cache, dead, stale>>

(* The developer manifest: enroll or overwrite a device under a given id. *)
EnsureEnrolled(t, i, role, rooms, cam) ==
    LET old == devices[i]
        ver == IF old = None THEN 1 ELSE old.ver + 1
    IN  /\ i \in ManifestIds
        /\ role # "admin"
        /\ ScopeFits(role, rooms)
        /\ old # None => <<old.role, old.rooms, old.cam>> # <<role, rooms, cam>>
        /\ ver <= MaxVer
        /\ Acquire(t, "ensure",
             Row(i, [role |-> role, rooms |-> rooms, cam |-> cam, ver |-> ver]),
             {i})
        /\ UNCHANGED <<devices, cache, used, dead, stale>>

(* Owner recovery: the old admin's row goes and the new one comes in one    *)
(* transaction.  The old admin is found in the cache.                       *)
ReplaceAdmin(t, i, old) ==
    /\ i \in FreshIds \ used
    /\ IsAdmin(cache[old])
    /\ Acquire(t, "replace",
         Row(i, [role |-> "admin", rooms |-> None, cam |-> None, ver |-> 1]),
         {i, old})
    /\ used' = used \cup {i}
    /\ UNCHANGED <<devices, cache, dead, stale>>

(* Fault: an edit keeps the version, so tokens outlive it. *)
UpdateKeepingVer(t, i, role, rooms, cam) ==
    /\ devices[i] # None /\ ~IsAdmin(devices[i])
    /\ role # "admin"
    /\ ScopeFits(role, rooms)
    /\ Acquire(t, "update",
         Row(i, [role |-> role, rooms |-> rooms, cam |-> cam,
                 ver |-> devices[i].ver]), {i})
    /\ UNCHANGED <<devices, cache, used, dead, stale>>

(* An edit; a field the request leaves out keeps its stored value. *)
UpdateDevice(t, i, role, rooms, cam) ==
    /\ devices[i] # None
    /\ ~IsAdmin(devices[i])
    /\ role # "admin"
    /\ ScopeFits(role, rooms)
    /\ cam # None \/ devices[i].cam = None
    /\ devices[i].ver < MaxVer
    /\ Acquire(t, "update",
         Row(i, [role |-> role, rooms |-> rooms, cam |-> cam,
                 ver |-> devices[i].ver + 1]), {i})
    /\ UNCHANGED <<devices, cache, used, dead, stale>>

(* Drop the rooms that no longer exist from every scope: one committed and  *)
(* published row at a time, versions kept.                                  *)
PruneRooms(t, known) ==
    LET scoped == {i \in Ids : devices[i] # None /\ devices[i].rooms # None}
        pruned == [i \in Ids |->
            IF i \in scoped
            THEN [devices[i] EXCEPT !.rooms = devices[i].rooms \cap known]
            ELSE devices[i]]
        changed == {i \in Ids : pruned[i] # devices[i]}
    IN  /\ changed # {}
        /\ Acquire(t, "prune", pruned, changed)
        /\ UNCHANGED <<devices, cache, used, dead, stale>>

DeleteDevice(t, i) ==
    /\ devices[i] # None
    /\ ~IsAdmin(devices[i])
    /\ Acquire(t, "delete", NoRows, {i})
    /\ UNCHANGED <<devices, cache, used, dead, stale>>

(* A device unpairs itself: the admin may. *)
LeaveHub(t, i) ==
    /\ devices[i] # None
    /\ Acquire(t, "leave", NoRows, {i})
    /\ UNCHANGED <<devices, cache, used, dead, stale>>

WipeAllDevices(t) ==
    /\ Acquire(t, "wipe", NoRows, {i \in Ids : devices[i] # None})
    /\ UNCHANGED <<devices, cache, used, dead, stale>>

(* The factory reset clears the tables in a storage transaction, outside the *)
(* engine's lock, and only then calls wipe_all_devices.                      *)
FactoryClear(t) ==
    /\ job[t] = Idle
    /\ devices' = NoRows
    /\ job' = [job EXCEPT ![t].op = "factory"]
    /\ UNCHANGED <<cache, lock, used, dead, stale>>

(* Fault: the factory reset takes the cleared table for the last word. *)
FactoryWipeCacheOnly(t) ==
    /\ job[t].op = "factory"
    /\ lock = None
    /\ lock' = t
    /\ job' = [job EXCEPT ![t].op = "wipe"]
    /\ UNCHANGED <<devices, cache, used, dead, stale>>

FactoryWipe(t) ==
    /\ job[t].op = "factory"
    /\ lock = None
    /\ lock' = t
    /\ job' = [job EXCEPT ![t] =
         [op |-> "wipe", rows |-> NoRows, done |-> {},
          todo |-> {i \in Ids : devices[i] # None}]]
    /\ UNCHANGED <<devices, cache, used, dead, stale>>

-----------------------------------------------------------------------------
(* The storage writes and the cache update that ends a call *)

Loops == {"prune", "wipe"}

(* What the next storage call writes: a single row inside a loop, else all  *)
(* the rows of the call in one transaction.                                 *)
Batches(t) ==
    IF job[t].op \in Loops THEN {{i} : i \in job[t].todo} ELSE {job[t].todo}

MayWrite(t) ==
    /\ lock = t
    /\ job[t].todo # {}
    /\ job[t].op = "prune" => job[t].done = {}

(* Deleting an absent row raises KeyError. *)
Missing(t, batch) ==
    \E i \in batch : job[t].rows[i] = None /\ devices[i] = None

Commit(t) ==
    /\ MayWrite(t)
    /\ \E batch \in Batches(t) :
         /\ ~Missing(t, batch)
         /\ devices' = [i \in Ids |->
              IF i \in batch THEN job[t].rows[i] ELSE devices[i]]
         /\ job' = [job EXCEPT ![t].todo = @ \ batch, ![t].done = @ \cup batch]
    /\ UNCHANGED <<cache, lock, used, dead, stale>>

(* The write raised: nothing of this batch is stored and the call ends.  A  *)
(* wipe cut short leaves the cache holding devices that are already deleted. *)
Abort(t) ==
    /\ MayWrite(t)
    /\ WritesFail \/ \E batch \in Batches(t) : Missing(t, batch)
    /\ Release(t)
    /\ stale' = (stale \/ job[t].op = "wipe")
    /\ UNCHANGED <<devices, cache, used, dead>>

Publish(t) ==
    /\ lock = t
    /\ job[t].op \notin Loops
    /\ job[t].todo = {}
    /\ SetCache([i \in Ids |->
         IF i \in job[t].done THEN EntryOf(job[t].rows[i]) ELSE cache[i]])
    /\ Release(t)
    /\ UNCHANGED <<devices, used, stale>>

(* Faults: the cache keeps the old rooms; the cache entry gets a new version. *)
PrunedKeepingRooms(i, r) == [EntryOf(r) EXCEPT !.rooms = cache[i].rooms]
PrunedBumpingVer(i, r) == [EntryOf(r) EXCEPT !.ver = @ + 1]

PrunedEntry(i, r) ==
    IF cache[i] = None THEN EntryOf(r)
    ELSE [cache[i] EXCEPT !.rooms = r.rooms, !.cam = CamOf(r)]

PublishPruned(t) ==
    /\ lock = t
    /\ job[t].op = "prune"
    /\ job[t].done # {}
    /\ SetCache([i \in Ids |->
         IF i \in job[t].done THEN PrunedEntry(i, job[t].rows[i]) ELSE cache[i]])
    /\ IF job[t].todo = {}
       THEN Release(t)
       ELSE /\ job' = [job EXCEPT ![t].done = {}]
            /\ UNCHANGED lock
    /\ UNCHANGED <<devices, used, stale>>

(* Fault: a wipe deletes the rows and leaves the cache. *)
PublishWipedNothing(t) ==
    /\ lock = t /\ job[t].op = "wipe" /\ job[t].todo = {}
    /\ Release(t)
    /\ UNCHANGED <<devices, cache, used, dead, stale>>

PublishWiped(t) ==
    /\ lock = t
    /\ job[t].op = "wipe"
    /\ job[t].todo = {}
    /\ SetCache([i \in Ids |-> None])
    /\ Release(t)
    /\ stale' = FALSE
    /\ UNCHANGED <<devices, used>>

(* The process stops at any point, or the entry reloads: calls in flight    *)
(* are gone, and warm_up rebuilds the cache from the table.                 *)
Restart ==
    /\ SetCache([i \in Ids |-> EntryOf(devices[i])])
    /\ lock' = None
    /\ job' = [t \in Threads |-> Idle]
    /\ stale' = FALSE
    /\ UNCHANGED <<devices, used>>

-----------------------------------------------------------------------------
Init ==
    /\ devices = NoRows
    /\ cache = NoRows
    /\ lock = None
    /\ job = [t \in Threads |-> Idle]
    /\ used = {}
    /\ dead = {}
    /\ stale = FALSE

Begin(t) ==
    \/ \E i \in Ids, role \in Roles, rooms \in RoomScopes, cam \in CamChoices :
         \/ EnrollDevice(t, i, role, rooms, cam)
         \/ EnsureEnrolled(t, i, role, rooms, cam)
         \/ UpdateDevice(t, i, role, rooms, cam)
    \/ \E i, old \in Ids : ReplaceAdmin(t, i, old)
    \/ \E known \in SUBSET Rooms : PruneRooms(t, known)
    \/ \E i \in Ids : DeleteDevice(t, i) \/ LeaveHub(t, i)
    \/ WipeAllDevices(t)
    \/ FactoryClear(t)

Continue(t) ==
    \/ FactoryWipe(t)
    \/ Commit(t)
    \/ Abort(t)
    \/ Publish(t)
    \/ PublishPruned(t)
    \/ PublishWiped(t)

Next == Restart \/ \E t \in Threads : Begin(t) \/ Continue(t)

Spec == Init /\ [][Next]_vars

(* A thread that holds the lock goes on; one waiting for it gets it in the  *)
(* end, however often others take it first.                                 *)
Fairness == \A t \in Threads :
    /\ WF_vars(Commit(t) \/ Abort(t) \/ Publish(t) \/ PublishPruned(t)
               \/ PublishWiped(t))
    /\ SF_vars(FactoryWipe(t))

FairSpec == Spec /\ Fairness

-----------------------------------------------------------------------------
(* Properties *)

Jobs == [op : Ops, rows : [Ids -> Records \cup {None}],
         todo : SUBSET Ids, done : SUBSET Ids]

(* Types; the engine's lock is held by a thread or by nobody. *)
TypeOK ==
    /\ devices \in [Ids -> Records \cup {None}]
    /\ cache \in [Ids -> Entries \cup {None}]
    /\ lock \in Threads \cup {None}
    /\ job \in [Threads -> Jobs]
    /\ used \subseteq FreshIds
    /\ dead \subseteq Ids \X Nat
    /\ stale \in BOOLEAN

AtMostOneAdmin(f) ==
    \A i, j \in Ids : IsAdmin(f[i]) /\ IsAdmin(f[j]) => i = j

(* The hub has one admin at most, in storage and in the cache, although     *)
(* enroll_device checks the cache and writes the table (auth_engine.py:289). *)
SingleAdmin == AtMostOneAdmin(devices) /\ AtMostOneAdmin(cache)

(* Ids committed and not yet published, and the ids a reset may leave in    *)
(* the cache: between the table wipe and the cache wipe, or after a wipe    *)
(* that failed.                                                             *)
Unpublished == {i \in Ids : \E t \in Threads : i \in job[t].done}
ResetPending == stale \/ \E t \in Threads : job[t].op \in {"factory", "wipe"}

(* "The cache mirrors every enrolled device" (auth_engine.py:860): outside  *)
(* the window between a commit and its cache update, every entry is the one *)
(* its row resolves to, except deleted devices while a reset is under way.  *)
CacheMirrors ==
    \A i \in Ids \ Unpublished :
        \/ cache[i] = EntryOf(devices[i])
        \/ devices[i] = None /\ ResetPending

(* A token refused once is refused for good, through failed writes, crashes *)
(* and resets (auth_engine.py:698, 745), for the devices people pair.       *)
NoRevival == \A p \in dead : p[1] \in FreshIds => ~Accepts(p[1], p[2])

(* The tokens of device i that pass now still pass after the step. *)
TokensLive(i) == cache'[i] # None /\ cache'[i].ver = cache[i].ver

(* A token stops working only because its device was removed or edited: no  *)
(* prune, failed write or restart logs anybody out.                         *)
RefusedForCause == [][\A i \in FreshIds :
    cache[i] # None /\ ~TokensLive(i) =>
        devices'[i] = None \/ devices'[i].ver > cache[i].ver]_vars

(* What a live token grants never widens: prune_rooms changes a scope       *)
(* without a new version, so it may only narrow it (auth_engine.py:660).    *)
Narrower(new, old) == old = None \/ (new # None /\ new \subseteq old)
NoWideningUnderToken == [][\A i \in FreshIds :
    cache[i] # None /\ TokensLive(i) =>
        /\ cache'[i].role = cache[i].role
        /\ Narrower(cache'[i].rooms, cache[i].rooms)
        /\ cache'[i].cam = cache[i].cam]_vars

(* Once a wipe is through its rows, whatever ends it leaves no device in    *)
(* storage and none in the cache: a write that was in flight when the       *)
(* factory reset cleared the tables does not survive it.                    *)
WipeIsComplete == [][\A t \in Threads :
    lock = t /\ job[t].op = "wipe" /\ job[t].todo = {} /\ lock' # t =>
        devices' = NoRows /\ cache' = NoRows]_vars

(* The token check catches up with storage without any restart: whenever a   *)
(* device's row and its cache entry differ, they agree again later, unless a *)
(* wipe is under way or was cut short by a write that failed.                *)
CacheCatchesUp == \A i \in Ids :
    cache[i] # EntryOf(devices[i])
      ~> cache[i] = EntryOf(devices[i]) \/ ResetPending

-----------------------------------------------------------------------------
(* Why it works: what a call in flight has written and may still write, and  *)
(* how that fits the cache it will be published to.                          *)

Writes(t) == job[t].todo \cup job[t].done

(* The lock is held from a call's first read to its end, and by no one else; *)
(* outside a loop a call has everything still to write or nothing.           *)
JobShape == \A t \in Threads :
    /\ lock = t <=> job[t].op \notin {"idle", "factory"}
    /\ job[t].op = "idle" => job[t] = Idle
    /\ job[t].op = "factory" => job[t].todo = {} /\ job[t].done = {}
    /\ job[t].op \notin Loops => job[t].todo = {} \/ job[t].done = {}

(* What is written and not published is in the table, unless a reset cleared *)
(* it since.                                                                 *)
DoneStored == \A t \in Threads : \A i \in job[t].done :
    devices[i] = job[t].rows[i] \/ (devices[i] = None /\ ResetPending)

EnrollFits(t) == job[t].op = "enroll" =>
    /\ \A i, j \in Writes(t) : i = j
    /\ \A i \in Writes(t) :
         /\ i \in used
         /\ cache[i] = None
         /\ job[t].rows[i] # None
         /\ IsAdmin(job[t].rows[i]) => ~HasAdmin

ReplaceFits(t) == job[t].op = "replace" =>
    \E new, old \in Ids :
        /\ Writes(t) = {new, old}
        /\ new \in used
        /\ cache[new] = None
        /\ IsAdmin(job[t].rows[new])
        /\ IsAdmin(cache[old])
        /\ job[t].rows[old] = None

UpdateFits(t) == job[t].op = "update" => \A i \in Writes(t) :
    /\ cache[i] # None
    /\ job[t].rows[i] # None
    /\ ~IsAdmin(cache[i])
    /\ ~IsAdmin(job[t].rows[i])
    /\ job[t].rows[i].ver > cache[i].ver

EnsureFits(t) == job[t].op = "ensure" => \A i \in Writes(t) :
    /\ i \in ManifestIds
    /\ job[t].rows[i] # None
    /\ ~IsAdmin(job[t].rows[i])

DeleteFits(t) == job[t].op \in {"delete", "leave", "wipe"} =>
    \A i \in Ids : job[t].rows[i] = None

WipeFits(t) == job[t].op = "wipe" =>
    \A i \in Ids : devices[i] # None => i \in job[t].todo

PruneFits(t) == job[t].op = "prune" => \A i \in Writes(t) :
    /\ cache[i] # None
    /\ job[t].rows[i] # None
    /\ job[t].rows[i].role = cache[i].role
    /\ job[t].rows[i].ver = cache[i].ver
    /\ job[t].rows[i].rooms # None
    /\ Narrower(job[t].rows[i].rooms, cache[i].rooms)
    /\ CamOf(job[t].rows[i]) = cache[i].cam

Fits(t) ==
    /\ EnrollFits(t)
    /\ ReplaceFits(t)
    /\ UpdateFits(t)
    /\ EnsureFits(t)
    /\ DeleteFits(t)
    /\ WipeFits(t)
    /\ PruneFits(t)

JobsFit == \A t \in Threads : Fits(t)

(* Random ids are drawn before they are stored, and manifests make no admin. *)
IdsKnown == \A i \in Ids :
    /\ i \in FreshIds /\ (devices[i] # None \/ cache[i] # None) => i \in used
    /\ i \in ManifestIds => ~IsAdmin(devices[i]) /\ ~IsAdmin(cache[i])

(* Every version a phone's tokens were refused at lies below the versions   *)
(* in the cache, in the table and in the rows about to be written.          *)
DeadBehind == \A p \in dead : p[1] \in FreshIds =>
    /\ p[1] \in used
    /\ cache[p[1]] # None => cache[p[1]].ver > p[2]
    /\ devices[p[1]] # None => devices[p[1]].ver > p[2]
    /\ \A t \in Threads : p[1] \in Writes(t) /\ job[t].rows[p[1]] # None =>
         job[t].rows[p[1]].ver > p[2]

(* The inductive invariant behind SingleAdmin, NoRevival and PromiseKept. *)
IInv ==
    /\ TypeOK
    /\ JobShape
    /\ DoneStored
    /\ JobsFit
    /\ IdsKnown
    /\ CacheMirrors
    /\ AtMostOneAdmin(cache)
    /\ DeadBehind

-----------------------------------------------------------------------------
(* The engine implements the promise of DeviceAccess. *)
Promise == INSTANCE DeviceAccess WITH access <- cache, revoked <- dead
PromiseKept == Promise!Spec
=============================================================================
