-------------------------- MODULE AuthEngineProofs --------------------------
(***************************************************************************)
(* Proofs about AuthEngine, for any threads, ids, rooms and versions.      *)
(***************************************************************************)
EXTENDS AuthEngine, TLAPS

(* A record's cache entry: the camera access is resolved, the rest copied. *)
LEMMA EntryFacts ==
    ASSUME NEW r \in Records \cup {None}
    PROVE  /\ EntryOf(r) \in Entries \cup {None}
           /\ EntryOf(r) = None <=> r = None
           /\ r # None => /\ EntryOf(r).role = r.role
                          /\ EntryOf(r).rooms = r.rooms
                          /\ EntryOf(r).ver = r.ver
                          /\ EntryOf(r).cam = CamOf(r)
           /\ IsAdmin(EntryOf(r)) <=> IsAdmin(r)
<1>1. CASE r = None
  BY <1>1 DEF EntryOf, IsAdmin
<1>2. CASE r \in Records
  <2>1. CamOf(r) \in CamValues
    BY <1>2 DEF CamOf, EffectiveCam, CamValues, Records
  <2>2. EntryOf(r) \in Entries
    BY <1>2, <2>1, NoneAssumption DEF EntryOf, Records, Entries
  <2> QED
    BY <1>2, <2>2, NoneAssumption DEF EntryOf, IsAdmin, Entries, Records
<1> QED
  BY <1>1, <1>2

-----------------------------------------------------------------------------
(* Types *)

LEMMA RowTypes ==
    /\ NoRows \in [Ids -> Records \cup {None}]
    /\ NoRows \in [Ids -> Entries \cup {None}]
    /\ Idle \in Jobs
    /\ \A i \in Ids, r \in Records : Row(i, r) \in [Ids -> Records \cup {None}]
BY DEF NoRows, Row, Idle, Jobs, Ops

LEMMA AcquireTypes ==
    ASSUME TypeOK, NEW t \in Threads, NEW op \in Ops,
           NEW rows \in [Ids -> Records \cup {None}], NEW todo \in SUBSET Ids,
           Acquire(t, op, rows, todo)
    PROVE  lock' \in Threads \cup {None} /\ job' \in [Threads -> Jobs]
BY DEF TypeOK, Acquire, Jobs

LEMMA ReleaseTypes ==
    ASSUME TypeOK, NEW t \in Threads, Release(t)
    PROVE  lock' \in Threads \cup {None} /\ job' \in [Threads -> Jobs]
BY RowTypes DEF TypeOK, Release

LEMMA SetCacheTypes ==
    ASSUME TypeOK, NEW new \in [Ids -> Entries \cup {None}], SetCache(new)
    PROVE  cache' \in [Ids -> Entries \cup {None}] /\ dead' \subseteq Ids \X Nat
<1>1. ASSUME NEW i \in Ids, cache[i] # None
      PROVE  <<i, cache[i].ver>> \in Ids \X Nat
  BY <1>1 DEF TypeOK, Entries
<1> QED
  BY <1>1 DEF TypeOK, SetCache

LEMMA BeginTypes ==
    ASSUME TypeOK, NEW t \in Threads, Begin(t)
    PROVE  TypeOK'
<1> USE DEF Ops
<1>1. ASSUME NEW i \in Ids, NEW role \in Roles, NEW rooms \in RoomScopes,
             NEW cam \in CamChoices, EnrollDevice(t, i, role, rooms, cam)
      PROVE  TypeOK'
  <2> DEFINE r == [role |-> role, rooms |-> rooms, cam |-> cam, ver |-> 1]
  <2>1. r \in Records
    BY CamAssumption DEF Records
  <2> HIDE DEF r
  <2>2. lock' \in Threads \cup {None} /\ job' \in [Threads -> Jobs]
    BY <1>1, <2>1, RowTypes, AcquireTypes DEF EnrollDevice, r
  <2> QED
    BY <1>1, <2>2 DEF EnrollDevice, TypeOK
<1>2. ASSUME NEW i \in Ids, NEW role \in Roles, NEW rooms \in RoomScopes,
             NEW cam \in CamChoices, EnsureEnrolled(t, i, role, rooms, cam)
      PROVE  TypeOK'
  <2> DEFINE v == IF devices[i] = None THEN 1 ELSE devices[i].ver + 1
             r == [role |-> role, rooms |-> rooms, cam |-> cam, ver |-> v]
  <2>1. v \in Nat
    BY DEF TypeOK, Records
  <2> HIDE DEF v
  <2>2. r \in Records
    BY <2>1, CamAssumption DEF Records
  <2> HIDE DEF r
  <2>3. Acquire(t, "ensure", Row(i, r), {i})
        /\ UNCHANGED <<devices, cache, used, dead, stale>>
    BY <1>2 DEF EnsureEnrolled, r, v
  <2>4. lock' \in Threads \cup {None} /\ job' \in [Threads -> Jobs]
    BY <2>2, <2>3, RowTypes, AcquireTypes
  <2> QED
    BY <2>3, <2>4 DEF TypeOK
<1>3. ASSUME NEW i \in Ids, NEW role \in Roles, NEW rooms \in RoomScopes,
             NEW cam \in CamChoices, UpdateDevice(t, i, role, rooms, cam)
      PROVE  TypeOK'
  <2> DEFINE v == devices[i].ver + 1
             r == [role |-> role, rooms |-> rooms, cam |-> cam, ver |-> v]
  <2>1. v \in Nat
    BY <1>3 DEF TypeOK, Records, UpdateDevice
  <2> HIDE DEF v
  <2>2. r \in Records
    BY <2>1, CamAssumption DEF Records
  <2> HIDE DEF r
  <2>3. Acquire(t, "update", Row(i, r), {i})
        /\ UNCHANGED <<devices, cache, used, dead, stale>>
    BY <1>3 DEF UpdateDevice, r, v
  <2>4. lock' \in Threads \cup {None} /\ job' \in [Threads -> Jobs]
    BY <2>2, <2>3, RowTypes, AcquireTypes
  <2> QED
    BY <2>3, <2>4 DEF TypeOK
<1>4. ASSUME NEW i \in Ids, NEW old \in Ids, ReplaceAdmin(t, i, old)
      PROVE  TypeOK'
  <2> DEFINE r == [role |-> "admin", rooms |-> None, cam |-> None, ver |-> 1]
  <2>1. r \in Records
    BY DEF Records, Roles, RoomScopes
  <2> HIDE DEF r
  <2>2. lock' \in Threads \cup {None} /\ job' \in [Threads -> Jobs]
    BY <1>4, <2>1, RowTypes, AcquireTypes DEF ReplaceAdmin, r
  <2> QED
    BY <1>4, <2>2 DEF ReplaceAdmin, TypeOK
<1>5. ASSUME NEW known \in SUBSET Rooms, PruneRooms(t, known)
      PROVE  TypeOK'
  <2> DEFINE scoped == {i \in Ids : devices[i] # None /\ devices[i].rooms # None}
             pruned == [i \in Ids |->
                IF i \in scoped
                THEN [devices[i] EXCEPT !.rooms = devices[i].rooms \cap known]
                ELSE devices[i]]
             changed == {i \in Ids : pruned[i] # devices[i]}
  <2>1. ASSUME NEW i \in scoped
        PROVE  [devices[i] EXCEPT !.rooms = devices[i].rooms \cap known] \in Records
    BY <2>1 DEF TypeOK, Records, RoomScopes
  <2>2. pruned \in [Ids -> Records \cup {None}]
    BY <2>1 DEF TypeOK
  <2>3. changed \in SUBSET Ids
    OBVIOUS
  <2>4. Acquire(t, "prune", pruned, changed)
        /\ UNCHANGED <<devices, cache, used, dead, stale>>
    BY <1>5 DEF PruneRooms
  <2> HIDE DEF pruned, changed
  <2>5. lock' \in Threads \cup {None} /\ job' \in [Threads -> Jobs]
    BY <2>2, <2>3, <2>4, AcquireTypes
  <2> QED
    BY <2>4, <2>5 DEF TypeOK
<1>6. ASSUME NEW i \in Ids, DeleteDevice(t, i) \/ LeaveHub(t, i)
      PROVE  TypeOK'
  <2>1. lock' \in Threads \cup {None} /\ job' \in [Threads -> Jobs]
    BY <1>6, RowTypes, AcquireTypes DEF DeleteDevice, LeaveHub
  <2> QED
    BY <1>6, <2>1 DEF DeleteDevice, LeaveHub, TypeOK
<1>7. CASE WipeAllDevices(t)
  <2>1. lock' \in Threads \cup {None} /\ job' \in [Threads -> Jobs]
    BY <1>7, RowTypes, AcquireTypes DEF WipeAllDevices
  <2> QED
    BY <1>7, <2>1 DEF WipeAllDevices, TypeOK
<1>8. CASE FactoryClear(t)
  BY <1>8, RowTypes DEF FactoryClear, TypeOK, Jobs
<1> QED
  BY <1>1, <1>2, <1>3, <1>4, <1>5, <1>6, <1>7, <1>8 DEF Begin

LEMMA ContinueTypes ==
    ASSUME TypeOK, JobsFit, NEW t \in Threads, Continue(t)
    PROVE  TypeOK'
<1>1. CASE FactoryWipe(t)
  BY <1>1, RowTypes DEF FactoryWipe, TypeOK, Jobs, Ops
<1>2. CASE Commit(t)
  <2>1. PICK batch \in Batches(t) :
          /\ devices' = [i \in Ids |->
               IF i \in batch THEN job[t].rows[i] ELSE devices[i]]
          /\ job' = [job EXCEPT
               ![t].todo = @ \ batch, ![t].done = @ \cup batch]
    BY <1>2 DEF Commit
  <2>2. batch \subseteq Ids
    BY DEF Batches, TypeOK, Jobs
  <2>3. devices' \in [Ids -> Records \cup {None}]
    BY <2>1 DEF TypeOK, Jobs
  <2>4. job' \in [Threads -> Jobs]
    BY <2>1, <2>2 DEF TypeOK, Jobs
  <2> QED
    BY <1>2, <2>3, <2>4 DEF Commit, TypeOK
<1>3. CASE Abort(t)
  BY <1>3, ReleaseTypes DEF Abort, TypeOK
<1>4. CASE Publish(t)
  <2> DEFINE new == [i \in Ids |->
        IF i \in job[t].done THEN EntryOf(job[t].rows[i]) ELSE cache[i]]
  <2>1. ASSUME NEW i \in Ids
        PROVE  EntryOf(job[t].rows[i]) \in Entries \cup {None}
    <3>1. job[t].rows[i] \in Records \cup {None}
      BY DEF TypeOK, Jobs
    <3> QED
      BY <3>1, EntryFacts
  <2>2. new \in [Ids -> Entries \cup {None}]
    BY <2>1 DEF TypeOK
  <2>3. SetCache(new)
    BY <1>4 DEF Publish
  <2> HIDE DEF new
  <2> QED
    BY <1>4, <2>2, <2>3, SetCacheTypes, ReleaseTypes DEF Publish, TypeOK
<1>5. CASE PublishPruned(t)
  <2> DEFINE new == [i \in Ids |->
        IF i \in job[t].done THEN PrunedEntry(i, job[t].rows[i]) ELSE cache[i]]
  <2>1. new \in [Ids -> Entries \cup {None}]
    <3>1. ASSUME NEW i \in job[t].done
          PROVE  PrunedEntry(i, job[t].rows[i]) \in Entries \cup {None}
      <4>0. i \in Ids
        BY DEF TypeOK, Jobs
      <4> DEFINE r == job[t].rows[i]
      <4>1. r \in Records \cup {None}
        BY <4>0 DEF TypeOK, Jobs
      <4>2. CASE cache[i] = None
        BY <4>1, <4>2, EntryFacts DEF PrunedEntry
      <4>3. CASE cache[i] # None
        <5>1. r \in Records
          BY <1>5, <3>1, <4>1 DEF PublishPruned, JobsFit, Fits, PruneFits, Writes
        <5>2. CamOf(r) \in CamValues
          BY <5>1 DEF CamOf, EffectiveCam, CamValues, Records
        <5>3. r.rooms \in RoomScopes /\ cache[i] \in Entries
          BY <4>0, <4>3, <5>1 DEF Records, TypeOK
        <5> HIDE DEF r
        <5> QED
          BY <4>3, <5>2, <5>3 DEF PrunedEntry, Entries, r
      <4> QED
        BY <4>2, <4>3
    <3> QED
      BY <3>1 DEF TypeOK
  <2>2. SetCache(new)
    BY <1>5 DEF PublishPruned
  <2> HIDE DEF new
  <2>3. lock' \in Threads \cup {None} /\ job' \in [Threads -> Jobs]
    <3>1. CASE job[t].todo = {}
      BY <1>5, <3>1, ReleaseTypes DEF PublishPruned
    <3>2. CASE job[t].todo # {}
      BY <1>5, <3>2 DEF PublishPruned, TypeOK, Jobs
    <3> QED
      BY <3>1, <3>2
  <2> QED
    BY <1>5, <2>1, <2>2, <2>3, SetCacheTypes DEF PublishPruned, TypeOK
<1>6. CASE PublishWiped(t)
  <2>1. [i \in Ids |-> None] \in [Ids -> Entries \cup {None}]
    OBVIOUS
  <2> QED
    BY <1>6, <2>1, SetCacheTypes, ReleaseTypes DEF PublishWiped, TypeOK
<1> QED
  BY <1>1, <1>2, <1>3, <1>4, <1>5, <1>6 DEF Continue

LEMMA RestartTypes ==
    ASSUME TypeOK, Restart
    PROVE  TypeOK'
<1>1. ASSUME NEW i \in Ids
      PROVE  EntryOf(devices[i]) \in Entries \cup {None}
  BY EntryFacts DEF TypeOK
<1>2. [i \in Ids |-> EntryOf(devices[i])] \in [Ids -> Entries \cup {None}]
  BY <1>1
<1> QED
  BY <1>2, SetCacheTypes, RowTypes DEF Restart, TypeOK

-----------------------------------------------------------------------------
(* What the invariant says of a moment with the lock free, and of one with  *)
(* the lock held.                                                           *)

LEMMA LockFree ==
    ASSUME IInv, lock = None
    PROVE  /\ \A u \in Threads : /\ job[u].op \in {"idle", "factory"}
                                 /\ job[u].todo = {} /\ job[u].done = {}
           /\ \A i \in Ids : \/ cache[i] = EntryOf(devices[i])
                             \/ devices[i] = None /\ ResetPending
<1>1. ASSUME NEW u \in Threads
      PROVE  /\ job[u].op \in {"idle", "factory"}
             /\ job[u].todo = {} /\ job[u].done = {}
  BY NoneAssumption DEF IInv, JobShape, Idle
<1>2. Unpublished = {}
  BY <1>1 DEF Unpublished
<1> QED
  BY <1>1, <1>2 DEF IInv, CacheMirrors

LEMMA LockHeld ==
    ASSUME IInv, NEW t \in Threads, lock = t
    PROVE  /\ job[t].op \notin {"idle", "factory"}
           /\ \A u \in Threads \ {t} : /\ job[u].op \in {"idle", "factory"}
                                       /\ job[u].todo = {} /\ job[u].done = {}
           /\ Unpublished = job[t].done
<1>1. job[t].op \notin {"idle", "factory"}
  BY DEF IInv, JobShape
<1>2. ASSUME NEW u \in Threads \ {t}
      PROVE  /\ job[u].op \in {"idle", "factory"}
             /\ job[u].todo = {} /\ job[u].done = {}
  BY DEF IInv, JobShape, Idle
<1>3. job[t].done \subseteq Ids
  BY DEF IInv, TypeOK, Jobs
<1> QED
  BY <1>1, <1>2, <1>3 DEF Unpublished

(* A row about to be stored for a random id was drawn first; one for a     *)
(* manifest id makes no admin.                                              *)
LEMMA RowsKnown ==
    ASSUME IInv, NEW t \in Threads, NEW i \in Writes(t), job[t].rows[i] # None
    PROVE  /\ i \in FreshIds => i \in used
           /\ i \in ManifestIds => ~IsAdmin(job[t].rows[i])
<1>1. i \in Ids /\ job[t].rows[i] \in Records /\ cache[i] \in Entries \cup {None}
  BY DEF IInv, TypeOK, Jobs, Writes
<1>2. used \subseteq FreshIds
  BY DEF IInv, TypeOK
<1>3. Fits(t)
  BY DEF IInv, JobsFit
<1>4. i \in FreshIds /\ cache[i] # None => i \in used
  BY <1>1 DEF IInv, IdsKnown
<1>5. i \in ManifestIds => ~IsAdmin(cache[i])
  BY <1>1 DEF IInv, IdsKnown
<1>6. CASE job[t].op = "enroll"
  BY <1>2, <1>3, <1>6, IdsAssumption DEF Fits, EnrollFits
<1>7. CASE job[t].op = "replace"
  BY <1>2, <1>3, <1>7, IdsAssumption DEF Fits, ReplaceFits
<1>8. CASE job[t].op = "update"
  BY <1>3, <1>4, <1>8 DEF Fits, UpdateFits
<1>9. CASE job[t].op = "ensure"
  BY <1>3, <1>9, IdsAssumption DEF Fits, EnsureFits
<1>10. CASE job[t].op = "prune"
  BY <1>3, <1>4, <1>5, <1>10 DEF Fits, PruneFits, IsAdmin
<1>11. CASE job[t].op \in {"delete", "leave", "wipe"}
  BY <1>1, <1>3, <1>11 DEF Fits, DeleteFits
<1>12. CASE job[t].op \in {"idle", "factory"}
  BY <1>12 DEF IInv, JobShape, Writes, Idle
<1>13. job[t].op \in Ops
  BY DEF IInv, TypeOK, Jobs
<1> QED
  BY <1>6, <1>7, <1>8, <1>9, <1>10, <1>11, <1>12, <1>13 DEF Ops

-----------------------------------------------------------------------------
(* The calls start in a state they fit *)

LEMMA AcquireKeeps ==
    ASSUME IInv, TypeOK', NEW t \in Threads,
           NEW op \in Ops \ {"idle", "factory"},
           NEW rows \in [Ids -> Records \cup {None}], NEW todo \in SUBSET Ids,
           Acquire(t, op, rows, todo),
           UNCHANGED <<devices, cache, dead, stale>>, used \subseteq used',
           Fits(t)',
           \A p \in dead : p[1] \in FreshIds /\ p[1] \in todo /\ rows[p[1]] # None
                => rows[p[1]].ver > p[2]
    PROVE  IInv'
<1>1. /\ job[t] = Idle
      /\ job'[t] = [op |-> op, rows |-> rows, todo |-> todo, done |-> {}]
      /\ \A u \in Threads \ {t} : job'[u] = job[u]
      /\ lock = None /\ lock' = t
  BY DEF IInv, TypeOK, Acquire
<1>2. \A u \in Threads : /\ job[u].op \in {"idle", "factory"}
                         /\ job[u].todo = {} /\ job[u].done = {}
  BY <1>1, LockFree
<1>3. JobShape'
  BY <1>1, <1>2, NoneAssumption DEF IInv, JobShape
<1>4. DoneStored'
  BY <1>1, <1>2 DEF DoneStored
<1>5. JobsFit'
  <2>1. ASSUME NEW u \in Threads \ {t}
        PROVE  Fits(u)'
    BY <1>1, <1>2 DEF Fits, EnrollFits, ReplaceFits, UpdateFits, EnsureFits,
      DeleteFits, WipeFits, PruneFits
  <2> QED
    BY <2>1 DEF JobsFit
<1>6. IdsKnown'
  BY DEF IInv, IdsKnown
<1>7. CacheMirrors'
  <2>1. Unpublished' = {} /\ Unpublished = {}
    BY <1>1, <1>2 DEF Unpublished
  <2>2. ResetPending => ResetPending'
    BY <1>1 DEF ResetPending, Idle
  <2> QED
    BY <2>1, <2>2 DEF IInv, CacheMirrors
<1>8. AtMostOneAdmin(cache)'
  BY DEF IInv, AtMostOneAdmin
<1>9. DeadBehind'
  BY <1>1, <1>2 DEF IInv, DeadBehind, Writes
<1> QED
  BY <1>3, <1>4, <1>5, <1>6, <1>7, <1>8, <1>9 DEF IInv

(* A fresh id that was never drawn has no record, no entry, no dead token. *)
LEMMA UnusedIsNew ==
    ASSUME IInv, NEW i \in FreshIds \ used
    PROVE  /\ devices[i] = None /\ cache[i] = None
           /\ \A p \in dead : p[1] # i
BY DEF IInv, IdsKnown, DeadBehind, Ids

LEMMA EnrollKeeps ==
    ASSUME IInv, TypeOK', NEW t \in Threads, NEW i \in Ids, NEW role \in Roles,
           NEW rooms \in RoomScopes, NEW cam \in CamChoices,
           EnrollDevice(t, i, role, rooms, cam)
    PROVE  IInv'
<1> DEFINE r == [role |-> role, rooms |-> rooms, cam |-> cam, ver |-> 1]
           row == Row(i, r)
<1>1. r \in Records
  BY CamAssumption DEF Records
<1>2. row \in [Ids -> Records \cup {None}] /\ row[i] = r
  BY <1>1 DEF Row, NoRows
<1>3. /\ i \in FreshIds \ used /\ used' = used \cup {i}
      /\ r.role = "admin" => ~HasAdmin
      /\ Acquire(t, "enroll", row, {i})
      /\ UNCHANGED <<devices, cache, dead, stale>>
  BY DEF EnrollDevice
<1> HIDE DEF r, row
<1>4. cache[i] = None /\ \A p \in dead : p[1] # i
  BY <1>3, UnusedIsNew
<1>5. job'[t].op = "enroll" /\ job'[t].rows = row /\ Writes(t)' = {i}
  BY <1>3 DEF IInv, TypeOK, Acquire, Writes
<1>6. r # None /\ (IsAdmin(r) => ~HasAdmin)
  BY <1>1, <1>3, NoneAssumption DEF IsAdmin
<1>7. EnrollFits(t)'
  BY <1>2, <1>3, <1>4, <1>5, <1>6 DEF EnrollFits, HasAdmin, IsAdmin
<1>8. Fits(t)'
  BY <1>5, <1>7 DEF Fits, ReplaceFits, UpdateFits, EnsureFits, DeleteFits,
    WipeFits, PruneFits
<1> QED
  BY <1>2, <1>3, <1>4, <1>8, AcquireKeeps DEF Ops

LEMMA EnsureKeeps ==
    ASSUME IInv, TypeOK', NEW t \in Threads, NEW i \in Ids, NEW role \in Roles,
           NEW rooms \in RoomScopes, NEW cam \in CamChoices,
           EnsureEnrolled(t, i, role, rooms, cam)
    PROVE  IInv'
<1> DEFINE v == IF devices[i] = None THEN 1 ELSE devices[i].ver + 1
           r == [role |-> role, rooms |-> rooms, cam |-> cam, ver |-> v]
           row == Row(i, r)
<1>1. v \in Nat
  BY DEF IInv, TypeOK, Records
<1> HIDE DEF v
<1>2. r \in Records /\ r.role = role
  BY <1>1, CamAssumption DEF Records
<1> HIDE DEF r
<1>3. row \in [Ids -> Records \cup {None}] /\ row[i] = r
  BY <1>2 DEF Row, NoRows
<1>4. /\ i \in ManifestIds /\ role # "admin"
      /\ Acquire(t, "ensure", row, {i})
      /\ UNCHANGED <<devices, cache, used, dead, stale>>
  BY DEF EnsureEnrolled, r, v
<1> HIDE DEF row
<1>5. job'[t].op = "ensure" /\ job'[t].rows = row /\ Writes(t)' = {i}
  BY <1>4 DEF IInv, TypeOK, Acquire, Writes
<1>6. EnsureFits(t)'
  BY <1>2, <1>3, <1>4, <1>5, NoneAssumption DEF EnsureFits, IsAdmin
<1>7. Fits(t)'
  BY <1>5, <1>6 DEF Fits, ReplaceFits, UpdateFits, EnrollFits, DeleteFits,
    WipeFits, PruneFits
<1> QED
  BY <1>3, <1>4, <1>7, AcquireKeeps, IdsAssumption DEF Ops

LEMMA ReplaceKeeps ==
    ASSUME IInv, TypeOK', NEW t \in Threads, NEW i \in Ids, NEW old \in Ids,
           ReplaceAdmin(t, i, old)
    PROVE  IInv'
<1> DEFINE r == [role |-> "admin", rooms |-> None, cam |-> None, ver |-> 1]
           row == Row(i, r)
<1>1. r \in Records /\ r.role = "admin"
  BY DEF Records, Roles, RoomScopes
<1>2. /\ i \in FreshIds \ used /\ used' = used \cup {i}
      /\ IsAdmin(cache[old])
      /\ Acquire(t, "replace", row, {i, old})
      /\ UNCHANGED <<devices, cache, dead, stale>>
  BY DEF ReplaceAdmin
<1> HIDE DEF r
<1>3. cache[i] = None /\ \A p \in dead : p[1] # i
  BY <1>2, UnusedIsNew
<1>4. i # old
  BY <1>2, <1>3 DEF IsAdmin
<1>5. row \in [Ids -> Records \cup {None}] /\ row[i] = r /\ row[old] = None
  BY <1>1, <1>4 DEF Row, NoRows
<1> HIDE DEF row
<1>6. job'[t].op = "replace" /\ job'[t].rows = row /\ Writes(t)' = {i, old}
  BY <1>2 DEF IInv, TypeOK, Acquire, Writes
<1>7. IsAdmin(r)
  BY <1>1, NoneAssumption DEF IsAdmin
<1>8. ReplaceFits(t)'
  <2>1. /\ i \in used' /\ cache'[i] = None /\ IsAdmin(job'[t].rows[i])
        /\ IsAdmin(cache'[old]) /\ job'[t].rows[old] = None
    BY <1>2, <1>3, <1>5, <1>6, <1>7
  <2> QED
    BY <1>6, <2>1 DEF ReplaceFits, IsAdmin
<1>9. Fits(t)'
  BY <1>6, <1>8 DEF Fits, EnrollFits, UpdateFits, EnsureFits, DeleteFits,
    WipeFits, PruneFits
<1> QED
  BY <1>2, <1>3, <1>5, <1>9, AcquireKeeps DEF Ops

(* A stored record has the cache entry it resolves to while the lock is free. *)
LEMMA StoredIsCached ==
    ASSUME IInv, lock = None, NEW i \in Ids, devices[i] # None
    PROVE  /\ devices[i] \in Records
           /\ cache[i] = EntryOf(devices[i])
           /\ cache[i] # None
           /\ cache[i].role = devices[i].role
           /\ cache[i].rooms = devices[i].rooms
           /\ cache[i].ver = devices[i].ver
           /\ cache[i].cam = CamOf(devices[i])
           /\ IsAdmin(cache[i]) <=> IsAdmin(devices[i])
<1>1. devices[i] \in Records
  BY DEF IInv, TypeOK
<1>2. cache[i] = EntryOf(devices[i])
  BY LockFree
<1> QED
  BY <1>1, <1>2, EntryFacts

LEMMA UpdateKeeps ==
    ASSUME IInv, TypeOK', NEW t \in Threads, NEW i \in Ids, NEW role \in Roles,
           NEW rooms \in RoomScopes, NEW cam \in CamChoices,
           UpdateDevice(t, i, role, rooms, cam)
    PROVE  IInv'
<1> DEFINE v == devices[i].ver + 1
           r == [role |-> role, rooms |-> rooms, cam |-> cam, ver |-> v]
           row == Row(i, r)
<1>1. /\ devices[i] # None /\ ~IsAdmin(devices[i]) /\ role # "admin"
      /\ Acquire(t, "update", row, {i})
      /\ UNCHANGED <<devices, cache, used, dead, stale>>
  BY DEF UpdateDevice
<1>2. lock = None
  BY <1>1 DEF IInv, TypeOK, Acquire, Writes
<1>3. /\ devices[i] \in Records /\ cache[i] # None
      /\ cache[i].ver = devices[i].ver /\ ~IsAdmin(cache[i])
  BY <1>1, <1>2, StoredIsCached
<1>4. v \in Nat /\ v > devices[i].ver
  BY <1>3 DEF Records
<1> HIDE DEF v
<1>5. r \in Records /\ r.role = role /\ r.ver = v
  BY <1>4, CamAssumption DEF Records
<1> HIDE DEF r
<1>6. row \in [Ids -> Records \cup {None}] /\ row[i] = r
  BY <1>5 DEF Row, NoRows
<1> HIDE DEF row
<1>7. job'[t].op = "update" /\ job'[t].rows = row /\ Writes(t)' = {i}
  BY <1>1 DEF IInv, TypeOK, Acquire, Writes
<1>8. r # None /\ ~IsAdmin(r)
  BY <1>1, <1>5, NoneAssumption DEF IsAdmin
<1>9. UpdateFits(t)'
  BY <1>1, <1>3, <1>4, <1>5, <1>6, <1>7, <1>8 DEF UpdateFits, IsAdmin
<1>10. Fits(t)'
  BY <1>7, <1>9 DEF Fits, EnrollFits, ReplaceFits, EnsureFits, DeleteFits,
    WipeFits, PruneFits
<1>11. \A p \in dead : p[1] \in FreshIds /\ p[1] \in {i} /\ row[p[1]] # None
         => row[p[1]].ver > p[2]
  <2>1. ASSUME NEW p \in dead, p[1] = i, i \in FreshIds
        PROVE  v > p[2]
    <3>1. devices[i].ver > p[2]
      BY <1>1, <2>1 DEF IInv, DeadBehind
    <3>2. p[2] \in Nat /\ devices[i].ver \in Nat
      BY <1>3 DEF IInv, TypeOK, Records
    <3> QED
      BY <1>4, <3>1, <3>2
  <2> QED
    BY <1>5, <1>6, <2>1
<1> QED
  BY <1>1, <1>6, <1>10, <1>11, AcquireKeeps DEF Ops

LEMMA PruneKeeps ==
    ASSUME IInv, TypeOK', NEW t \in Threads, NEW known \in SUBSET Rooms,
           PruneRooms(t, known)
    PROVE  IInv'
<1> DEFINE scoped == {i \in Ids : devices[i] # None /\ devices[i].rooms # None}
           pruned == [i \in Ids |->
             IF i \in scoped
             THEN [devices[i] EXCEPT !.rooms = devices[i].rooms \cap known]
             ELSE devices[i]]
           changed == {i \in Ids : pruned[i] # devices[i]}
<1>1. /\ Acquire(t, "prune", pruned, changed)
      /\ UNCHANGED <<devices, cache, used, dead, stale>>
  BY DEF PruneRooms
<1>2. lock = None
  BY <1>1 DEF IInv, TypeOK, Acquire, Writes
<1>3. ASSUME NEW i \in scoped
      PROVE  /\ pruned[i] \in Records
             /\ pruned[i].role = devices[i].role
             /\ pruned[i].ver = devices[i].ver
             /\ pruned[i].cam = devices[i].cam
             /\ pruned[i].rooms = devices[i].rooms \cap known
             /\ devices[i].rooms \in SUBSET Rooms
  BY <1>3 DEF IInv, TypeOK, Records, RoomScopes
<1>4. changed \subseteq scoped
  OBVIOUS
<1>5. pruned \in [Ids -> Records \cup {None}]
  BY <1>3 DEF IInv, TypeOK
<1>6. \A i \in scoped : i \in Ids /\ devices[i] # None
  OBVIOUS
<1> HIDE DEF pruned, changed, scoped
<1>7. job'[t].op = "prune" /\ job'[t].rows = pruned /\ Writes(t)' = changed
  BY <1>1 DEF IInv, TypeOK, Acquire, Writes
<1>8. ASSUME NEW i \in changed
      PROVE  /\ cache'[i] # None
             /\ job'[t].rows[i] # None
             /\ job'[t].rows[i].role = cache'[i].role
             /\ job'[t].rows[i].ver = cache'[i].ver
             /\ job'[t].rows[i].rooms # None
             /\ Narrower(job'[t].rows[i].rooms, cache'[i].rooms)
             /\ CamOf(job'[t].rows[i]) = cache'[i].cam
  <2>1. i \in Ids /\ devices[i] # None
    BY <1>4, <1>6
  <2>2. /\ cache[i] # None /\ cache[i].role = devices[i].role
        /\ cache[i].rooms = devices[i].rooms /\ cache[i].ver = devices[i].ver
        /\ cache[i].cam = CamOf(devices[i])
    BY <1>2, <2>1, StoredIsCached
  <2>3. pruned[i].rooms \in SUBSET Rooms /\ pruned[i].rooms \subseteq cache[i].rooms
    BY <1>3, <1>4, <2>2
  <2>4. pruned[i].rooms # None
    BY <2>3, NoneAssumption
  <2>5. CamOf(pruned[i]) = CamOf(devices[i])
    BY <1>3, <1>4, <2>4, NoneAssumption DEF CamOf, EffectiveCam
  <2> QED
    BY <1>1, <1>3, <1>4, <1>7, <2>2, <2>3, <2>4, <2>5, NoneAssumption DEF Narrower
<1>9. PruneFits(t)'
  BY <1>7, <1>8 DEF PruneFits, Narrower, CamOf, EffectiveCam
<1>10. Fits(t)'
  BY <1>7, <1>9 DEF Fits, EnrollFits, ReplaceFits, EnsureFits, DeleteFits,
    WipeFits, UpdateFits
<1>11. changed \in SUBSET Ids
  BY <1>4, <1>6
<1>12. \A p \in dead : p[1] \in FreshIds /\ p[1] \in changed /\ pruned[p[1]] # None
         => pruned[p[1]].ver > p[2]
  BY <1>3, <1>4, <1>6 DEF IInv, DeadBehind
<1> QED
  BY <1>1, <1>5, <1>10, <1>11, <1>12, AcquireKeeps DEF Ops

LEMMA RemovalKeeps ==
    ASSUME IInv, TypeOK', NEW t \in Threads, NEW i \in Ids,
           DeleteDevice(t, i) \/ LeaveHub(t, i)
    PROVE  IInv'
<1>1. PICK op \in {"delete", "leave"} : Acquire(t, op, NoRows, {i})
  BY DEF DeleteDevice, LeaveHub
<1>2. UNCHANGED <<devices, cache, used, dead, stale>>
  BY DEF DeleteDevice, LeaveHub
<1>3. job'[t].op = op /\ job'[t].rows = NoRows
  BY <1>1 DEF IInv, TypeOK, Acquire, Writes
<1>4. Fits(t)'
  BY <1>1, <1>3 DEF Fits, EnrollFits, ReplaceFits, EnsureFits, DeleteFits,
    WipeFits, UpdateFits, PruneFits, NoRows
<1>5. \A j \in Ids : NoRows[j] = None
  BY DEF NoRows
<1>6. \A p \in dead : p[1] \in FreshIds /\ p[1] \in {i} /\ NoRows[p[1]] # None
         => NoRows[p[1]].ver > p[2]
  BY <1>5
<1> QED
  BY <1>1, <1>2, <1>4, <1>6, RowTypes, AcquireKeeps DEF Ops

LEMMA WipeKeeps ==
    ASSUME IInv, TypeOK', NEW t \in Threads, WipeAllDevices(t)
    PROVE  IInv'
<1> DEFINE all == {i \in Ids : devices[i] # None}
<1>1. /\ Acquire(t, "wipe", NoRows, all)
      /\ UNCHANGED <<devices, cache, used, dead, stale>>
  BY DEF WipeAllDevices
<1>2. /\ job'[t].op = "wipe" /\ job'[t].rows = NoRows /\ job'[t].todo = all
  BY <1>1 DEF IInv, TypeOK, Acquire, Writes
<1>3. Fits(t)'
  BY <1>1, <1>2 DEF Fits, EnrollFits, ReplaceFits, EnsureFits, DeleteFits,
    WipeFits, UpdateFits, PruneFits, NoRows
<1>4. \A p \in dead : p[1] \in FreshIds /\ p[1] \in all /\ NoRows[p[1]] # None
         => NoRows[p[1]].ver > p[2]
  BY DEF NoRows
<1>5. all \in SUBSET Ids
  OBVIOUS
<1> QED
  BY <1>1, <1>3, <1>4, <1>5, RowTypes, AcquireKeeps DEF Ops

LEMMA FactoryClearKeeps ==
    ASSUME IInv, TypeOK', NEW t \in Threads, FactoryClear(t)
    PROVE  IInv'
<1>1. /\ job[t] = Idle /\ job[t].todo = {} /\ job[t].done = {}
      /\ job'[t].op = "factory" /\ job'[t].todo = {} /\ job'[t].done = {}
      /\ \A u \in Threads \ {t} : job'[u] = job[u]
      /\ devices' = NoRows
      /\ UNCHANGED <<cache, lock, used, dead, stale>>
  BY DEF FactoryClear, IInv, TypeOK, Jobs, Idle
<1>2. ResetPending' /\ \A i \in Ids : devices'[i] = None
  BY <1>1 DEF ResetPending, NoRows
<1>3. lock # t
  BY <1>1 DEF IInv, JobShape, Idle
<1>4. JobShape'
  BY <1>1, <1>3 DEF IInv, JobShape
<1>5. DoneStored'
  BY <1>1, <1>2 DEF IInv, DoneStored, TypeOK, Jobs
<1>6. JobsFit'
  <2>1. Fits(t)'
    BY <1>1 DEF Fits, EnrollFits, ReplaceFits, UpdateFits, EnsureFits,
      DeleteFits, WipeFits, PruneFits
  <2>2. ASSUME NEW u \in Threads \ {t}
        PROVE  Fits(u)'
    BY <1>1, <1>2 DEF IInv, JobsFit, Fits, EnrollFits, ReplaceFits, UpdateFits,
      EnsureFits, DeleteFits, WipeFits, PruneFits, Writes, HasAdmin, Narrower,
      CamOf, EffectiveCam
  <2> QED
    BY <2>1, <2>2 DEF JobsFit
<1>7. IdsKnown'
  BY <1>1, <1>2 DEF IInv, IdsKnown, IsAdmin
<1>8. CacheMirrors'
  BY <1>2 DEF CacheMirrors
<1>9. AtMostOneAdmin(cache)'
  BY <1>1 DEF IInv, AtMostOneAdmin
<1>10. DeadBehind'
  <2>1. \A u \in Threads : Writes(u)' = Writes(u) /\ (Writes(u) # {} =>
          job'[u].rows = job[u].rows)
    BY <1>1 DEF Writes
  <2> QED
    BY <1>1, <1>2, <2>1 DEF IInv, DeadBehind, TypeOK, Ids
<1> QED
  BY <1>4, <1>5, <1>6, <1>7, <1>8, <1>9, <1>10 DEF IInv

LEMMA FactoryWipeKeeps ==
    ASSUME IInv, TypeOK', NEW t \in Threads, FactoryWipe(t)
    PROVE  IInv'
<1>1. /\ job[t].op = "factory" /\ lock = None /\ lock' = t
      /\ job'[t] = [op |-> "wipe", rows |-> NoRows, done |-> {},
                    todo |-> {i \in Ids : devices[i] # None}]
      /\ \A u \in Threads \ {t} : job'[u] = job[u]
      /\ UNCHANGED <<devices, cache, used, dead, stale>>
  BY DEF FactoryWipe, IInv, TypeOK
<1>2. \A u \in Threads : /\ job[u].op \in {"idle", "factory"}
                         /\ job[u].todo = {} /\ job[u].done = {}
  BY <1>1, LockFree
<1>3. JobShape'
  BY <1>1, <1>2 DEF IInv, JobShape, Loops
<1>4. DoneStored'
  BY <1>1, <1>2 DEF DoneStored
<1>5. JobsFit'
  <2>1. Fits(t)'
    BY <1>1 DEF Fits, EnrollFits, ReplaceFits, UpdateFits, EnsureFits,
      DeleteFits, WipeFits, PruneFits, NoRows
  <2>2. ASSUME NEW u \in Threads \ {t}
        PROVE  Fits(u)'
    BY <1>1, <1>2 DEF Fits, EnrollFits, ReplaceFits, UpdateFits, EnsureFits,
      DeleteFits, WipeFits, PruneFits
  <2> QED
    BY <2>1, <2>2 DEF JobsFit
<1>6. IdsKnown'
  BY <1>1 DEF IInv, IdsKnown
<1>7. CacheMirrors'
  <2>1. Unpublished' = {} /\ Unpublished = {} /\ ResetPending'
    BY <1>1, <1>2 DEF Unpublished, ResetPending
  <2> QED
    BY <1>1, <2>1 DEF IInv, CacheMirrors
<1>8. AtMostOneAdmin(cache)'
  BY <1>1 DEF IInv, AtMostOneAdmin
<1>9. DeadBehind'
  <2>1. \A u \in Threads \ {t} : Writes(u)' = {}
    BY <1>1, <1>2 DEF Writes
  <2>2. \A i \in Ids : job'[t].rows[i] = None
    BY <1>1 DEF NoRows
  <2> QED
    BY <1>1, <2>1, <2>2 DEF IInv, DeadBehind, Ids
<1> QED
  BY <1>3, <1>4, <1>5, <1>6, <1>7, <1>8, <1>9 DEF IInv

LEMMA CommitKeeps ==
    ASSUME IInv, TypeOK', NEW t \in Threads, Commit(t)
    PROVE  IInv'
<1>1. PICK batch \in Batches(t) :
        /\ devices' = [i \in Ids |->
             IF i \in batch THEN job[t].rows[i] ELSE devices[i]]
        /\ job' = [job EXCEPT ![t].todo = @ \ batch, ![t].done = @ \cup batch]
  BY DEF Commit
<1>2. /\ lock = t /\ UNCHANGED <<cache, lock, used, dead, stale>>
  BY DEF Commit, MayWrite
<1>3. batch \subseteq job[t].todo /\ (job[t].op \notin Loops => batch = job[t].todo)
  BY DEF Batches
<1>4. /\ job'[t].op = job[t].op /\ job'[t].rows = job[t].rows
      /\ job'[t].todo = job[t].todo \ batch
      /\ job'[t].done = job[t].done \cup batch
      /\ \A u \in Threads \ {t} : job'[u] = job[u]
  BY <1>1 DEF IInv, TypeOK, Jobs
<1>5. \A i \in Ids : devices'[i] = IF i \in batch THEN job[t].rows[i] ELSE devices[i]
  BY <1>1
<1>6. \A u \in Threads : Writes(u)' = Writes(u) /\ job'[u].rows = job[u].rows
                          /\ job'[u].op = job[u].op
  BY <1>3, <1>4 DEF Writes
<1>7. ResetPending' <=> ResetPending
  BY <1>2, <1>6 DEF ResetPending
<1>8. JobShape'
  BY <1>2, <1>3, <1>4, LockHeld DEF IInv, JobShape
<1>9. DoneStored'
  <2>1. ASSUME NEW i \in job'[t].done
        PROVE  \/ devices'[i] = job'[t].rows[i]
               \/ devices'[i] = None /\ ResetPending'
    <3>1. i \in Ids
      BY <2>1 DEF TypeOK, Jobs
    <3> QED
      BY <1>4, <1>5, <1>7, <2>1, <3>1 DEF IInv, DoneStored
  <2>2. \A u \in Threads \ {t} : job'[u].done = {}
    BY <1>2, <1>4, LockHeld
  <2> QED
    BY <2>1, <2>2 DEF DoneStored
<1>10. JobsFit'
  <2>1. ASSUME NEW u \in Threads
        PROVE  WipeFits(u)'
    <3>1. CASE u = t
      <4>1. job[t].op = "wipe" => \A i \in Ids : job[t].rows[i] = None
        BY DEF IInv, JobsFit, Fits, DeleteFits
      <4>2. WipeFits(t)
        BY DEF IInv, JobsFit, Fits
      <4> QED
        BY <1>4, <1>5, <3>1, <4>1, <4>2 DEF WipeFits
    <3>2. CASE u # t
      BY <1>2, <1>4, <3>2, LockHeld DEF WipeFits
    <3> QED
      BY <3>1, <3>2
  <2>2. ASSUME NEW u \in Threads
        PROVE  Fits(u)'
    BY <1>2, <1>6, <2>1 DEF IInv, JobsFit, Fits, EnrollFits, ReplaceFits,
      UpdateFits, EnsureFits, DeleteFits, PruneFits, HasAdmin, Narrower, CamOf,
      EffectiveCam
  <2> QED
    BY <2>2 DEF JobsFit
<1>11. IdsKnown'
  <2>1. ASSUME NEW i \in batch, job[t].rows[i] # None
        PROVE  /\ i \in FreshIds => i \in used
               /\ i \in ManifestIds => ~IsAdmin(job[t].rows[i])
    BY <1>3, <2>1, RowsKnown DEF Writes
  <2> QED
    BY <1>2, <1>5, <2>1 DEF IInv, IdsKnown, IsAdmin
<1>12. CacheMirrors'
  <2>1. Unpublished = job[t].done /\ Unpublished' = job[t].done \cup batch
    <3>1. \A u \in Threads \ {t} : job'[u].done = {}
      BY <1>2, <1>4, LockHeld
    <3>2. job'[t].done \subseteq Ids
      BY DEF TypeOK, Jobs
    <3> QED
      BY <1>2, <1>4, <3>1, <3>2, LockHeld DEF Unpublished
  <2> QED
    BY <1>2, <1>5, <1>7, <2>1 DEF IInv, CacheMirrors
<1>13. AtMostOneAdmin(cache)'
  BY <1>2 DEF IInv, AtMostOneAdmin
<1>14. DeadBehind'
  <2>1. ASSUME NEW p \in dead, p[1] \in FreshIds, devices'[p[1]] # None
        PROVE  devices'[p[1]].ver > p[2]
    <3>1. p[1] \in Ids
      BY <2>1 DEF Ids
    <3>2. CASE p[1] \in batch
      BY <1>3, <1>5, <2>1, <3>1, <3>2 DEF IInv, DeadBehind, Writes
    <3>3. CASE p[1] \notin batch
      BY <1>5, <2>1, <3>1, <3>3 DEF IInv, DeadBehind
    <3> QED
      BY <3>2, <3>3
  <2> QED
    BY <1>2, <1>6, <2>1 DEF IInv, DeadBehind
<1> QED
  BY <1>8, <1>9, <1>10, <1>11, <1>12, <1>13, <1>14 DEF IInv

(* The call of thread t is over: the lock is free, no call is in flight.    *)
LEMMA ReleaseFits ==
    ASSUME IInv, TypeOK', NEW t \in Threads, lock = t, Release(t)
    PROVE  /\ JobShape' /\ JobsFit' /\ DoneStored' /\ Unpublished' = {}
           /\ job'[t].op = "idle"
           /\ \A u \in Threads \ {t} : job'[u] = job[u]
           /\ \A u \in Threads : Writes(u)' = {}
<1>1. /\ lock' = None /\ job'[t] = Idle
      /\ \A u \in Threads \ {t} : job'[u] = job[u]
  BY DEF Release, IInv, TypeOK
<1>2. \A u \in Threads : /\ job'[u].op \in {"idle", "factory"}
                         /\ job'[u].todo = {} /\ job'[u].done = {}
  BY <1>1, LockHeld DEF Idle
<1>3. JobShape'
  BY <1>1, <1>2, NoneAssumption DEF IInv, JobShape
<1>4. JobsFit'
  BY <1>2 DEF JobsFit, Fits, EnrollFits, ReplaceFits, UpdateFits, EnsureFits,
    DeleteFits, WipeFits, PruneFits
<1>5. DoneStored' /\ Unpublished' = {}
  BY <1>2 DEF DoneStored, Unpublished
<1> QED
  BY <1>1, <1>2, <1>3, <1>4, <1>5 DEF Writes, Idle

LEMMA AbortKeeps ==
    ASSUME IInv, TypeOK', NEW t \in Threads, Abort(t)
    PROVE  IInv'
<1>1. /\ lock = t /\ job[t].todo # {} /\ (job[t].op = "prune" => job[t].done = {})
      /\ Release(t)
      /\ stale' = (stale \/ job[t].op = "wipe")
      /\ UNCHANGED <<devices, cache, used, dead>>
  BY DEF Abort, MayWrite
<1>2. JobShape' /\ JobsFit' /\ DoneStored'
  BY <1>1, ReleaseFits
<1>3. IdsKnown'
  BY <1>1 DEF IInv, IdsKnown
<1>4. CacheMirrors'
  <2>1. ResetPending => ResetPending'
    <3>1. CASE stale \/ job[t].op = "wipe"
      <4>1. stale'
        BY <1>1, <3>1
      <4> QED
        BY <4>1 DEF ResetPending
    <3>2. CASE ~stale /\ job[t].op # "wipe"
      <4>1. job[t].op # "factory"
        BY <1>1, LockHeld
      <4>2. ASSUME NEW u \in Threads, job[u].op \in {"factory", "wipe"}
            PROVE  ResetPending'
        <5>1. u # t
          BY <3>2, <4>1, <4>2
        <5>2. job'[u].op = job[u].op
          BY <1>1, <5>1, ReleaseFits
        <5> QED
          BY <4>2, <5>2 DEF ResetPending
      <4> QED
        BY <3>2, <4>2 DEF ResetPending
    <3> QED
      BY <3>1, <3>2
  <2>2. ASSUME NEW i \in job[t].done
        PROVE  devices[i] = None /\ ResetPending'
    <3>1. job[t].op = "wipe"
      BY <1>1, <2>2 DEF IInv, JobShape, Loops
    <3>2. i \in Ids
      BY DEF IInv, TypeOK, Jobs
    <3>3. job[t].rows[i] = None
      BY <3>1, <3>2 DEF IInv, JobsFit, Fits, DeleteFits
    <3>4. devices[i] = None
      BY <2>2, <3>3 DEF IInv, DoneStored
    <3> QED
      BY <1>1, <3>1, <3>4 DEF ResetPending
  <2> QED
    BY <1>1, <2>1, <2>2, LockHeld DEF IInv, CacheMirrors
<1>5. AtMostOneAdmin(cache)'
  BY <1>1 DEF IInv, AtMostOneAdmin
<1>6. DeadBehind'
  <2>1. \A u \in Threads : Writes(u)' = {}
    BY <1>1, ReleaseFits
  <2> QED
    BY <1>1, <2>1 DEF IInv, DeadBehind
<1> QED
  BY <1>2, <1>3, <1>4, <1>5, <1>6 DEF IInv

(* A token that dies with a cache update had been accepted till then. *)
LEMMA NewlyDead ==
    ASSUME IInv, NEW new \in [Ids -> Entries \cup {None}], SetCache(new),
           NEW p \in dead' \ dead
    PROVE  /\ p[1] \in Ids /\ cache[p[1]] # None /\ p[2] = cache[p[1]].ver
           /\ new[p[1]] # None => new[p[1]].ver # p[2]
           /\ p[1] \in FreshIds => p[1] \in used
<1>1. PICK i \in {j \in Ids : cache[j] # None} : p = <<i, cache[i].ver>>
  BY DEF SetCache
<1>2. p[1] = i /\ p[2] = cache[i].ver
  BY <1>1
<1> QED
  BY <1>1, <1>2 DEF SetCache, IInv, IdsKnown

(* What a finished write leaves in the cache, for a row it wrote. *)
LEMMA PublishedRow ==
    ASSUME IInv, NEW t \in Threads, job[t].op \notin Loops, NEW i \in job[t].done
    PROVE  /\ i \in Ids
           /\ job[t].rows[i] \in Records \cup {None}
           /\ EntryOf(job[t].rows[i]) = None <=> job[t].rows[i] = None
           /\ IsAdmin(EntryOf(job[t].rows[i])) <=> IsAdmin(job[t].rows[i])
           /\ job[t].rows[i] # None => EntryOf(job[t].rows[i]).ver = job[t].rows[i].ver
           /\ devices[i] = job[t].rows[i] \/ (devices[i] = None /\ ResetPending)
<1>1. i \in Ids /\ job[t].rows[i] \in Records \cup {None}
  BY DEF IInv, TypeOK, Jobs
<1> QED
  BY <1>1, EntryFacts DEF IInv, DoneStored

LEMMA PublishKeeps ==
    ASSUME IInv, TypeOK', NEW t \in Threads, Publish(t)
    PROVE  IInv'
<1> DEFINE new == [i \in Ids |->
      IF i \in job[t].done THEN EntryOf(job[t].rows[i]) ELSE cache[i]]
<1>1. /\ lock = t /\ job[t].op \notin Loops /\ job[t].todo = {}
      /\ SetCache(new) /\ cache' = new /\ Release(t)
      /\ UNCHANGED <<devices, used, stale>>
  BY DEF Publish, SetCache
<1>2. new \in [Ids -> Entries \cup {None}]
  BY <1>1 DEF TypeOK
<1>3. \A i \in Ids : cache'[i] =
        IF i \in job[t].done THEN EntryOf(job[t].rows[i]) ELSE cache[i]
  BY <1>1
<1> HIDE DEF new
<1>4. JobShape' /\ JobsFit' /\ DoneStored' /\ Unpublished' = {}
  BY <1>1, ReleaseFits
<1>5. Fits(t) /\ Writes(t) = job[t].done
  BY <1>1 DEF IInv, JobsFit, Writes
<1>6. IdsKnown'
  <2>1. ASSUME NEW i \in job[t].done, job[t].rows[i] # None
        PROVE  /\ i \in FreshIds => i \in used
               /\ i \in ManifestIds => ~IsAdmin(job[t].rows[i])
    BY <1>5, <2>1, RowsKnown
  <2>2. ASSUME NEW i \in Ids
        PROVE  /\ i \in FreshIds /\ cache'[i] # None => i \in used
               /\ i \in ManifestIds => ~IsAdmin(cache'[i])
    <3>1. CASE i \in job[t].done
      <4>1. CASE job[t].rows[i] = None
        BY <1>3, <3>1, <4>1 DEF EntryOf, IsAdmin
      <4>2. CASE job[t].rows[i] # None
        BY <1>1, <1>3, <2>1, <3>1, <4>2, PublishedRow
      <4> QED
        BY <4>1, <4>2
    <3>2. CASE i \notin job[t].done
      BY <1>3, <3>2 DEF IInv, IdsKnown
    <3> QED
      BY <3>1, <3>2
  <2> QED
    BY <1>1, <2>2 DEF IInv, IdsKnown
<1>7. CacheMirrors'
  <2>1. ResetPending => ResetPending'
    BY <1>1, ReleaseFits DEF ResetPending, Loops, IInv, JobShape
  <2>2. ASSUME NEW i \in Ids
        PROVE  \/ cache'[i] = EntryOf(devices[i])
               \/ devices[i] = None /\ ResetPending'
    <3>1. CASE i \in job[t].done
      BY <1>1, <1>3, <2>1, <3>1, PublishedRow
    <3>2. CASE i \notin job[t].done
      BY <1>1, <1>3, <2>1, <3>2, LockHeld DEF IInv, CacheMirrors
    <3> QED
      BY <3>1, <3>2
  <2> QED
    BY <1>1, <2>2 DEF CacheMirrors
<1>8. AtMostOneAdmin(cache)'
  <2>1. ASSUME NEW i \in Ids, IsAdmin(cache'[i]), i \in job[t].done
        PROVE  job[t].op \in {"enroll", "replace"} /\ IsAdmin(job[t].rows[i])
    <3>1. IsAdmin(job[t].rows[i])
      BY <1>1, <1>3, <2>1, PublishedRow
    <3>2. job[t].op \in Ops /\ i \in Writes(t)
      BY <1>5, <2>1 DEF IInv, TypeOK, Jobs
    <3> QED
      BY <1>1, <1>5, <3>1, <3>2, <2>1, LockHeld
        DEF Fits, UpdateFits, EnsureFits, DeleteFits, Loops, Ops, IsAdmin
  <2>2. CASE job[t].op = "enroll"
    <3>1. \A i, j \in job[t].done : i = j
      BY <1>5, <2>2 DEF Fits, EnrollFits
    <3>2. \A i \in job[t].done : IsAdmin(job[t].rows[i]) => ~HasAdmin
      BY <1>5, <2>2 DEF Fits, EnrollFits
    <3> QED
      BY <1>3, <2>1, <3>1, <3>2 DEF IInv, AtMostOneAdmin, HasAdmin
  <2>3. CASE job[t].op = "replace"
    <3>1. PICK n, old \in Ids :
            /\ job[t].done = {n, old} /\ IsAdmin(cache[old])
            /\ job[t].rows[old] = None
      BY <1>5, <2>3 DEF Fits, ReplaceFits
    <3>2. ~IsAdmin(cache'[old])
      BY <1>3, <3>1 DEF EntryOf, IsAdmin
    <3>3. \A i \in Ids : IsAdmin(cache'[i]) => i = n
      <4>1. ASSUME NEW i \in Ids, IsAdmin(cache'[i]), i # n
            PROVE  FALSE
        <5>1. i # old
          BY <3>2, <4>1
        <5>2. IsAdmin(cache[i])
          BY <1>3, <3>1, <4>1, <5>1
        <5> QED
          BY <3>1, <5>1, <5>2 DEF IInv, AtMostOneAdmin
      <4> QED
        BY <4>1
    <3> QED
      BY <3>3 DEF AtMostOneAdmin
  <2>4. CASE job[t].op \notin {"enroll", "replace"}
    <3>1. \A i \in Ids : IsAdmin(cache'[i]) => IsAdmin(cache[i])
      BY <1>3, <2>1, <2>4
    <3> QED
      BY <3>1 DEF IInv, AtMostOneAdmin
  <2> QED
    BY <2>2, <2>3, <2>4
<1>9. DeadBehind'
  <2>1. \A u \in Threads : Writes(u)' = {}
    BY <1>1, ReleaseFits
  <2>2. ASSUME NEW p \in dead', p[1] \in FreshIds
        PROVE  /\ p[1] \in used
               /\ cache'[p[1]] # None => cache'[p[1]].ver > p[2]
               /\ devices[p[1]] # None => devices[p[1]].ver > p[2]
    <3>0. p[1] \in Ids
      BY <2>2 DEF Ids
    <3>1. CASE p \in dead
      <4>1. CASE p[1] \in job[t].done
        BY <1>1, <1>3, <1>5, <2>2, <3>0, <3>1, <4>1, PublishedRow
          DEF IInv, DeadBehind
      <4>2. CASE p[1] \notin job[t].done
        BY <1>3, <2>2, <3>0, <3>1, <4>2 DEF IInv, DeadBehind
      <4> QED
        BY <4>1, <4>2
    <3>2. CASE p \notin dead
      <4>1. /\ cache[p[1]] # None /\ p[2] = cache[p[1]].ver /\ p[1] \in used
            /\ cache'[p[1]] # None => cache'[p[1]].ver # p[2]
        BY <1>1, <1>2, <2>2, <3>2, NewlyDead
      <4>2. p[1] \in job[t].done
        BY <1>3, <3>0, <4>1
      <4>3. job[t].rows[p[1]] # None => job[t].rows[p[1]].ver > p[2]
        <5>1. job[t].op \in Ops /\ p[1] \in Writes(t)
          BY <1>5, <4>2 DEF IInv, TypeOK, Jobs
        <5>2. CASE job[t].op = "enroll"
          BY <1>5, <4>1, <5>1, <5>2 DEF Fits, EnrollFits
        <5>3. CASE job[t].op = "replace"
          BY <1>5, <4>1, <5>1, <5>3 DEF Fits, ReplaceFits
        <5>4. CASE job[t].op = "update"
          BY <1>5, <4>1, <5>1, <5>4 DEF Fits, UpdateFits
        <5>5. CASE job[t].op = "ensure"
          BY <1>5, <2>2, <5>1, <5>5, IdsAssumption DEF Fits, EnsureFits
        <5>6. CASE job[t].op \in {"delete", "leave"}
          BY <1>5, <3>0, <5>6 DEF Fits, DeleteFits
        <5> QED
          BY <1>1, <5>1, <5>2, <5>3, <5>4, <5>5, <5>6, LockHeld DEF Ops, Loops
      <4> QED
        BY <1>1, <1>3, <3>0, <4>1, <4>2, <4>3, PublishedRow
    <3> QED
      BY <3>1, <3>2
  <2> QED
    BY <1>1, <2>1, <2>2 DEF DeadBehind
<1> QED
  BY <1>4, <1>6, <1>7, <1>8, <1>9 DEF IInv

(* The entry prune_rooms puts in the cache: role and version stay. *)
LEMMA PublishedPrunedRow ==
    ASSUME IInv, NEW t \in Threads, job[t].op = "prune", NEW i \in job[t].done
    PROVE  LET e == PrunedEntry(i, job[t].rows[i]) IN
           /\ i \in Ids /\ cache[i] # None /\ e # None
           /\ e.role = cache[i].role /\ e.ver = cache[i].ver
           /\ e.rooms = job[t].rows[i].rooms
           /\ Narrower(e.rooms, cache[i].rooms)
           /\ e.cam = CamOf(job[t].rows[i]) /\ e.cam = cache[i].cam
           /\ IsAdmin(e) <=> IsAdmin(cache[i])
           /\ e = EntryOf(job[t].rows[i])
<1> DEFINE r == job[t].rows[i]
           e == PrunedEntry(i, r)
<1>1. i \in Ids /\ cache[i] \in Entries \cup {None} /\ r \in Records \cup {None}
  BY DEF IInv, TypeOK, Jobs
<1>2. /\ cache[i] # None /\ r # None
      /\ r.role = cache[i].role /\ r.ver = cache[i].ver
      /\ Narrower(r.rooms, cache[i].rooms) /\ CamOf(r) = cache[i].cam
  BY DEF IInv, JobsFit, Fits, PruneFits, Writes
<1> HIDE DEF r
<1>3. e = [cache[i] EXCEPT !.rooms = r.rooms, !.cam = CamOf(r)]
  BY <1>2 DEF PrunedEntry
<1>4. cache[i] \in Entries
  BY <1>1, <1>2
<1>5. /\ e.role = cache[i].role /\ e.ver = cache[i].ver
      /\ e.rooms = r.rooms /\ e.cam = CamOf(r)
      /\ e = [role |-> r.role, rooms |-> r.rooms, cam |-> CamOf(r), ver |-> r.ver]
  BY <1>2, <1>3, <1>4 DEF Entries
<1>6. e = EntryOf(r)
  BY <1>2, <1>5 DEF EntryOf
<1>7. e # None
  BY <1>1, <1>2, <1>6, EntryFacts
<1> QED
  BY <1>1, <1>2, <1>5, <1>6, <1>7 DEF IsAdmin, r

LEMMA PublishPrunedKeeps ==
    ASSUME IInv, TypeOK', NEW t \in Threads, PublishPruned(t)
    PROVE  IInv'
<1> DEFINE new == [i \in Ids |->
      IF i \in job[t].done THEN PrunedEntry(i, job[t].rows[i]) ELSE cache[i]]
<1>1. /\ lock = t /\ job[t].op = "prune"
      /\ SetCache(new) /\ cache' = new
      /\ UNCHANGED <<devices, used, stale>>
      /\ IF job[t].todo = {} THEN Release(t)
         ELSE job' = [job EXCEPT ![t].done = {}] /\ UNCHANGED lock
  BY DEF PublishPruned, SetCache
<1>2. new \in [Ids -> Entries \cup {None}]
  BY <1>1 DEF TypeOK
<1>3. \A i \in Ids : cache'[i] = IF i \in job[t].done
        THEN PrunedEntry(i, job[t].rows[i]) ELSE cache[i]
  BY <1>1
<1> HIDE DEF new
<1>4. \A i \in Ids : /\ cache'[i] = None <=> cache[i] = None
                     /\ IsAdmin(cache'[i]) <=> IsAdmin(cache[i])
                     /\ cache[i] # None => cache'[i].role = cache[i].role
                                        /\ cache'[i].ver = cache[i].ver
  BY <1>1, <1>3, PublishedPrunedRow
<1>5. dead' = dead
  <2>1. ASSUME NEW p \in dead' \ dead
        PROVE  FALSE
    BY <1>1, <1>2, <1>4, <2>1, NewlyDead
  <2> QED
    BY <1>1, <2>1 DEF SetCache
<1>6. /\ \A u \in Threads \ {t} : job'[u] = job[u]
      /\ job'[t].done = {}
      /\ job[t].todo # {} => /\ job'[t].op = "prune" /\ job'[t].rows = job[t].rows
                            /\ job'[t].todo = job[t].todo /\ lock' = lock
      /\ job[t].todo = {} => Writes(t)' = {}
  <2>1. CASE job[t].todo = {}
    <3>1. Release(t)
      BY <1>1, <2>1
    <3> QED
      BY <1>1, <2>1, <3>1, ReleaseFits DEF Writes
  <2>2. CASE job[t].todo # {}
    BY <1>1, <2>2 DEF IInv, TypeOK, Jobs
  <2> QED
    BY <2>1, <2>2
<1>7. \A u \in Threads \ {t} : /\ job[u].op \in {"idle", "factory"}
                               /\ job[u].todo = {} /\ job[u].done = {}
  BY <1>1, LockHeld
<1>8. JobShape'
  <2>1. CASE job[t].todo = {}
    BY <1>1, <2>1, ReleaseFits
  <2>2. CASE job[t].todo # {}
    BY <1>1, <1>6, <2>2 DEF IInv, JobShape, Loops
  <2> QED
    BY <2>1, <2>2
<1>9. DoneStored'
  BY <1>6, <1>7 DEF DoneStored
<1>10. JobsFit'
  <2>1. CASE job[t].todo = {}
    BY <1>1, <2>1, ReleaseFits
  <2>2. CASE job[t].todo # {}
    <3>1. ASSUME NEW i \in job[t].todo
          PROVE  /\ cache'[i] # None
                 /\ job[t].rows[i] # None
                 /\ job[t].rows[i].role = cache'[i].role
                 /\ job[t].rows[i].ver = cache'[i].ver
                 /\ job[t].rows[i].rooms # None
                 /\ Narrower(job[t].rows[i].rooms, cache'[i].rooms)
                 /\ CamOf(job[t].rows[i]) = cache'[i].cam
      <4>1. i \in Ids
        BY DEF IInv, TypeOK, Jobs
      <4>2. /\ cache[i] # None
            /\ job[t].rows[i] # None
            /\ job[t].rows[i].role = cache[i].role
            /\ job[t].rows[i].ver = cache[i].ver
            /\ job[t].rows[i].rooms # None
            /\ Narrower(job[t].rows[i].rooms, cache[i].rooms)
            /\ CamOf(job[t].rows[i]) = cache[i].cam
        BY <1>1 DEF IInv, JobsFit, Fits, PruneFits, Writes
      <4>3. CASE i \in job[t].done
        BY <1>1, <1>3, <4>1, <4>2, <4>3, PublishedPrunedRow DEF Narrower
      <4>4. CASE i \notin job[t].done
        BY <1>3, <4>1, <4>2, <4>4
      <4> QED
        BY <4>3, <4>4
    <3>2. PruneFits(t)'
      BY <1>6, <2>2, <3>1 DEF PruneFits, Writes, Narrower, CamOf, EffectiveCam
    <3>3. Fits(t)'
      BY <1>6, <2>2, <3>2 DEF Fits, EnrollFits, ReplaceFits, UpdateFits,
        EnsureFits, DeleteFits, WipeFits
    <3>4. ASSUME NEW u \in Threads \ {t}
          PROVE  Fits(u)'
      BY <1>6, <1>7 DEF Fits, EnrollFits, ReplaceFits, UpdateFits, EnsureFits,
        DeleteFits, WipeFits, PruneFits
    <3> QED
      BY <3>3, <3>4 DEF JobsFit
  <2> QED
    BY <2>1, <2>2
<1>11. IdsKnown'
  BY <1>1, <1>4 DEF IInv, IdsKnown
<1>12. CacheMirrors'
  <2>1. ResetPending => ResetPending'
    BY <1>1, <1>6 DEF ResetPending
  <2>2. ASSUME NEW i \in Ids
        PROVE  \/ cache'[i] = EntryOf(devices[i])
               \/ devices[i] = None /\ ResetPending'
    <3>1. CASE i \in job[t].done
      <4>1. cache'[i] = EntryOf(job[t].rows[i])
        BY <1>1, <1>3, <3>1, PublishedPrunedRow
      <4> QED
        BY <2>1, <3>1, <4>1 DEF IInv, DoneStored
    <3>2. CASE i \notin job[t].done
      BY <1>1, <1>3, <2>1, <3>2, LockHeld DEF IInv, CacheMirrors
    <3> QED
      BY <3>1, <3>2
  <2> QED
    BY <1>1, <2>2 DEF CacheMirrors
<1>13. AtMostOneAdmin(cache)'
  BY <1>4 DEF IInv, AtMostOneAdmin
<1>14. DeadBehind'
  <2>1. \A u \in Threads : \A i \in Writes(u)' :
          i \in Writes(u) /\ job'[u].rows = job[u].rows
    BY <1>6, <1>7 DEF Writes
  <2> QED
    BY <1>1, <1>4, <1>5, <2>1 DEF IInv, DeadBehind, Ids
<1> QED
  BY <1>8, <1>9, <1>10, <1>11, <1>12, <1>13, <1>14 DEF IInv

LEMMA PublishWipedKeeps ==
    ASSUME IInv, TypeOK', NEW t \in Threads, PublishWiped(t)
    PROVE  IInv' /\ devices' = NoRows /\ cache' = NoRows
<1>1. /\ lock = t /\ job[t].op = "wipe" /\ job[t].todo = {}
      /\ SetCache(NoRows) /\ cache' = NoRows /\ Release(t)
      /\ UNCHANGED <<devices, used>>
  BY DEF PublishWiped, SetCache, NoRows
<1>2. \A i \in Ids : cache'[i] = None
  BY <1>1 DEF NoRows
<1>3. \A i \in Ids : devices[i] = None
  BY <1>1 DEF IInv, JobsFit, Fits, WipeFits
<1>4. JobShape' /\ JobsFit' /\ DoneStored'
  BY <1>1, ReleaseFits
<1>5. IdsKnown'
  BY <1>1, <1>2, <1>3 DEF IdsKnown, IsAdmin
<1>6. CacheMirrors'
  BY <1>1, <1>2, <1>3 DEF CacheMirrors, EntryOf
<1>7. AtMostOneAdmin(cache)'
  BY <1>2 DEF AtMostOneAdmin, IsAdmin
<1>8. DeadBehind'
  <2>1. \A u \in Threads : Writes(u)' = {}
    BY <1>1, ReleaseFits
  <2>2. \A p \in dead' : p[1] \in FreshIds => p[1] \in used
    BY <1>1, RowTypes, NewlyDead DEF IInv, DeadBehind
  <2> QED
    BY <1>1, <1>2, <1>3, <2>1, <2>2 DEF DeadBehind, Ids
<1>9. devices' = NoRows
  BY <1>1, <1>3 DEF IInv, TypeOK, NoRows
<1> QED
  BY <1>1, <1>4, <1>5, <1>6, <1>7, <1>8, <1>9 DEF IInv

(* A row is either what its cache entry was resolved from, or a written row *)
(* whose publication is due: then the version never falls.                  *)
LEMMA RowNotBehind ==
    ASSUME IInv, NEW i \in FreshIds, devices[i] # None, cache[i] # None
    PROVE  devices[i].ver >= cache[i].ver
<1>1. i \in Ids /\ devices[i] \in Records /\ cache[i] \in Entries
  BY DEF IInv, TypeOK, Ids
<1>2. CASE i \in Unpublished
  <2>1. PICK t \in Threads : i \in job[t].done
    BY <1>2 DEF Unpublished
  <2>2. /\ devices[i] = job[t].rows[i] /\ i \in Writes(t) /\ Fits(t)
        /\ job[t].op \in Ops
    BY <2>1 DEF IInv, DoneStored, Writes, JobsFit, TypeOK, Jobs
  <2>3. CASE job[t].op = "enroll"
    BY <2>2, <2>3 DEF Fits, EnrollFits
  <2>4. CASE job[t].op = "replace"
    BY <2>2, <2>4 DEF Fits, ReplaceFits
  <2>5. CASE job[t].op = "update"
    BY <1>1, <2>2, <2>5 DEF Fits, UpdateFits, Records, Entries
  <2>6. CASE job[t].op = "ensure"
    BY <2>2, <2>6, IdsAssumption DEF Fits, EnsureFits
  <2>7. CASE job[t].op = "prune"
    BY <1>1, <2>2, <2>7 DEF Fits, PruneFits, Records, Entries
  <2>8. CASE job[t].op \in {"delete", "leave", "wipe"}
    BY <1>1, <2>2, <2>8 DEF Fits, DeleteFits
  <2>9. CASE job[t].op \in {"idle", "factory"}
    BY <2>1, <2>9 DEF IInv, JobShape, Idle
  <2> QED
    BY <2>2, <2>3, <2>4, <2>5, <2>6, <2>7, <2>8, <2>9 DEF Ops
<1>3. CASE i \notin Unpublished
  <2>1. cache[i] = EntryOf(devices[i])
    BY <1>1, <1>3 DEF IInv, CacheMirrors
  <2> QED
    BY <1>1, <2>1, EntryFacts DEF Records
<1> QED
  BY <1>2, <1>3

(* The admin in the table is the one in the cache, or the one about to be   *)
(* published in its place.                                                  *)
LEMMA StoredAdmins ==
    ASSUME IInv
    PROVE  AtMostOneAdmin(devices)
<1>1. ASSUME NEW i \in Ids, IsAdmin(devices[i]), i \notin Unpublished
      PROVE  IsAdmin(cache[i])
  <2>1. devices[i] \in Records /\ devices[i] # None
    BY <1>1 DEF IInv, TypeOK, IsAdmin
  <2>2. cache[i] = EntryOf(devices[i])
    BY <1>1, <2>1 DEF IInv, CacheMirrors
  <2> QED
    BY <1>1, <2>1, <2>2, EntryFacts
<1>2. CASE lock = None
  <2>1. Unpublished = {}
    BY <1>2, LockFree DEF Unpublished
  <2> QED
    BY <1>1, <2>1 DEF IInv, AtMostOneAdmin
<1>3. ASSUME NEW t \in Threads, lock = t
      PROVE  AtMostOneAdmin(devices)
  <2>1. Unpublished = job[t].done /\ Fits(t) /\ job[t].op \in Ops
    BY <1>3, LockHeld DEF IInv, JobsFit, TypeOK, Jobs
  <2>2. \A i \in job[t].done : i \in Ids /\ i \in Writes(t)
          /\ (devices[i] = job[t].rows[i] \/ devices[i] = None)
    BY DEF IInv, DoneStored, TypeOK, Jobs, Writes
  <2>3. CASE job[t].op = "enroll"
    <3>1. \A i \in job[t].done : IsAdmin(devices[i]) => ~HasAdmin
      BY <2>1, <2>2, <2>3 DEF Fits, EnrollFits, IsAdmin
    <3>2. \A i, j \in job[t].done : i = j
      BY <2>1, <2>2, <2>3 DEF Fits, EnrollFits
    <3> QED
      BY <1>1, <2>1, <3>1, <3>2 DEF IInv, AtMostOneAdmin, HasAdmin
  <2>4. CASE job[t].op = "replace"
    <3>1. PICK n, old \in Ids :
            /\ Writes(t) = {n, old} /\ IsAdmin(cache[old])
            /\ job[t].rows[old] = None
      BY <2>1, <2>4 DEF Fits, ReplaceFits
    <3>2. CASE job[t].done = {}
      BY <1>1, <2>1, <3>2 DEF IInv, AtMostOneAdmin
    <3>3. CASE job[t].done # {}
      <4>1. job[t].done = {n, old}
        BY <2>4, <3>1, <3>3 DEF IInv, JobShape, Loops, Writes
      <4>2. ~IsAdmin(devices[old])
        BY <2>2, <3>1, <4>1 DEF IsAdmin
      <4>3. \A i \in Ids : IsAdmin(devices[i]) => i = n
        BY <1>1, <2>1, <3>1, <4>1, <4>2 DEF IInv, AtMostOneAdmin
      <4> QED
        BY <4>3 DEF AtMostOneAdmin
    <3> QED
      BY <3>2, <3>3
  <2>5. CASE job[t].op \notin {"enroll", "replace"}
    <3>1. ASSUME NEW i \in job[t].done, IsAdmin(devices[i])
          PROVE  IsAdmin(cache[i])
      <4>1. devices[i] = job[t].rows[i] /\ devices[i] # None
        BY <2>2, <3>1 DEF IsAdmin
      <4>2. job[t].op \notin {"update", "ensure", "delete", "leave", "wipe"}
        BY <2>1, <2>2, <3>1, <4>1 DEF Fits, UpdateFits, EnsureFits, DeleteFits
      <4>3. job[t].op = "prune"
        BY <1>3, <2>1, <2>5, <4>2, LockHeld DEF Ops
      <4> QED
        BY <2>1, <2>2, <3>1, <4>1, <4>3 DEF Fits, PruneFits, IsAdmin
    <3>2. \A i \in Ids : IsAdmin(devices[i]) => IsAdmin(cache[i])
      BY <1>1, <2>1, <3>1
    <3> QED
      BY <3>2 DEF IInv, AtMostOneAdmin
  <2> QED
    BY <2>3, <2>4, <2>5
<1> QED
  BY <1>2, <1>3 DEF IInv, TypeOK

(* warm_up: the cache is what the table resolves to. *)
LEMMA RestartKeeps ==
    ASSUME IInv, TypeOK', Restart
    PROVE  IInv'
<1> DEFINE new == [i \in Ids |-> EntryOf(devices[i])]
<1>1. /\ SetCache(new) /\ cache' = new
      /\ lock' = None /\ stale' = FALSE
      /\ UNCHANGED <<devices, used>>
      /\ \A t \in Threads : job'[t] = Idle
  BY DEF Restart, SetCache
<1>2. \A t \in Threads : /\ job'[t].op = "idle"
                         /\ job'[t].todo = {} /\ job'[t].done = {}
  BY <1>1 DEF Idle
<1>3. new \in [Ids -> Entries \cup {None}]
  BY <1>1 DEF TypeOK
<1>4. \A i \in Ids : /\ devices[i] \in Records \cup {None}
                     /\ cache'[i] = EntryOf(devices[i])
                     /\ cache'[i] = None <=> devices[i] = None
                     /\ IsAdmin(cache'[i]) <=> IsAdmin(devices[i])
                     /\ devices[i] # None => cache'[i].ver = devices[i].ver
  <2>1. \A i \in Ids : devices[i] \in Records \cup {None}
    BY DEF IInv, TypeOK
  <2> QED
    BY <1>1, <2>1, EntryFacts
<1> HIDE DEF new
<1>5. JobShape'
  BY <1>1, <1>2, NoneAssumption DEF JobShape
<1>6. JobsFit' /\ DoneStored'
  BY <1>2 DEF JobsFit, Fits, EnrollFits, ReplaceFits, UpdateFits, EnsureFits,
    DeleteFits, WipeFits, PruneFits, DoneStored
<1>7. IdsKnown'
  BY <1>1, <1>4 DEF IInv, IdsKnown
<1>8. CacheMirrors'
  BY <1>1, <1>4 DEF CacheMirrors
<1>9. AtMostOneAdmin(cache)'
  BY <1>4, StoredAdmins DEF AtMostOneAdmin
<1>10. DeadBehind'
  <2>1. \A t \in Threads : Writes(t)' = {}
    BY <1>2 DEF Writes
  <2>2. ASSUME NEW p \in dead', p[1] \in FreshIds
        PROVE  /\ p[1] \in used
               /\ devices[p[1]] # None => devices[p[1]].ver > p[2]
    <3>1. CASE p \in dead
      BY <2>2, <3>1 DEF IInv, DeadBehind
    <3>2. CASE p \notin dead
      <4>1. /\ p[1] \in Ids /\ cache[p[1]] # None /\ p[2] = cache[p[1]].ver
            /\ cache'[p[1]] # None => cache'[p[1]].ver # p[2]
            /\ p[1] \in used
        BY <1>1, <1>3, <2>2, <3>2, NewlyDead
      <4>2. ASSUME devices[p[1]] # None
            PROVE  devices[p[1]].ver > p[2]
        <5>1. devices[p[1]].ver >= p[2] /\ devices[p[1]].ver # p[2]
          BY <1>4, <2>2, <4>1, <4>2, RowNotBehind
        <5>2. devices[p[1]].ver \in Nat /\ p[2] \in Nat
          BY <4>1, <4>2 DEF IInv, TypeOK, Records, Entries
        <5> QED
          BY <5>1, <5>2
      <4> QED
        BY <4>1, <4>2
    <3> QED
      BY <3>1, <3>2
  <2> QED
    BY <1>1, <1>4, <2>1, <2>2 DEF DeadBehind, Ids
<1> QED
  BY <1>5, <1>6, <1>7, <1>8, <1>9, <1>10 DEF IInv

-----------------------------------------------------------------------------
(* The theorems *)

LEMMA StepTypes ==
    ASSUME IInv, Next
    PROVE  TypeOK'
BY BeginTypes, ContinueTypes, RestartTypes DEF Next, IInv

LEMMA StepKeeps ==
    ASSUME IInv, Next
    PROVE  IInv'
<1>1. CASE Restart
  BY <1>1, StepTypes, RestartKeeps
<1>2. ASSUME NEW t \in Threads, Begin(t)
      PROVE  IInv'
  BY <1>2, StepTypes, EnrollKeeps, EnsureKeeps, UpdateKeeps, ReplaceKeeps,
    PruneKeeps, RemovalKeeps, WipeKeeps, FactoryClearKeeps DEF Begin
<1>3. ASSUME NEW t \in Threads, Continue(t)
      PROVE  IInv'
  BY <1>3, StepTypes, FactoryWipeKeeps, CommitKeeps, AbortKeeps, PublishKeeps,
    PublishPrunedKeeps, PublishWipedKeeps DEF Continue
<1> QED
  BY <1>1, <1>2, <1>3 DEF Next

LEMMA InitKeeps ==
    ASSUME Init
    PROVE  IInv
<1>1. /\ \A i \in Ids : devices[i] = None /\ cache[i] = None
      /\ \A t \in Threads : job[t] = Idle /\ job[t].op = "idle"
                           /\ job[t].todo = {} /\ job[t].done = {}
      /\ lock = None /\ dead = {} /\ used = {} /\ stale = FALSE
  BY DEF Init, NoRows, Idle
<1>2. TypeOK
  BY RowTypes DEF Init, TypeOK
<1>3. JobShape /\ DoneStored
  BY <1>1, NoneAssumption DEF JobShape, DoneStored
<1>4. JobsFit
  BY <1>1 DEF JobsFit, Fits, EnrollFits, ReplaceFits, UpdateFits, EnsureFits,
    DeleteFits, WipeFits, PruneFits
<1>5. IdsKnown /\ CacheMirrors /\ AtMostOneAdmin(cache) /\ DeadBehind
  BY <1>1 DEF IdsKnown, CacheMirrors, AtMostOneAdmin, DeadBehind, IsAdmin, EntryOf
<1> QED
  BY <1>2, <1>3, <1>4, <1>5 DEF IInv

(* The inductive invariant holds in every reachable state. *)
THEOREM Invariant == Spec => []IInv
<1>1. IInv /\ UNCHANGED vars => IInv'
  BY DEF vars, IInv, TypeOK, JobShape, DoneStored, JobsFit, Fits, EnrollFits,
    ReplaceFits, UpdateFits, EnsureFits, DeleteFits, WipeFits, PruneFits,
    IdsKnown, CacheMirrors, AtMostOneAdmin, DeadBehind, Writes, HasAdmin,
    ResetPending, Unpublished, Narrower, IsAdmin, EntryOf, CamOf, EffectiveCam
<1>2. IInv /\ [Next]_vars => IInv'
  BY <1>1, StepKeeps
<1> QED
  BY <1>2, InitKeeps, PTL DEF Spec

(* The types of every variable. *)
THEOREM TypeCorrect == Spec => []TypeOK
BY Invariant, PTL DEF IInv

(* One admin at most, in storage and in the cache, in every reachable state. *)
THEOREM OneAdmin == Spec => []SingleAdmin
<1>1. IInv => SingleAdmin
  BY StoredAdmins DEF IInv, SingleAdmin
<1> QED
  BY <1>1, Invariant, PTL

(* Outside the commit-to-publish window the cache is what the table says. *)
THEOREM CacheIsMirror == Spec => []CacheMirrors
BY Invariant, PTL DEF IInv

(* A token refused once is never accepted again, for every paired device. *)
THEOREM RevocationIsFinal == Spec => []NoRevival
<1>1. IInv => NoRevival
  <2> SUFFICES ASSUME IInv, NEW p \in dead, p[1] \in FreshIds,
                      cache[p[1]] # None, cache[p[1]].ver = p[2]
               PROVE  FALSE
    BY DEF NoRevival, Accepts
  <2>1. p[2] \in Nat /\ p[2] > p[2]
    BY DEF IInv, TypeOK, DeadBehind
  <2> QED
    BY <2>1
<1> QED
  BY <1>1, Invariant, PTL

(* A finished wipe has removed every device, the resurrected ones included. *)
THEOREM WipesAreComplete == Spec => WipeIsComplete
<1> DEFINE A == \A t \in Threads :
      lock = t /\ job[t].op = "wipe" /\ job[t].todo = {} /\ lock' # t =>
          devices' = NoRows /\ cache' = NoRows
<1>1. ASSUME IInv, Next, NEW t \in Threads,
             lock = t, job[t].op = "wipe", job[t].todo = {}, lock' # t
      PROVE  devices' = NoRows /\ cache' = NoRows
  <2>1. CASE Restart
    <3>1. \A i \in Ids : devices[i] = None
      BY <1>1 DEF IInv, JobsFit, Fits, WipeFits
    <3> QED
      BY <1>1, <2>1, <3>1 DEF Restart, SetCache, EntryOf, NoRows, IInv, TypeOK
  <2>2. ASSUME NEW u \in Threads, Begin(u)
        PROVE  FALSE
    <3>1. lock # None
      BY <1>1, NoneAssumption
    <3>3. CASE FactoryClear(u)
      BY <1>1, <3>3 DEF FactoryClear
    <3>4. CASE \E i \in Ids, role \in Roles, rooms \in RoomScopes,
                 cam \in CamChoices : \/ EnrollDevice(u, i, role, rooms, cam)
                                     \/ EnsureEnrolled(u, i, role, rooms, cam)
                                     \/ UpdateDevice(u, i, role, rooms, cam)
      BY <3>1, <3>4 DEF EnrollDevice, EnsureEnrolled, UpdateDevice, Acquire
    <3>5. CASE \/ \E i, old \in Ids : ReplaceAdmin(u, i, old)
               \/ \E i \in Ids : DeleteDevice(u, i) \/ LeaveHub(u, i)
               \/ WipeAllDevices(u)
      BY <3>1, <3>5 DEF ReplaceAdmin, DeleteDevice, LeaveHub, WipeAllDevices, Acquire
    <3>6. CASE \E known \in SUBSET Rooms : PruneRooms(u, known)
      BY <3>1, <3>6 DEF PruneRooms, Acquire
    <3> QED
      BY <2>2, <3>3, <3>4, <3>5, <3>6 DEF Begin
  <2>3. ASSUME NEW u \in Threads, Continue(u)
        PROVE  PublishWiped(u)
    BY <1>1, <2>3, NoneAssumption DEF Continue, FactoryWipe, Commit, Abort,
      MayWrite, Publish, PublishPruned, Loops
  <2>4. ASSUME NEW u \in Threads, PublishWiped(u)
        PROVE  devices' = NoRows /\ cache' = NoRows
    BY <1>1, <2>4, StepTypes, PublishWipedKeeps
  <2> QED
    BY <1>1, <2>1, <2>2, <2>3, <2>4 DEF Next
<1>2. IInv /\ [Next]_vars => [A]_vars
  BY <1>1
<1> QED
  BY <1>2, Invariant, PTL DEF WipeIsComplete, Spec

-----------------------------------------------------------------------------
(* The engine implements DeviceAccess *)

(* How a row about to reach the cache differs from the entry it replaces.   *)
LEMMA RowFollows ==
    ASSUME IInv, NEW t \in Threads, NEW i \in FreshIds, i \in Writes(t),
           cache[i] # None, job[t].rows[i] # None
    PROVE  LET r == job[t].rows[i] IN
           \/ /\ job[t].op = "update"
              /\ ~IsAdmin(cache[i]) /\ ~IsAdmin(r) /\ r.ver > cache[i].ver
           \/ /\ job[t].op = "prune"
              /\ r.role = cache[i].role /\ r.ver = cache[i].ver
              /\ Narrower(r.rooms, cache[i].rooms) /\ CamOf(r) = cache[i].cam
<1>1. Fits(t) /\ job[t].op \in Ops /\ i \in Ids
  BY DEF IInv, JobsFit, TypeOK, Jobs, Ids
<1>2. CASE job[t].op \in {"enroll", "replace"}
  BY <1>1, <1>2 DEF Fits, EnrollFits, ReplaceFits
<1>3. CASE job[t].op = "update"
  BY <1>1, <1>3 DEF Fits, UpdateFits
<1>4. CASE job[t].op = "ensure"
  BY <1>1, <1>4, IdsAssumption DEF Fits, EnsureFits
<1>5. CASE job[t].op = "prune"
  BY <1>1, <1>5 DEF Fits, PruneFits
<1>6. CASE job[t].op \in {"delete", "leave", "wipe"}
  BY <1>1, <1>6 DEF Fits, DeleteFits
<1>7. CASE job[t].op \in {"idle", "factory"}
  BY <1>7 DEF IInv, JobShape, Writes, Idle
<1> QED
  BY <1>1, <1>2, <1>3, <1>4, <1>5, <1>6, <1>7 DEF Ops

(* A call that starts leaves the cache alone. *)
LEMMA BeginLeavesCache ==
    ASSUME NEW t \in Threads, Begin(t)
    PROVE  cache' = cache /\ dead' = dead
<1>1. CASE \E i \in Ids, role \in Roles, rooms \in RoomScopes, cam \in CamChoices :
             \/ EnrollDevice(t, i, role, rooms, cam)
             \/ EnsureEnrolled(t, i, role, rooms, cam)
             \/ UpdateDevice(t, i, role, rooms, cam)
  BY <1>1 DEF EnrollDevice, EnsureEnrolled, UpdateDevice
<1>2. CASE \/ \E i, old \in Ids : ReplaceAdmin(t, i, old)
           \/ \E i \in Ids : DeleteDevice(t, i) \/ LeaveHub(t, i)
           \/ WipeAllDevices(t) \/ FactoryClear(t)
  BY <1>2 DEF ReplaceAdmin, DeleteDevice, LeaveHub, WipeAllDevices, FactoryClear
<1>3. CASE \E known \in SUBSET Rooms : PruneRooms(t, known)
  BY <1>3 DEF PruneRooms
<1> QED
  BY <1>1, <1>2, <1>3 DEF Begin

(* A step leaves the cache alone, or changes it through SetCache.           *)
LEMMA CacheStep ==
    ASSUME IInv, Next
    PROVE  (cache' = cache /\ dead' = dead) \/ SetCache(cache')
<1>1. CASE Restart
  BY <1>1 DEF Restart, SetCache
<1>2. ASSUME NEW t \in Threads, Begin(t)
      PROVE  cache' = cache /\ dead' = dead
  BY <1>2, BeginLeavesCache
<1>3. ASSUME NEW t \in Threads, Continue(t)
      PROVE  (cache' = cache /\ dead' = dead) \/ SetCache(cache')
  BY <1>3 DEF Continue, FactoryWipe, Commit, Abort, Publish, PublishPruned,
    PublishWiped, SetCache
<1> QED
  BY <1>1, <1>2, <1>3 DEF Next

(* An entry that stays and changes was edited, or lost rooms. *)
LEMMA EntryStep ==
    ASSUME IInv, Next, NEW i \in FreshIds, cache[i] # None, cache'[i] # None
    PROVE  \/ cache'[i] = cache[i]
           \/ /\ ~IsAdmin(cache[i]) /\ ~IsAdmin(cache'[i])
              /\ cache'[i].ver > cache[i].ver
           \/ /\ cache'[i].role = cache[i].role /\ cache'[i].ver = cache[i].ver
              /\ cache'[i].cam = cache[i].cam
              /\ Narrower(cache'[i].rooms, cache[i].rooms)
<1> DEFINE Step == \/ cache'[i] = cache[i]
                   \/ /\ ~IsAdmin(cache[i]) /\ ~IsAdmin(cache'[i])
                      /\ cache'[i].ver > cache[i].ver
                   \/ /\ cache'[i].role = cache[i].role
                      /\ cache'[i].ver = cache[i].ver
                      /\ cache'[i].cam = cache[i].cam
                      /\ Narrower(cache'[i].rooms, cache[i].rooms)
<1>1. i \in Ids
  BY DEF Ids
<1>2. ASSUME NEW t \in Threads, i \in Writes(t), job[t].rows[i] # None,
             cache'[i] = EntryOf(job[t].rows[i])
      PROVE  Step
  <2>1. job[t].rows[i] \in Records
    BY <1>1, <1>2 DEF IInv, TypeOK, Jobs
  <2> QED
    BY <1>2, <2>1, RowFollows, EntryFacts
<1>3. CASE Restart
  <2>1. cache'[i] = EntryOf(devices[i])
    BY <1>1, <1>3 DEF Restart, SetCache
  <2>2. devices[i] # None
    BY <2>1 DEF EntryOf
  <2>3. CASE i \in Unpublished
    BY <1>2, <2>1, <2>2, <2>3 DEF Unpublished, IInv, DoneStored, Writes
  <2>4. CASE i \notin Unpublished
    BY <1>1, <2>1, <2>2, <2>4 DEF IInv, CacheMirrors
  <2> QED
    BY <2>3, <2>4
<1>4. ASSUME NEW t \in Threads, Begin(t)
      PROVE  cache' = cache
  BY <1>4, BeginLeavesCache
<1>5. ASSUME NEW t \in Threads, Publish(t)
      PROVE  Step
  <2>1. cache'[i] = IF i \in job[t].done THEN EntryOf(job[t].rows[i]) ELSE cache[i]
    BY <1>1, <1>5 DEF Publish, SetCache
  <2>2. CASE i \in job[t].done
    <3>1. job[t].rows[i] # None
      BY <2>1, <2>2 DEF EntryOf
    <3> QED
      BY <1>2, <2>1, <2>2, <3>1 DEF Writes
  <2>3. CASE i \notin job[t].done
    BY <2>1, <2>3
  <2> QED
    BY <2>2, <2>3
<1>6. ASSUME NEW t \in Threads, PublishPruned(t)
      PROVE  Step
  <2>1. /\ job[t].op = "prune"
        /\ cache'[i] = IF i \in job[t].done THEN PrunedEntry(i, job[t].rows[i])
                      ELSE cache[i]
    BY <1>1, <1>6 DEF PublishPruned, SetCache
  <2> QED
    BY <2>1, PublishedPrunedRow
<1>7. ASSUME NEW t \in Threads, PublishWiped(t)
      PROVE  Step
  BY <1>1, <1>7 DEF PublishWiped, SetCache
<1>8. ASSUME NEW t \in Threads, FactoryWipe(t) \/ Commit(t) \/ Abort(t)
      PROVE  cache' = cache
  BY <1>8 DEF FactoryWipe, Commit, Abort
<1> QED
  BY <1>3, <1>4, <1>5, <1>6, <1>7, <1>8 DEF Next, Continue

LEMMA DeviceStep ==
    ASSUME IInv, IInv', Next, SetCache(cache'), NEW i \in Ids
    PROVE  Promise!Legal(i, cache[i], cache'[i])
<1>1. CASE cache'[i] = None
  BY <1>1 DEF Promise!Legal, Promise!Removed
<1>2. CASE cache'[i] # None /\ i \in ManifestIds
  BY <1>2 DEF IInv, IdsKnown, IsAdmin, Promise!Legal, Promise!Provisioned,
    Promise!IsAdmin
<1>3. CASE cache'[i] # None /\ i \in FreshIds /\ cache[i] = None
  <2>1. dead \subseteq dead'
    BY DEF SetCache
  <2>2. \A p \in dead : p[1] = i => cache'[i].ver > p[2]
    BY <1>3, <2>1 DEF IInv, DeadBehind
  <2> QED
    BY <1>3, <2>2 DEF Promise!Legal, Promise!Granted
<1>4. CASE cache'[i] # None /\ i \in FreshIds /\ cache[i] # None
  BY <1>4, EntryStep DEF IsAdmin, Narrower, Promise!Legal, Promise!Kept,
    Promise!Edited, Promise!Narrowed, Promise!Narrower, Promise!IsAdmin
<1> QED
  BY <1>1, <1>2, <1>3, <1>4 DEF Ids

(* Every step of the engine is a step DeviceAccess allows, or none at all:  *)
(* whatever threads, failures and restarts do, a client sees only grants,   *)
(* edits, narrowings and removals, one admin, and no token come back.       *)
THEOREM EngineKeepsPromise == Spec => PromiseKept
<1>1. Init => Promise!Init
  BY DEF Init, NoRows, Promise!Init, Promise!Ids, Ids
<1>2. ASSUME IInv, IInv', Next
      PROVE  Promise!Next \/ UNCHANGED Promise!vars
  <2>1. CASE cache' = cache /\ dead' = dead
    BY <2>1 DEF Promise!vars
  <2>2. CASE SetCache(cache')
    <3>1. cache' \in [Ids -> Entries \cup {None}]
      BY <1>2 DEF IInv, TypeOK
    <3>2. \A i \in Ids : Promise!Legal(i, cache[i], cache'[i])
      BY <1>2, <2>2, DeviceStep
    <3>3. Promise!AtMostOneAdmin(cache')
      BY <1>2 DEF IInv, AtMostOneAdmin, IsAdmin, Promise!AtMostOneAdmin,
        Promise!IsAdmin, Promise!Ids, Ids
    <3> QED
      BY <2>2, <3>1, <3>2, <3>3 DEF Promise!Next, Promise!Ids, Ids, SetCache
  <2> QED
    BY <1>2, <2>1, <2>2, CacheStep
<1>3. UNCHANGED vars => UNCHANGED Promise!vars
  BY DEF vars, Promise!vars
<1> QED
  BY <1>1, <1>2, <1>3, Invariant, PTL DEF Spec, PromiseKept, Promise!Spec

(* Tokens stop working only because the device was removed or edited. *)
THEOREM RefusalsHaveCause == Spec => RefusedForCause
<1>1. ASSUME IInv, IInv', Next, NEW i \in FreshIds, cache[i] # None, ~TokensLive(i)
      PROVE  devices'[i] = None \/ devices'[i].ver > cache[i].ver
  <2>1. i \in Ids
    BY DEF Ids
  <2>2. SetCache(cache')
    BY <1>1, CacheStep DEF TokensLive
  <2>3. <<i, cache[i].ver>> \in dead'
    BY <1>1, <2>1, <2>2 DEF SetCache, TokensLive
  <2> QED
    BY <1>1, <2>3 DEF IInv, DeadBehind
<1>2. IInv /\ IInv' /\ [Next]_vars => [\A i \in FreshIds :
        cache[i] # None /\ ~TokensLive(i) =>
            devices'[i] = None \/ devices'[i].ver > cache[i].ver]_vars
  BY <1>1
<1> QED
  BY <1>2, Invariant, PTL DEF RefusedForCause, Spec

(* prune_rooms only ever takes rooms away from a live token. *)
THEOREM TokensNeverWiden == Spec => NoWideningUnderToken
<1>1. ASSUME IInv, Next, NEW i \in FreshIds, cache[i] # None, TokensLive(i)
      PROVE  /\ cache'[i].role = cache[i].role
             /\ Narrower(cache'[i].rooms, cache[i].rooms)
             /\ cache'[i].cam = cache[i].cam
  <2>1. cache[i].ver \in Nat
    BY <1>1 DEF IInv, TypeOK, Entries, Ids
  <2>2. CASE cache'[i] = cache[i]
    BY <2>2 DEF Narrower
  <2> QED
    BY <1>1, <2>1, <2>2, EntryStep DEF TokensLive
<1>2. IInv /\ [Next]_vars => [\A i \in FreshIds :
        cache[i] # None /\ TokensLive(i) =>
            /\ cache'[i].role = cache[i].role
            /\ Narrower(cache'[i].rooms, cache[i].rooms)
            /\ cache'[i].cam = cache[i].cam]_vars
  BY <1>1
<1> QED
  BY <1>2, Invariant, PTL DEF NoWideningUnderToken, Spec
=============================================================================
