---------------------------- MODULE DeviceAccess ----------------------------
(***************************************************************************)
(* What the hub promises about device tokens, whatever happens inside it.  *)
(*                                                                         *)
(* A token names a device and the auth version it was minted at; the hub   *)
(* accepts it while access[id] is an entry of that version.  access[id] is *)
(* None for a device that is not enrolled.  revoked holds every            *)
(* <<id, version>> the hub accepted once and then refused.                 *)
(*                                                                         *)
(* AuthEngine implements this with a storage table, an in-memory cache, a  *)
(* lock, and steps that can fail or be cut short by a restart.             *)
(***************************************************************************)
EXTENDS Naturals

CONSTANTS
    FreshIds,     \* ids the hub draws at random, never twice
    ManifestIds,  \* ids a developer manifest chooses, reused after a reset
    Entries,      \* what the hub may grant: records with role, rooms, cam, ver
    None          \* Python's None: no entry, or (as a room scope) every room

VARIABLES access, revoked

Ids == FreshIds \cup ManifestIds

vars == <<access, revoked>>

IsAdmin(e) == e # None /\ e.role = "admin"

AtMostOneAdmin(f) ==
    \A i, j \in Ids : IsAdmin(f[i]) /\ IsAdmin(f[j]) => i = j

(* A room scope may only shrink: None is every room. *)
Narrower(new, old) == old = None \/ (new # None /\ new \subseteq old)

-----------------------------------------------------------------------------
(* The ways one step may change one device's entry. *)

Kept(old, new) == new = old

Removed(old, new) == new = None

(* A device id gets an entry at a version no token of it was ever refused at. *)
Granted(i, old, new) ==
    /\ old = None
    /\ new # None
    /\ \A p \in revoked : p[1] = i => new.ver > p[2]

(* Role, scope or cameras are edited: the version rises, so every token of  *)
(* the device dies with it.  The admin is never edited nor made by an edit. *)
Edited(i, old, new) ==
    /\ old # None /\ new # None
    /\ ~IsAdmin(old) /\ ~IsAdmin(new)
    /\ new.ver > old.ver

(* Deleted rooms leave a scope: tokens live on and grant no more than before. *)
Narrowed(old, new) ==
    /\ old # None /\ new # None
    /\ new.role = old.role /\ new.ver = old.ver /\ new.cam = old.cam
    /\ Narrower(new.rooms, old.rooms)

(* A developer manifest may put its own ids back at any version. *)
Provisioned(i, new) == i \in ManifestIds /\ new # None /\ ~IsAdmin(new)

Legal(i, old, new) ==
    \/ Kept(old, new)
    \/ Removed(old, new)
    \/ Granted(i, old, new)
    \/ Edited(i, old, new)
    \/ Narrowed(old, new)
    \/ Provisioned(i, new)

-----------------------------------------------------------------------------
Init ==
    /\ access = [i \in Ids |-> None]
    /\ revoked = {}

(* A restart may drop several stale devices and take up a committed change  *)
(* in one step, so a step is any legal change of any devices.               *)
Next ==
    /\ access' \in [Ids -> Entries \cup {None}]
    /\ \A i \in Ids : Legal(i, access[i], access'[i])
    /\ AtMostOneAdmin(access')
    /\ revoked' = revoked \cup
         {p \in {<<i, access[i].ver>> : i \in {j \in Ids : access[j] # None}} :
             access'[p[1]] = None \/ access'[p[1]].ver # p[2]}

Spec == Init /\ [][Next]_vars
=============================================================================
