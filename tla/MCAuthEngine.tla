---------------------------- MODULE MCAuthEngine ----------------------------
(* AuthEngine for TLC: two executor threads, two random ids, the id of a    *)
(* developer's manifest, and one room.                                      *)
EXTENDS AuthEngine

CONSTANTS t1, t2, d1, d2, d3, r1

TwoThreads == {t1, t2}
TwoIds == {d1, d2}
ManifestId == {d3}
OneRoom == {r1}
TwoCams == {None, "none"}

(* People pair, or the manifest's device is there; not both at once. *)
NoManifest ==
    /\ \A p \in dead : p[1] \notin ManifestIds
    /\ \A i \in ManifestIds : /\ devices[i] = None /\ cache[i] = None
                              /\ \A t \in Threads : job[t].rows[i] = None
OneKind == used' = {} \/ NoManifest'
=============================================================================
