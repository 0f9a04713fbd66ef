------------------------------- MODULE MCClaim -------------------------------
(* Claim for TLC: phones, requests and codes of one kind are interchangeable. *)
EXTENDS Claim, TLC

CONSTANTS p1, p2, p3, q1, q2, q3, s1, s2, s3, k1, k2, k3, m1, m2

TwoPhones == {p1, p2}
ThreePhones == {p1, p2, p3}
TwoRequests == {q1, q2}
ThreeRequests == {q1, q2, q3}
TwoStickers == {s1, s2}
ThreeStickers == {s1, s2, s3}
TwoCards == {k1, k2}
ThreeCards == {k1, k2, k3}
OneMember == {m1}
TwoMembers == {m1, m2}

Symmetry == Permutations(Phones) \cup Permutations(Requests)
            \cup Permutations(Stickers) \cup Permutations(Cards)
            \cup Permutations(MemberCodes)
=============================================================================
