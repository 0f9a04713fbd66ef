-------------------------------- MODULE MCNow --------------------------------
(* Suggestion for TLC: a room's plan that may change within its window, and a *)
(* rule's; requests and the versions of the plan are interchangeable.         *)
EXTENDS Suggestion, TLC

CONSTANTS q1, q2, m1, p1, p2, p3, w1, w2

TwoRequests == {q1, q2}
OneMember == {m1}
TwoSlots == {w1, w2}
RoomPlans == {p1, p2}
OneRule == {p3}
ThreePlans == RoomPlans \cup OneRule
TheirSlots == [p \in ThreePlans |-> IF p \in OneRule THEN w2 ELSE w1]

Alike == Permutations(TwoRequests) \cup Permutations(RoomPlans)
=============================================================================
