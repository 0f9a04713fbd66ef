-------------------------------- MODULE MCWs ---------------------------------
(* Ws for TLC: an owner who sees every entity and a member who does not see e1. *)
EXTENDS Ws

CONSTANTS e1, owner, member

OneEntity == {e1}
TwoTokens == {owner, member}
MemberScope == [t \in TwoTokens |-> IF t = owner THEN Entities ELSE Entities \ {e1}]
JustOwner == {owner}
=============================================================================
