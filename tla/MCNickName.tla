----------------------------- MODULE MCNickName -----------------------------
(* NickName with two users, one of whom asks twice, for TLC. *)
EXTENDS NickName

CONSTANTS a1, a2, b1, ann, bob, g1

MCAnswer == {a1, a2, b1}
MCUser == {ann, bob}
MCFriend == {ann}
MCGroup == {g1}
MCUserOf == (a1 :> ann) @@ (a2 :> ann) @@ (b1 :> bob)
MCGroupOf == [a \in MCAnswer |-> g1]
MCHash == (ann :> 4) @@ (bob :> 7)
=============================================================================
