----------------------------- MODULE MCFriends -----------------------------
(* Two users; the first is logged in on two connections.                   *)
EXTENDS Friends, TLC

CONSTANTS u1, u2, stranger, s1, s2, s3

MCUserOf == (s1 :> u1) @@ (s2 :> u1) @@ (s3 :> u2)

\* s1 and s2 are interchangeable: connections of the same user.
MCSymmetry == Permutations({s1, s2})
=============================================================================
