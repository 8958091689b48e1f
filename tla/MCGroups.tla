------------------------------ MODULE MCGroups ------------------------------
(* Two users; the first is logged in on two connections.                   *)
EXTENDS Groups, TLC

CONSTANTS u1, u2, stranger, s1, s2, s3

MCUserOf == (s1 :> u1) @@ (s2 :> u1) @@ (s3 :> u2)
MCUserOfPair == (s1 :> u1) @@ (s3 :> u2)

\* s1 and s2 are interchangeable: connections of the same user.
MCSymmetry == Permutations({s1, s2})

\* No guard and no property of the runs that use this view reads reply.
MCView == <<registry, members, verifications, pc, group, who>>
=============================================================================
