----------------------------- MODULE Friendship -----------------------------
(***************************************************************************)
(* What the friend commands promise, without threads, lists or room ids.   *)
(* A user asks another; the other grants or turns down what was asked; a   *)
(* grant opens a private room for the two; users see each other as friends *)
(* only once they have a room, which is never closed.                      *)
(***************************************************************************)
CONSTANT Users

VARIABLES
    asked,      \* <<a, b>>: a request from a to b is waiting
    granted,    \* <<a, b>>: b has said yes to a, the room is being opened
    opened,     \* the pairs {a, b} that have a private room
    friends     \* <<a, b>>: b is in a's friend list

vars == <<asked, granted, opened, friends>>

Init ==
    /\ asked = {}
    /\ granted = {}
    /\ opened = {}
    /\ friends = {}

Ask(a, b) ==
    /\ a # b
    /\ <<a, b>> \notin asked
    /\ asked' = asked \cup {<<a, b>>}
    /\ UNCHANGED <<granted, opened, friends>>

\* Only a request that is waiting can be granted.
Grant(a, b) ==
    /\ <<a, b>> \in asked
    /\ granted' = granted \cup {<<a, b>>}
    /\ UNCHANGED <<asked, opened, friends>>

Drop(a, b) ==
    /\ <<a, b>> \in asked
    /\ asked' = asked \ {<<a, b>>}
    /\ UNCHANGED <<granted, opened, friends>>

\* Two sessions of b may be granting the same request: the grant can outlive
\* the first room it opens.
Open(a, b) ==
    /\ <<a, b>> \in granted
    /\ opened' = opened \cup {{a, b}}
    /\ \/ granted' = granted \ {<<a, b>>}
       \/ granted' = granted
    /\ UNCHANGED <<asked, friends>>

Befriend(a, b) ==
    /\ {a, b} \in opened
    /\ friends' = friends \cup {<<a, b>>}
    /\ UNCHANGED <<asked, granted, opened>>

Unfriend(a, b) ==
    /\ friends' = friends \ {<<a, b>>}
    /\ UNCHANGED <<asked, granted, opened>>

Next ==
    \E a, b \in Users :
        \/ Ask(a, b)
        \/ Grant(a, b)
        \/ Drop(a, b)
        \/ Open(a, b)
        \/ Befriend(a, b)
        \/ Unfriend(a, b)

Spec == Init /\ [][Next]_vars
=============================================================================
