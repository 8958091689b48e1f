----------------------------- MODULE Membership -----------------------------
(***************************************************************************)
(* What the group commands promise, without threads or lists of entries.   *)
(* A group has one owner, the user who founded it, for good, and a closed  *)
(* group stays closed.  A user applies; the owner, and nobody else, grants *)
(* what was applied for; a grant lets the user in: among the members, among*)
(* those the messages reach, and with the group in the user's list.  Nobody*)
(* gets into a group without a grant, and into a closed group not even with*)
(* one.                                                                    *)
(***************************************************************************)
CONSTANTS Users, Groups, Nobody

VARIABLES
    owner,      \* [group]: who founded it
    open,       \* the groups that exist
    applied,    \* <<u, g>>: an application of u to g is waiting
    granted,    \* <<by, u, g>>: by has said yes to u, who is being let in
    members,    \* [group]: its members
    reached,    \* [group]: the users its messages go to
    listed      \* [user]: the groups in the user's list

vars == <<owner, open, applied, granted, members, reached, listed>>

Init ==
    /\ owner = [g \in Groups |-> Nobody]
    /\ open = {}
    /\ applied = {}
    /\ granted = {}
    /\ members = [g \in Groups |-> {}]
    /\ reached = [g \in Groups |-> {}]
    /\ listed = [u \in Users |-> {}]

\* The founder has the group put into the list like everybody else.
Found(u, g) ==
    /\ owner[g] = Nobody
    /\ owner' = [owner EXCEPT ![g] = u]
    /\ open' = open \cup {g}
    /\ members' = [members EXCEPT ![g] = {u}]
    /\ reached' = [reached EXCEPT ![g] = {u}]
    /\ granted' = granted \cup {<<u, u, g>>}
    /\ UNCHANGED <<applied, listed>>

Close(g) ==
    /\ open' = open \ {g}
    /\ UNCHANGED <<owner, applied, granted, members, reached, listed>>

Apply(u, g) ==
    /\ owner[g] # Nobody
    /\ <<u, g>> \notin applied
    /\ applied' = applied \cup {<<u, g>>}
    /\ UNCHANGED <<owner, open, granted, members, reached, listed>>

Drop(u, g) ==
    /\ <<u, g>> \in applied
    /\ applied' = applied \ {<<u, g>>}
    /\ UNCHANGED <<owner, open, granted, members, reached, listed>>

\* Only what was applied for can be granted, and by the owner.
Grant(u, g) ==
    /\ owner[g] # Nobody
    /\ <<u, g>> \in applied
    /\ granted' = granted \cup {<<owner[g], u, g>>}
    /\ UNCHANGED <<owner, open, applied, members, reached, listed>>

Granted(u, g) == <<owner[g], u, g>> \in granted

Admit(u, g) ==
    /\ Granted(u, g) /\ g \in open
    /\ members' = [members EXCEPT ![g] = @ \cup {u}]
    /\ UNCHANGED <<owner, open, applied, granted, reached, listed>>

Reach(u, g) ==
    /\ Granted(u, g)
    /\ reached' = [reached EXCEPT ![g] = @ \cup {u}]
    /\ UNCHANGED <<owner, open, applied, granted, members, listed>>

\* Two sessions of the owner may be granting the same application: the grant
\* can outlive the first entry it makes.
List(u, g) ==
    /\ Granted(u, g)
    /\ listed' = [listed EXCEPT ![u] = @ \cup {g}]
    /\ granted' \in {granted, granted \ {<<owner[g], u, g>>}}
    /\ UNCHANGED <<owner, open, applied, members, reached>>

\* The group was closed before the user was let in.
Withdraw(u, g) ==
    /\ g \notin open
    /\ granted' = granted \ {<<owner[g], u, g>>}
    /\ UNCHANGED <<owner, open, applied, members, reached, listed>>

Leave(u, g) ==
    /\ \/ members' = [members EXCEPT ![g] = @ \ {u}] /\ UNCHANGED reached
       \/ reached' = [reached EXCEPT ![g] = @ \ {u}] /\ UNCHANGED members
    /\ UNCHANGED <<owner, open, applied, granted, listed>>

Next ==
    \E g \in Groups :
        \/ Close(g)
        \/ \E u \in Users :
              \/ Found(u, g) \/ Apply(u, g) \/ Drop(u, g) \/ Grant(u, g)
              \/ Admit(u, g) \/ Reach(u, g) \/ List(u, g)
              \/ Withdraw(u, g) \/ Leave(u, g)

Spec == Init /\ [][Next]_vars
=============================================================================
