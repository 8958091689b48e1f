------------------------------ MODULE Channel ------------------------------
(***************************************************************************)
(* What framing promises: the packages of a peer reach the server one at a *)
(* time, in the order they were sent, each exactly once, until the         *)
(* connection is closed.  A package that is not well formed is never       *)
(* delivered; it closes the connection.                                    *)
(***************************************************************************)
EXTENDS Sequences

CONSTANTS
    Packages,   \* the packages that can be delivered
    Malformed,  \* what stands for one that cannot
    HeartBeat   \* the type of a package that is not handled further

VARIABLES
    queue,      \* sent and not yet delivered
    delivered,  \* the last package delivered
    open        \* the connection has not been closed

vars == <<queue, delivered, open>>

Init ==
    /\ queue = <<>>
    /\ delivered \in Packages
    /\ open = TRUE

Send(p) ==
    /\ open
    /\ queue' = Append(queue, p)
    /\ UNCHANGED <<delivered, open>>

\* What is left when the connection closes is never delivered.
Close ==
    /\ open' = FALSE
    /\ queue' = <<>>

\* A heartbeat may be one too many, and close the connection.
Deliver ==
    /\ open
    /\ queue # <<>>
    /\ Head(queue) \in Packages
    /\ delivered' = Head(queue)
    /\ \/ queue' = Tail(queue) /\ UNCHANGED open
       \/ Head(queue).type = HeartBeat /\ Close

Reject ==
    /\ open
    /\ queue # <<>>
    /\ Head(queue) = Malformed
    /\ Close
    /\ UNCHANGED delivered

\* Handling the package just delivered has failed.
Abort ==
    /\ open
    /\ delivered.type # HeartBeat
    /\ Close
    /\ UNCHANGED delivered

Next ==
    \/ \E p \in Packages \cup {Malformed} : Send(p)
    \/ Deliver
    \/ Reject
    \/ Abort

Spec == Init /\ [][Next]_vars
=============================================================================
