---------------------------- MODULE Connections ----------------------------
(***************************************************************************)
(* Connections and logins: the coroutine Network::process of every         *)
(* accepted socket, the connection map of Manager, the connection map of   *)
(* each User, and the user a connection's JsonMessageProcess acts as.      *)
(*                                                                         *)
(* Every connection is a process.  An action is one critical section, or   *)
(* the completion of one asynchronous operation the coroutine waits for.   *)
(* Manager changes its own map and the users' maps under both of its locks,*)
(* and a user's map is only read in between to push a message, so each of  *)
(* registerConnection, modifyUserOfConnection and removeConnection is one  *)
(* action.                                                                 *)
(*                                                                         *)
(* Left out: TLS and the bytes on the wire; what a command does besides    *)
(* pushing messages (Friends and Groups); the timers.  A timer races a     *)
(* handshake or a read through operator||, which waits for the first of    *)
(* the two to succeed: a timer only ever ends by throwing, so an expired   *)
(* one leaves the coroutine waiting for the socket as before.              *)
(***************************************************************************)
EXTENDS Integers

CONSTANTS
    Conns,      \* the sockets that will connect
    MaxUsers,   \* bound: how many users a behaviour may register
    MaxPushes   \* bound: messages pushed to one socket and not yet written

ASSUME MaxUsersAssumption == MaxUsers \in Nat \ {0}
ASSUME MaxPushesAssumption == MaxPushes \in Nat \ {0}

VARIABLES
    m_user_map,        \* the ids of the registered users
    m_newUserId,       \* the counter user ids come from
    password,          \* the users whose password has been set
    m_connection_map,  \* Manager: the user of each registered connection
    user_connections,  \* User::m_connection_map: connections to push to
    m_user_id,         \* JsonMessageProcessImpl: the user a connection acts as
    pc,                \* where the coroutine of each connection is
    target,            \* the user_id a login names, the user id a command got
    hangup,            \* the peer's end of stream is next in the socket
    pushes             \* messages of notifyAll being written to the socket

accounts == <<m_user_map, m_newUserId, password>>
maps == <<m_connection_map, user_connections>>
vars == <<accounts, maps, m_user_id, pc, target, hangup, pushes>>

FirstUserId == 10000
Users == FirstUserId .. (FirstUserId + MaxUsers - 1)
NotLoggedIn == -1
Absent == -2        \* no entry in Manager's map

Labels == {"new", "handshake", "read", "register_password", "login_check",
           "login_modify", "login_set", "execute", "write", "gone"}

\* Types; a password belongs to a registered user.
TypeOK ==
    /\ m_user_map \subseteq Users
    /\ m_newUserId \in FirstUserId .. (FirstUserId + MaxUsers)
    /\ password \subseteq m_user_map
    /\ m_connection_map \in [Conns -> Users \cup {NotLoggedIn, Absent}]
    /\ user_connections \in [Users -> SUBSET Conns]
    /\ m_user_id \in [Conns -> Users \cup {NotLoggedIn}]
    /\ pc \in [Conns -> Labels]
    /\ target \in [Conns -> Users \cup {NotLoggedIn}]
    /\ hangup \in [Conns -> BOOLEAN]
    /\ pushes \in [Conns -> 0 .. MaxPushes]

Init ==
    /\ m_user_map = {}
    /\ m_newUserId = FirstUserId
    /\ password = {}
    /\ m_connection_map = [c \in Conns |-> Absent]
    /\ user_connections = [u \in Users |-> {}]
    /\ m_user_id = [c \in Conns |-> NotLoggedIn]
    /\ pc = [c \in Conns |-> "new"]
    /\ target = [c \in Conns |-> NotLoggedIn]
    /\ hangup = [c \in Conns |-> FALSE]
    /\ pushes = [c \in Conns |-> 0]

Goto(c, from, to) ==
    /\ pc[c] = from
    /\ pc' = [pc EXCEPT ![c] = to]

-----------------------------------------------------------------------------
(* The life of a connection.                                               *)

\* RateLimiter::allow_connection refuses: the socket is closed, nothing more.
Refuse(c) ==
    /\ Goto(c, "new", "gone")
    /\ UNCHANGED <<accounts, maps, m_user_id, target, hangup, pushes>>

registerConnection(c) ==
    /\ m_connection_map[c] = Absent
    /\ m_connection_map' = [m_connection_map EXCEPT ![c] = NotLoggedIn]
    /\ UNCHANGED user_connections

Accept(c) ==
    /\ Goto(c, "new", "handshake")
    /\ registerConnection(c)
    /\ UNCHANGED <<accounts, m_user_id, target, hangup, pushes>>

Handshake(c) ==
    /\ Goto(c, "handshake", "read")
    /\ UNCHANGED <<accounts, maps, m_user_id, target, hangup, pushes>>

\* Mutant of removeConnection: the user keeps the connection.
removeConnection_KeepsUser(c) ==
    /\ m_connection_map' = [m_connection_map EXCEPT ![c] = Absent]
    /\ UNCHANGED user_connections

removeConnection(c) ==
    /\ m_connection_map' = [m_connection_map EXCEPT ![c] = Absent]
    /\ user_connections' =
         [u \in Users |-> IF u = m_connection_map[c]
                          THEN user_connections[u] \ {c}
                          ELSE user_connections[u]]

\* Mutant of Close: only the catch clause around the reads cleans up.
Close_OnlyReads(c, from) ==
    /\ Goto(c, from, "gone")
    /\ IF from = "handshake" THEN UNCHANGED maps ELSE removeConnection(c)
    /\ UNCHANGED <<accounts, m_user_id, target, hangup, pushes>>

\* All ways out of the coroutine: an exception of the handshake, of a read or
\* of a write, a package that cannot be parsed, too many heartbeats.
Close(c, from) ==
    /\ Goto(c, from, "gone")
    /\ removeConnection(c)
    /\ UNCHANGED <<accounts, m_user_id, target, hangup, pushes>>

\* The peer goes away.
Hangup(c) ==
    /\ pc[c] \notin {"new", "gone"}
    /\ ~hangup[c]
    /\ hangup' = [hangup EXCEPT ![c] = TRUE]
    /\ UNCHANGED <<accounts, maps, m_user_id, pc, target, pushes>>

Fail(c) ==
    /\ hangup[c]
    /\ \E from \in {"handshake", "read", "write"} : Close(c, from)

BadPackage(c) ==
    /\ ~hangup[c]
    /\ Close(c, "read")

-----------------------------------------------------------------------------
(* SocketService::process and processJsonMessage: one package.  Every      *)
(* package other than a heartbeat ends in one answer, "write".             *)

Receive(c, to) ==
    /\ ~hangup[c]
    /\ Goto(c, "read", to)
    /\ UNCHANGED <<accounts, maps, m_user_id, hangup, pushes>>

\* A package that is not text, a malformed command, an unknown function, an
\* invalid email, a login of an unknown user, all refused with an error; and
\* has_user and search_user, which change nothing.
ReceiveRefused(c) == Receive(c, "write") /\ UNCHANGED target

ReceiveLogin(c, u) ==
    /\ u \in m_user_map
    /\ Receive(c, "login_check")
    /\ target' = [target EXCEPT ![c] = u]

\* The check whether the user has logged in masks the command type with
\* NormalType, which is 0: every known command passes, with UserID(-1) too.
ReceiveCommand(c) ==
    /\ Receive(c, "execute")
    /\ target' = [target EXCEPT ![c] = m_user_id[c]]

-----------------------------------------------------------------------------
(* register: a user exists before it has a password.                       *)

\* Mutant of addNewUser: hands out an id other than the one it stored.
addNewUser_OffByOne(c) ==
    /\ ~hangup[c]
    /\ m_newUserId < FirstUserId + MaxUsers - 1
    /\ Goto(c, "read", "register_password")
    /\ m_newUserId' = m_newUserId + 1
    /\ m_user_map' = m_user_map \cup {m_newUserId}
    /\ target' = [target EXCEPT ![c] = m_newUserId + 1]
    /\ UNCHANGED <<password, maps, m_user_id, hangup, pushes>>

addNewUser(c) ==
    /\ ~hangup[c]
    /\ m_newUserId < FirstUserId + MaxUsers
    /\ Goto(c, "read", "register_password")
    /\ m_newUserId' = m_newUserId + 1
    /\ m_user_map' = m_user_map \cup {m_newUserId}
    /\ target' = [target EXCEPT ![c] = m_newUserId]
    /\ UNCHANGED <<password, maps, m_user_id, hangup, pushes>>

firstUpdateUserPassword(c) ==
    /\ Goto(c, "register_password", "write")
    /\ password' = password \cup {target[c]}
    /\ target' = [target EXCEPT ![c] = NotLoggedIn]
    /\ UNCHANGED <<m_user_map, m_newUserId, maps, m_user_id, hangup, pushes>>

-----------------------------------------------------------------------------
(* login.                                                                  *)

\* Mutant of isUserPassword: an account without password takes any.
isUserPassword_UnsetMatches(u) == TRUE

\* The salted hash of what the client sends never is the empty string an
\* account starts with.
isUserPassword(u) == u \in password

LoginCheck(c) ==
    /\ \/ isUserPassword(target[c]) /\ Goto(c, "login_check", "login_modify")
       \/ Goto(c, "login_check", "write")
    /\ UNCHANGED <<accounts, maps, m_user_id, target, hangup, pushes>>

\* Mutant of modifyUserOfConnection: the former user keeps the connection.
modifyUserOfConnection_KeepsOld(c, u) ==
    /\ m_connection_map' = [m_connection_map EXCEPT ![c] = u]
    /\ user_connections' = [user_connections EXCEPT ![u] = @ \cup {c}]

modifyUserOfConnection(c, u) ==
    /\ m_connection_map' = [m_connection_map EXCEPT ![c] = u]
    /\ user_connections' =
         [v \in Users |-> IF v = u THEN user_connections[v] \cup {c}
                          ELSE IF v = m_connection_map[c]
                               THEN user_connections[v] \ {c}
                               ELSE user_connections[v]]

LoginModify(c) ==
    /\ Goto(c, "login_modify", "login_set")
    /\ modifyUserOfConnection(c, target[c])
    /\ UNCHANGED <<accounts, m_user_id, target, hangup, pushes>>

\* Mutant of LoginSet: a connection that has a user keeps acting as that one.
LoginSet_FirstOnly(c) ==
    /\ Goto(c, "login_set", "write")
    /\ m_user_id' = [m_user_id EXCEPT ![c] = IF @ = NotLoggedIn THEN target[c] ELSE @]
    /\ target' = [target EXCEPT ![c] = NotLoggedIn]
    /\ UNCHANGED <<accounts, maps, hangup, pushes>>

LoginSet(c) ==
    /\ Goto(c, "login_set", "write")
    /\ m_user_id' = [m_user_id EXCEPT ![c] = target[c]]
    /\ target' = [target EXCEPT ![c] = NotLoggedIn]
    /\ UNCHANGED <<accounts, maps, hangup, pushes>>

-----------------------------------------------------------------------------
(* Commands, the messages they push, and the writes.                       *)

\* User::notifyAll starts a write on every connection of the user.
notifyAll(u) ==
    /\ \A c \in user_connections[u] : pushes[c] < MaxPushes
    /\ pushes' = [c \in Conns |-> pushes[c] + IF c \in user_connections[u] THEN 1 ELSE 0]

\* A command of UserID(-1) throws at getUser.  Any other may push messages.
Execute(c) ==
    /\ Goto(c, "execute", "write")
    /\ \/ UNCHANGED pushes
       \/ target[c] # NotLoggedIn /\ \E u \in m_user_map : notifyAll(u)
    /\ target' = [target EXCEPT ![c] = NotLoggedIn]
    /\ UNCHANGED <<accounts, maps, m_user_id, hangup>>

WriteDone(c) ==
    /\ Goto(c, "write", "read")
    /\ UNCHANGED <<accounts, maps, m_user_id, target, hangup, pushes>>

PushDone(c) ==
    /\ pushes[c] > 0
    /\ pushes' = [pushes EXCEPT ![c] = @ - 1]
    /\ UNCHANGED <<accounts, maps, m_user_id, pc, target, hangup>>

-----------------------------------------------------------------------------
\* What the peer does.
Peer(c) ==
    \/ Hangup(c) \/ BadPackage(c)
    \/ ReceiveRefused(c) \/ addNewUser(c) \/ ReceiveCommand(c)
    \/ \E u \in Users : ReceiveLogin(c, u)

\* What the server's threads do.
Step(c) ==
    \/ firstUpdateUserPassword(c)
    \/ LoginCheck(c) \/ LoginModify(c) \/ LoginSet(c)
    \/ Execute(c) \/ WriteDone(c) \/ Fail(c)

Next ==
    \E c \in Conns : Accept(c) \/ Refuse(c) \/ Handshake(c) \/ Peer(c)
                     \/ Step(c) \/ PushDone(c)

\* The io_context runs every handler that is ready: a command posted to the
\* pool, a write or a read that has completed.  Nothing is assumed of the peer.
Fairness == \A c \in Conns : WF_vars(Step(c)) /\ WF_vars(PushDone(c))

Spec == Init /\ [][Next]_vars
FairSpec == Spec /\ Fairness

-----------------------------------------------------------------------------
(* What the maps guarantee.                                                *)

\* Manager's map and the users' maps agree: a user's messages go to exactly
\* the connections logged in as that user, through every order of logins,
\* logins as another user, and disconnects of several connections.
MapsAgree ==
    \A c \in Conns, u \in Users :
        c \in user_connections[u] <=> m_connection_map[c] = u

\* A connection is in Manager's map exactly while its coroutine runs: no way
\* out of Network::process leaves a dead connection behind to push to.
RegisteredWhileRunning ==
    \A c \in Conns : m_connection_map[c] = Absent <=> pc[c] \in {"new", "gone"}

\* A command that runs as a user comes from a connection that user's messages
\* go to.  login writes the maps first and the connection's own user id later,
\* and a second login may name another user.
CommandsRunAsOwner ==
    \A c \in Conns : pc[c] = "execute" => m_connection_map[c] = target[c]

\* No connection belongs to an account whose password has not been set yet:
\* a login that races the registration of its user is refused.
OnlyWithPassword ==
    \A c \in Conns : m_connection_map[c] \in Users => m_connection_map[c] \in password

\* A peer that goes away is forgotten, wherever its coroutine was: no user
\* keeps pushing messages to it for ever.
HangupIsNoticed ==
    \A c \in Conns :
        hangup[c] ~> /\ m_connection_map[c] = Absent
                     /\ \A u \in Users : c \notin user_connections[u]

-----------------------------------------------------------------------------
(* What the comments say and the code does not do.                         *)

\* Connection is there to "Keep the sending and receiving data thread-safe":
\* no two writes would be under way on one socket.  The strand orders the
\* completion handlers only; notifyAll starts a write while another is pending.
OneWriteAtATime ==
    \A c \in Conns : pushes[c] + (IF pc[c] = "write" THEN 1 ELSE 0) <= 1
=============================================================================
