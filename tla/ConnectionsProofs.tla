------------------------- MODULE ConnectionsProofs -------------------------
(***************************************************************************)
(* The invariants of Connections, for any number of connections and users. *)
(*                                                                         *)
(* CommandsRunAsOwner is not inductive: it needs to know what a connection *)
(* acts as in every other place of its coroutine (ActingInv), and          *)
(* OnlyWithPassword what a login has already checked (LoginInv).           *)
(***************************************************************************)
EXTENDS Connections, TLAPS

\* The user a connection acts as is the one it is registered for, except
\* between the two writes of a login.
ActingInv ==
    \A c \in Conns :
        /\ pc[c] = "new" => m_user_id[c] = NotLoggedIn
        /\ pc[c] \notin {"new", "gone", "login_set"}
             => m_connection_map[c] = m_user_id[c]
        /\ pc[c] = "login_set" => m_connection_map[c] = target[c]
        /\ pc[c] = "execute" => target[c] = m_user_id[c]

\* What register and login know of the user they work on.
LoginInv ==
    \A c \in Conns :
        /\ pc[c] = "register_password" => target[c] \in m_user_map
        /\ pc[c] \in {"login_check", "login_modify", "login_set"}
             => target[c] \in Users
        /\ pc[c] \in {"login_modify", "login_set"} => target[c] \in password

IInv ==
    /\ TypeOK
    /\ MapsAgree
    /\ RegisteredWhileRunning
    /\ ActingInv
    /\ LoginInv
    /\ OnlyWithPassword

\* Integer facts the types rest on.
LEMMA Ids ==
    /\ Users \subseteq Int
    /\ NotLoggedIn \notin Users
    /\ Absent \notin Users
    /\ NotLoggedIn # Absent
BY MaxUsersAssumption DEF Users, FirstUserId, NotLoggedIn, Absent

\* The server starts with no connection and no user.
LEMMA InitIInv == Init => IInv
BY Ids, MaxUsersAssumption, MaxPushesAssumption
   DEF Init, IInv, TypeOK, MapsAgree, RegisteredWhileRunning, ActingInv,
       LoginInv, OnlyWithPassword, Labels, FirstUserId

USE DEF Labels, accounts, maps, Goto

\* registerConnection, and the refusal of a socket.
LEMMA AcceptStep ==
    ASSUME IInv, NEW c \in Conns, Accept(c) \/ Refuse(c) \/ Handshake(c)
    PROVE  IInv'
<1>1. CASE Accept(c)
  BY <1>1, Ids DEF Accept, registerConnection, IInv, TypeOK, MapsAgree,
     RegisteredWhileRunning, ActingInv, LoginInv, OnlyWithPassword
<1>2. CASE Refuse(c)
  BY <1>2, Ids DEF Refuse, IInv, TypeOK, MapsAgree,
     RegisteredWhileRunning, ActingInv, LoginInv, OnlyWithPassword
<1>3. CASE Handshake(c)
  BY <1>3, Ids DEF Handshake, IInv, TypeOK, MapsAgree,
     RegisteredWhileRunning, ActingInv, LoginInv, OnlyWithPassword
<1> QED BY <1>1, <1>2, <1>3

\* removeConnection, on whatever way out of the coroutine.
LEMMA CloseStep ==
    ASSUME IInv, NEW c \in Conns,
           NEW from \in {"handshake", "read", "write"}, Close(c, from)
    PROVE  IInv'
<1>1. TypeOK'
  BY Ids DEF Close, removeConnection, IInv, TypeOK
<1>2. MapsAgree'
  BY Ids DEF Close, removeConnection, IInv, TypeOK, MapsAgree
<1>3. RegisteredWhileRunning' /\ ActingInv' /\ LoginInv' /\ OnlyWithPassword'
  BY Ids DEF Close, removeConnection, IInv, TypeOK, RegisteredWhileRunning,
     ActingInv, LoginInv, OnlyWithPassword
<1> QED BY <1>1, <1>2, <1>3 DEF IInv

\* Packages of the peer.
LEMMA PeerStep ==
    ASSUME IInv, NEW c \in Conns, Peer(c)
    PROVE  IInv'
<1>1. CASE Hangup(c)
  BY <1>1 DEF Hangup, IInv, TypeOK, MapsAgree,
     RegisteredWhileRunning, ActingInv, LoginInv, OnlyWithPassword
<1>2. CASE BadPackage(c)
  BY <1>2, CloseStep DEF BadPackage
<1>3. CASE ReceiveRefused(c)
  BY <1>3 DEF ReceiveRefused, Receive, IInv, TypeOK, MapsAgree,
     RegisteredWhileRunning, ActingInv, LoginInv, OnlyWithPassword
<1>4. CASE addNewUser(c)
  <2>1. m_newUserId \in Users
    BY <1>4, MaxUsersAssumption DEF addNewUser, IInv, TypeOK, Users, FirstUserId
  <2>2. TypeOK'
    BY <1>4, <2>1, MaxUsersAssumption
       DEF addNewUser, IInv, TypeOK, FirstUserId
  <2>3. MapsAgree' /\ RegisteredWhileRunning' /\ ActingInv' /\ LoginInv'
        /\ OnlyWithPassword'
    BY <1>4, <2>1 DEF addNewUser, IInv, TypeOK, MapsAgree,
       RegisteredWhileRunning, ActingInv, LoginInv, OnlyWithPassword
  <2> QED BY <2>2, <2>3 DEF IInv
<1>5. CASE ReceiveCommand(c)
  BY <1>5 DEF ReceiveCommand, Receive, IInv, TypeOK, MapsAgree,
     RegisteredWhileRunning, ActingInv, LoginInv, OnlyWithPassword
<1>6. ASSUME NEW u \in Users, ReceiveLogin(c, u)
      PROVE  IInv'
  BY <1>6 DEF ReceiveLogin, Receive, IInv, TypeOK, MapsAgree,
     RegisteredWhileRunning, ActingInv, LoginInv, OnlyWithPassword
<1> QED BY <1>1, <1>2, <1>3, <1>4, <1>5, <1>6 DEF Peer

\* modifyUserOfConnection moves the connection from its old user to the new.
LEMMA LoginModifyStep ==
    ASSUME IInv, NEW c \in Conns, LoginModify(c)
    PROVE  IInv'
<1>1. target[c] \in Users /\ target[c] \in password
  BY DEF LoginModify, IInv, LoginInv
<1>2. TypeOK'
  BY <1>1 DEF LoginModify, modifyUserOfConnection, IInv, TypeOK
<1>3. MapsAgree'
  BY <1>1 DEF LoginModify, modifyUserOfConnection, IInv, TypeOK, MapsAgree
<1>4. RegisteredWhileRunning' /\ ActingInv' /\ LoginInv' /\ OnlyWithPassword'
  BY <1>1, Ids DEF LoginModify, modifyUserOfConnection, IInv, TypeOK,
     RegisteredWhileRunning, ActingInv, LoginInv, OnlyWithPassword
<1> QED BY <1>2, <1>3, <1>4 DEF IInv

\* The steps of the server on a package.
LEMMA ServerStep ==
    ASSUME IInv, NEW c \in Conns, Step(c)
    PROVE  IInv'
<1>1. CASE firstUpdateUserPassword(c)
  BY <1>1 DEF firstUpdateUserPassword, IInv, TypeOK, MapsAgree,
     RegisteredWhileRunning, ActingInv, LoginInv, OnlyWithPassword
<1>2. CASE LoginCheck(c)
  BY <1>2 DEF LoginCheck, isUserPassword, IInv, TypeOK, MapsAgree,
     RegisteredWhileRunning, ActingInv, LoginInv, OnlyWithPassword
<1>3. CASE LoginModify(c)
  BY <1>3, LoginModifyStep
<1>4. CASE LoginSet(c)
  BY <1>4 DEF LoginSet, IInv, TypeOK, MapsAgree,
     RegisteredWhileRunning, ActingInv, LoginInv, OnlyWithPassword
<1>5. CASE Execute(c)
  <2>1. pushes' \in [Conns -> 0 .. MaxPushes]
    BY <1>5, MaxPushesAssumption DEF Execute, notifyAll, IInv, TypeOK
  <2> QED
    BY <1>5, <2>1 DEF Execute, IInv, TypeOK, MapsAgree,
       RegisteredWhileRunning, ActingInv, LoginInv, OnlyWithPassword
<1>6. CASE WriteDone(c)
  BY <1>6 DEF WriteDone, IInv, TypeOK, MapsAgree,
     RegisteredWhileRunning, ActingInv, LoginInv, OnlyWithPassword
<1>7. CASE Fail(c)
  BY <1>7, CloseStep DEF Fail
<1> QED BY <1>1, <1>2, <1>3, <1>4, <1>5, <1>6, <1>7 DEF Step

\* A pushed message has been written.
LEMMA PushStep ==
    ASSUME IInv, NEW c \in Conns, PushDone(c)
    PROVE  IInv'
<1>1. pushes' \in [Conns -> 0 .. MaxPushes]
  BY MaxPushesAssumption DEF PushDone, IInv, TypeOK
<1> QED
  BY <1>1 DEF PushDone, IInv, TypeOK, MapsAgree,
     RegisteredWhileRunning, ActingInv, LoginInv, OnlyWithPassword

\* Every step keeps the invariant.
LEMMA NextIInv == IInv /\ [Next]_vars => IInv'
<1> SUFFICES ASSUME IInv, [Next]_vars PROVE IInv' OBVIOUS
<1>1. CASE UNCHANGED vars
  BY <1>1 DEF vars, IInv, TypeOK, MapsAgree,
     RegisteredWhileRunning, ActingInv, LoginInv, OnlyWithPassword
<1>2. ASSUME NEW c \in Conns,
             Accept(c) \/ Refuse(c) \/ Handshake(c) \/ Peer(c)
             \/ Step(c) \/ PushDone(c)
      PROVE  IInv'
  BY <1>2, AcceptStep, PeerStep, ServerStep, PushStep
<1> QED BY <1>1, <1>2 DEF Next

\* The inductive invariant holds throughout.
LEMMA IInvAlways == Spec => []IInv
BY InitIInv, NextIInv, PTL DEF Spec

\* Manager and User values keep their types.
THEOREM TypeCorrect == Spec => []TypeOK
BY IInvAlways, PTL DEF IInv

\* Manager's connection map and the users' connection maps agree after any
\* sequence of logins, logins as someone else and disconnects.
THEOREM MapsAlwaysAgree == Spec => []MapsAgree
BY IInvAlways, PTL DEF IInv

\* No way out of Network::process leaves a connection registered.
THEOREM RegisteredOnlyWhileRunning == Spec => []RegisteredWhileRunning
BY IInvAlways, PTL DEF IInv

\* A command acts for the user the connection is registered for.
THEOREM CommandsAlwaysRunAsOwner == Spec => []CommandsRunAsOwner
<1>1. IInv => CommandsRunAsOwner
  BY DEF IInv, ActingInv, CommandsRunAsOwner
<1> QED BY <1>1, IInvAlways, PTL

\* Nobody is logged in to an account whose password has not been set.
THEOREM LoginOnlyWithPassword == Spec => []OnlyWithPassword
BY IInvAlways, PTL DEF IInv
=============================================================================
