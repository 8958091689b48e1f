--------------------------- MODULE FriendsProofs ---------------------------
(***************************************************************************)
(* Proofs about Friends, for every set of users and sessions and every     *)
(* bound on the rooms.                                                     *)
(*                                                                         *)
(* FriendsHaveRoom is not inductive: it needs to know that a session that  *)
(* is about to write a friend list has already created the room, and that  *)
(* the index names existing rooms of the right pair.                       *)
(***************************************************************************)
EXTENDS Friends, TLAPS

\* The commands in progress act on a registered user; all but
\* send_friend_message on another one than their own.
PeerInv ==
    \A s \in Sessions :
        pc[s] # "idle" =>
            /\ peer[s] \in Users
            /\ pc[s] \notin {"send_has", "send_id", "send_room"} => peer[s] # UserOf[s]

\* What the index names is a room of that pair.
IndexInv ==
    \A p \in Pairs :
        m_userID_to_privateRoomID_map[p] # NoRoom =>
            /\ m_userID_to_privateRoomID_map[p] \in DOMAIN m_privateRoom_map
            /\ m_privateRoom_map[m_userID_to_privateRoomID_map[p]] = p

\* Friends have a room in the index.
FriendIndexInv ==
    \A u, v \in Users : userHasFriend(u, v) => hasPrivateRoom(u, v)

\* An acceptance that is past the creation of the room has a room.
AcceptInv ==
    \A s \in Sessions :
        pc[s] \in {"accept_sender", "accept_receiver"} =>
            hasPrivateRoom(peer[s], UserOf[s])

IInv ==
    /\ TypeOK
    /\ PeerInv
    /\ IndexInv
    /\ FriendIndexInv
    /\ AcceptInv
    /\ SendReachesRoom
    /\ VerifiedIsBeingAccepted

-----------------------------------------------------------------------------
\* The key of the room index does not depend on the order of the users.
LEMMA PairFacts ==
    /\ \A u, v \in Users : {u, v} \in Pairs
    /\ \A u, v : {u, v} = {v, u}
BY DEF Pairs

\* Every session acts for a registered user (login stores an existing one).
LEMMA UserOfType == \A s \in Sessions : UserOf[s] \in Users
BY UserOfAssumption

\* Writing one entry of a two-level map.
LEMMA NestedExcept ==
    ASSUME NEW S, NEW f \in [Users -> [Users -> S]],
           NEW a \in Users, NEW b \in Users, NEW x \in S
    PROVE  /\ [f EXCEPT ![a][b] = x] \in [Users -> [Users -> S]]
           /\ \A c, d \in Users :
                [f EXCEPT ![a][b] = x][c][d] = IF c = a /\ d = b THEN x ELSE f[c][d]
OBVIOUS

\* Manager::init establishes the invariant.
LEMMA InitIInv == Init => IInv
<1> SUFFICES ASSUME Init PROVE IInv
  OBVIOUS
<1> USE DEF Init, FirstRoomId, NoRoom
<1>1. TypeOK
  <2>1. m_privateRoom_map \in [FirstRoomId .. (m_newGroupRoomId - 1) -> Pairs]
    <3>1. FirstRoomId .. (m_newGroupRoomId - 1) = {}
      BY SMT
    <3> QED BY <3>1
  <2>2. m_newGroupRoomId \in Nat /\ m_newGroupRoomId >= FirstRoomId
    OBVIOUS
  <2>3. m_userID_to_privateRoomID_map \in [Pairs -> Nat]
    OBVIOUS
  <2> QED BY <2>1, <2>2, <2>3 DEF TypeOK, Labels, Replies
<1>2. PeerInv BY DEF PeerInv
<1>3. IndexInv BY DEF IndexInv
<1>4. FriendIndexInv BY DEF FriendIndexInv, userHasFriend
<1>5. AcceptInv BY DEF AcceptInv
<1>6. SendReachesRoom BY DEF SendReachesRoom
<1>7. VerifiedIsBeingAccepted BY DEF VerifiedIsBeingAccepted
<1> QED BY <1>1, <1>2, <1>3, <1>4, <1>5, <1>6, <1>7 DEF IInv

-----------------------------------------------------------------------------
\* The parts of TypeOK: the shared containers, and the commands' own state.
SharedTypeOK ==
    /\ m_friendRoomVerification_map
         \in [Users -> [Users -> {"none", "waiting", "verified"}]]
    /\ m_user_friend_verification_map
         \in [Users -> [Users -> {"none", "Sent", "Received"}]]
    /\ m_user_friend_set \in [Users -> SUBSET Users]
    /\ m_newGroupRoomId \in Nat
    /\ m_newGroupRoomId >= FirstRoomId
    /\ m_privateRoom_map \in [FirstRoomId .. (m_newGroupRoomId - 1) -> Pairs]
    /\ m_userID_to_privateRoomID_map \in [Pairs -> Nat]

LocalTypeOK ==
    /\ pc \in [Sessions -> Labels]
    /\ peer \in [Sessions -> Ids \cup {Nobody}]
    /\ room \in [Sessions -> Nat]
    /\ reply \in [Sessions -> Replies]

\* The types split into those of the containers and those of the commands.
LEMMA TypeParts == TypeOK <=> SharedTypeOK /\ LocalTypeOK
BY DEF TypeOK, SharedTypeOK, LocalTypeOK

\* The three ways a command moves keep the types of the commands' state.
LEMMA LocalMoves ==
    ASSUME NEW s \in Sessions, LocalTypeOK
    PROVE  /\ \A l \in Labels : Goto(s, l) => LocalTypeOK'
           /\ \A r \in Replies : Answer(s, r) => LocalTypeOK'
           /\ \A u \in Ids, l \in Labels : Begin(s, u, l) => LocalTypeOK'
<1>1. ASSUME NEW l \in Labels, Goto(s, l) PROVE LocalTypeOK'
  BY <1>1 DEF Goto, LocalTypeOK
<1>2. ASSUME NEW r \in Replies, Answer(s, r) PROVE LocalTypeOK'
  <2>1. "idle" \in Labels /\ NoRoom \in Nat
    BY DEF Labels, NoRoom
  <2> QED BY <1>2, <2>1 DEF Answer, LocalTypeOK
<1>3. ASSUME NEW u \in Ids, NEW l \in Labels, Begin(s, u, l) PROVE LocalTypeOK'
  <2>1. "none" \in Replies
    BY DEF Replies
  <2> QED BY <1>3, <2>1 DEF Begin, LocalTypeOK
<1> QED BY <1>1, <1>2, <1>3

\* An action that leaves the containers alone keeps their types.
LEMMA SharedSame ==
    SharedTypeOK /\ UNCHANGED <<verifications, m_user_friend_set, rooms>> => SharedTypeOK'
BY DEF SharedTypeOK, verifications, rooms

\* Every action keeps the types.
LEMMA TypeStep == TypeOK /\ PeerInv /\ [Next]_vars => TypeOK'
<1> SUFFICES ASSUME SharedTypeOK, LocalTypeOK, PeerInv, [Next]_vars
             PROVE  SharedTypeOK' /\ LocalTypeOK'
  BY TypeParts DEF TypeOK, SharedTypeOK, LocalTypeOK
<1> USE UserOfType
<1>0. /\ \A l \in {"idle", "add_room", "add_has", "apply_room", "apply_insert",
                   "apply_sender", "apply_receiver", "accept_has", "accept_mark",
                   "accept_room", "accept_sender", "accept_receiver", "reject_has",
                   "erase", "erase_sender", "erase_receiver", "remove_has",
                   "remove_own", "remove_peer", "send_has", "send_id", "send_room"} :
              l \in Labels
      /\ "success" \in Replies /\ "error" \in Replies /\ "unknown" \in Replies
  BY DEF Labels, Replies
<1>1. CASE UNCHANGED vars
  BY <1>1 DEF vars, SharedTypeOK, LocalTypeOK, verifications, rooms, locals
<1>2. ASSUME NEW s \in Sessions, NEW u \in Ids, Command(s, u)
      PROVE  SharedTypeOK' /\ LocalTypeOK'
  <2>1. CASE AddFriend(s, u) BY <2>1, <1>0, LocalMoves, SharedSame DEF AddFriend
  <2>2. CASE AcceptFriend(s, u) BY <2>2, <1>0, LocalMoves, SharedSame DEF AcceptFriend
  <2>3. CASE RejectFriend(s, u) BY <2>3, <1>0, LocalMoves, SharedSame DEF RejectFriend
  <2>4. CASE RemoveFriend(s, u) BY <2>4, <1>0, LocalMoves, SharedSame DEF RemoveFriend
  <2>5. CASE SendFriendMessage(s, u)
    BY <2>5, <1>0, LocalMoves, SharedSame DEF SendFriendMessage
  <2> QED BY <1>2, <2>1, <2>2, <2>3, <2>4, <2>5 DEF Command
<1>3. ASSUME NEW s \in Sessions, GetList(s)
      PROVE  SharedTypeOK' /\ LocalTypeOK'
  BY <1>3, <1>0, LocalMoves, SharedSame DEF GetList
<1>4. ASSUME NEW s \in Sessions, Step(s)
      PROVE  SharedTypeOK' /\ LocalTypeOK'
  <2> USE <1>0, LocalMoves, SharedSame
  <2>1. CASE AddCheckRoom(s) BY <2>1 DEF AddCheckRoom
  <2>2. CASE AddCheckVerification(s) BY <2>2 DEF AddCheckVerification
  <2>3. CASE ApplyCheckRoom(s) BY <2>3 DEF ApplyCheckRoom
  <2>4. CASE ApplyInsert(s)
    <3>1. LocalTypeOK' BY <2>4 DEF ApplyInsert
    <3>2. peer[s] \in Users BY <2>4 DEF ApplyInsert, PeerInv
    <3>3. \/ UNCHANGED m_friendRoomVerification_map
          \/ m_friendRoomVerification_map' =
               [m_friendRoomVerification_map EXCEPT ![UserOf[s]][peer[s]] = "waiting"]
      BY <2>4 DEF ApplyInsert
    <3>4. m_friendRoomVerification_map'
            \in [Users -> [Users -> {"none", "waiting", "verified"}]]
      <4>1. m_friendRoomVerification_map
              \in [Users -> [Users -> {"none", "waiting", "verified"}]]
        BY DEF SharedTypeOK
      <4> HIDE <1>0, LocalMoves, SharedSame
      <4>2. UserOf[s] \in Users
        OBVIOUS
      <4>3. [m_friendRoomVerification_map EXCEPT ![UserOf[s]][peer[s]] = "waiting"]
              \in [Users -> [Users -> {"none", "waiting", "verified"}]]
        BY <4>1, <4>2, <3>2, NestedExcept
      <4> QED BY <4>1, <4>3, <3>3
    <3>5. UNCHANGED <<m_user_friend_verification_map, m_user_friend_set, rooms>>
      BY <2>4 DEF ApplyInsert
    <3> QED BY <3>1, <3>4, <3>5 DEF SharedTypeOK, rooms
  <2>5. CASE ApplySender(s)
    <3>1. LocalTypeOK' BY <2>5 DEF ApplySender
    <3>2. peer[s] \in Users BY <2>5 DEF ApplySender, PeerInv
    <3> QED BY <2>5, <3>1, <3>2
            DEF ApplySender, addFriendVerification, SharedTypeOK, rooms
  <2>6. CASE ApplyReceiver(s)
    <3>1. LocalTypeOK' BY <2>6 DEF ApplyReceiver
    <3>2. peer[s] \in Users BY <2>6 DEF ApplyReceiver, PeerInv
    <3> QED BY <2>6, <3>1, <3>2
            DEF ApplyReceiver, addFriendVerification, SharedTypeOK, rooms
  <2>7. CASE AcceptCheckVerification(s) BY <2>7 DEF AcceptCheckVerification
  <2>8. CASE AcceptMark(s)
    <3>1. LocalTypeOK' BY <2>8 DEF AcceptMark
    <3>2. peer[s] \in Users BY <2>8 DEF AcceptMark, PeerInv
    <3>3. \/ UNCHANGED m_friendRoomVerification_map
          \/ m_friendRoomVerification_map' =
               [m_friendRoomVerification_map EXCEPT ![peer[s]][UserOf[s]] = "verified"]
      BY <2>8 DEF AcceptMark
    <3>4. m_friendRoomVerification_map'
            \in [Users -> [Users -> {"none", "waiting", "verified"}]]
      <4>1. m_friendRoomVerification_map
              \in [Users -> [Users -> {"none", "waiting", "verified"}]]
        BY DEF SharedTypeOK
      <4> HIDE <1>0, LocalMoves, SharedSame
      <4>2. UserOf[s] \in Users
        OBVIOUS
      <4>3. [m_friendRoomVerification_map EXCEPT ![peer[s]][UserOf[s]] = "verified"]
              \in [Users -> [Users -> {"none", "waiting", "verified"}]]
        BY <4>1, <4>2, <3>2, NestedExcept
      <4> QED BY <4>1, <4>3, <3>3
    <3>5. UNCHANGED <<m_user_friend_verification_map, m_user_friend_set, rooms>>
      BY <2>8 DEF AcceptMark
    <3> QED BY <3>1, <3>4, <3>5 DEF SharedTypeOK, rooms
  <2>9. CASE AcceptRoom(s)
    <3> DEFINE n == m_newGroupRoomId
               D == DOMAIN m_privateRoom_map
    <3>1. peer[s] \in Users /\ {peer[s], UserOf[s]} \in Pairs
      BY <2>9, PairFacts DEF AcceptRoom, PeerInv
    <3>2. D = FirstRoomId .. (n - 1)
      BY DEF SharedTypeOK
    <3>3. m_newGroupRoomId' = n + 1 /\ n \in Nat /\ n >= FirstRoomId
      BY <2>9 DEF AcceptRoom, addPrivateRoom, SharedTypeOK
    <3>4. D \cup {n} = FirstRoomId .. (m_newGroupRoomId' - 1)
      BY <3>2, <3>3, SMT DEF FirstRoomId
    <3>5. m_privateRoom_map' \in [FirstRoomId .. (m_newGroupRoomId' - 1) -> Pairs]
      <4>1. m_privateRoom_map' =
              [i \in D \cup {n} |->
                 IF i = n THEN {peer[s], UserOf[s]} ELSE m_privateRoom_map[i]]
        BY <2>9 DEF AcceptRoom, addPrivateRoom
      <4>2. \A i \in D \cup {n} :
              (IF i = n THEN {peer[s], UserOf[s]} ELSE m_privateRoom_map[i]) \in Pairs
        BY <3>1, <3>2 DEF SharedTypeOK
      <4> QED BY <4>1, <4>2, <3>4
    <3>6. m_userID_to_privateRoomID_map' \in [Pairs -> Nat]
      BY <2>9, <3>3 DEF AcceptRoom, addPrivateRoom, SharedTypeOK
    <3>7. m_newGroupRoomId' \in Nat /\ m_newGroupRoomId' >= FirstRoomId
      BY <3>3 DEF FirstRoomId
    <3>8. LocalTypeOK' BY <2>9 DEF AcceptRoom
    <3> QED BY <2>9, <3>5, <3>6, <3>7, <3>8 DEF AcceptRoom, SharedTypeOK, verifications
  <2>10. CASE AcceptSender(s)
    <3>1. LocalTypeOK' BY <2>10 DEF AcceptSender
    <3>2. peer[s] \in Users BY <2>10 DEF AcceptSender, PeerInv
    <3> QED BY <2>10, <3>1, <3>2 DEF AcceptSender, SharedTypeOK, verifications, rooms
  <2>11. CASE AcceptReceiver(s)
    <3>1. LocalTypeOK' BY <2>11 DEF AcceptReceiver
    <3>2. peer[s] \in Users BY <2>11 DEF AcceptReceiver, PeerInv
    <3> QED BY <2>11, <3>1, <3>2 DEF AcceptReceiver, SharedTypeOK, verifications, rooms
  <2>12. CASE RejectCheckVerification(s) BY <2>12 DEF RejectCheckVerification
  <2>13. CASE Erase(s)
    <3>1. LocalTypeOK' BY <2>13 DEF Erase
    <3>2. peer[s] \in Users BY <2>13 DEF Erase, PeerInv
    <3>3. \/ UNCHANGED m_friendRoomVerification_map
          \/ m_friendRoomVerification_map' =
               [m_friendRoomVerification_map EXCEPT ![peer[s]][UserOf[s]] = "none"]
      BY <2>13 DEF Erase
    <3>4. m_friendRoomVerification_map'
            \in [Users -> [Users -> {"none", "waiting", "verified"}]]
      <4>1. m_friendRoomVerification_map
              \in [Users -> [Users -> {"none", "waiting", "verified"}]]
        BY DEF SharedTypeOK
      <4> HIDE <1>0, LocalMoves, SharedSame
      <4>2. UserOf[s] \in Users
        OBVIOUS
      <4>3. [m_friendRoomVerification_map EXCEPT ![peer[s]][UserOf[s]] = "none"]
              \in [Users -> [Users -> {"none", "waiting", "verified"}]]
        BY <4>1, <4>2, <3>2, NestedExcept
      <4> QED BY <4>1, <4>3, <3>3
    <3>5. UNCHANGED <<m_user_friend_verification_map, m_user_friend_set, rooms>>
      BY <2>13 DEF Erase
    <3> QED BY <3>1, <3>4, <3>5 DEF SharedTypeOK, rooms
  <2>14. CASE EraseSender(s)
    <3>1. LocalTypeOK' BY <2>14 DEF EraseSender
    <3>2. peer[s] \in Users BY <2>14 DEF EraseSender, PeerInv
    <3> QED BY <2>14, <3>1, <3>2
            DEF EraseSender, removeFriendVerification, SharedTypeOK, rooms
  <2>15. CASE EraseReceiver(s)
    <3>1. LocalTypeOK' BY <2>15 DEF EraseReceiver
    <3>2. peer[s] \in Users BY <2>15 DEF EraseReceiver, PeerInv
    <3> QED BY <2>15, <3>1, <3>2
            DEF EraseReceiver, removeFriendVerification, SharedTypeOK, rooms
  <2>16. CASE RemoveCheckFriend(s) BY <2>16 DEF RemoveCheckFriend
  <2>17. CASE RemoveOwn(s)
    <3>1. LocalTypeOK' BY <2>17 DEF RemoveOwn
    <3> QED BY <2>17, <3>1 DEF RemoveOwn, SharedTypeOK, verifications, rooms
  <2>18. CASE RemovePeer(s)
    <3>1. LocalTypeOK' BY <2>18 DEF RemovePeer
    <3> QED BY <2>18, <3>1 DEF RemovePeer, SharedTypeOK, verifications, rooms
  <2>19. CASE SendCheckFriend(s) BY <2>19 DEF SendCheckFriend
  <2>20. CASE getPrivateRoomId(s)
    <3>1. SharedTypeOK' BY <2>20 DEF getPrivateRoomId
    <3>2. {UserOf[s], peer[s]} \in Pairs
      BY <2>20, PairFacts DEF getPrivateRoomId, PeerInv
    <3>3. m_userID_to_privateRoomID_map[{UserOf[s], peer[s]}] \in Nat
      BY <3>2 DEF SharedTypeOK
    <3>4. LocalTypeOK'
      <4>1. CASE Answer(s, "unknown") BY <4>1
      <4>2. CASE ~Answer(s, "unknown")
        BY <2>20, <4>2, <3>3 DEF getPrivateRoomId, LocalTypeOK
      <4> QED BY <4>1, <4>2
    <3> QED BY <3>1, <3>4
  <2>21. CASE SendToRoom(s) BY <2>21 DEF SendToRoom
  <2> QED BY <1>4, <2>1, <2>2, <2>3, <2>4, <2>5, <2>6, <2>7, <2>8, <2>9,
             <2>10, <2>11, <2>12, <2>13, <2>14, <2>15, <2>16, <2>17, <2>18,
             <2>19, <2>20, <2>21 DEF Step
<1> QED BY <1>1, <1>2, <1>3, <1>4 DEF Next

-----------------------------------------------------------------------------
(* Frames: which actions write which container.                            *)

\* Only the creation of a room in an acceptance writes the room containers.
LEMMA RoomsFrame ==
    [Next]_vars => UNCHANGED rooms \/ \E s \in Sessions : AcceptRoom(s)
BY DEF vars, Next, Command, Step, GetList,
       AddFriend, AcceptFriend, RejectFriend, RemoveFriend,
       SendFriendMessage, AddCheckRoom, AddCheckVerification, ApplyCheckRoom,
       ApplyInsert, ApplySender, ApplyReceiver, AcceptCheckVerification,
       AcceptMark, AcceptRoom, AcceptSender, AcceptReceiver,
       RejectCheckVerification, Erase, EraseSender, EraseReceiver,
       RemoveCheckFriend, RemoveOwn, RemovePeer, SendCheckFriend,
       getPrivateRoomId, SendToRoom

\* Which actions write a friend set.
LEMMA FriendSetFrame ==
    [Next]_vars =>
        \/ UNCHANGED m_user_friend_set
        \/ \E s \in Sessions : \/ AcceptSender(s) \/ AcceptReceiver(s)
                               \/ RemoveOwn(s) \/ RemovePeer(s)
BY DEF vars, Next, Command, Step, GetList,
       AddFriend, AcceptFriend, RejectFriend, RemoveFriend,
       SendFriendMessage, AddCheckRoom, AddCheckVerification, ApplyCheckRoom,
       ApplyInsert, ApplySender, ApplyReceiver, AcceptCheckVerification,
       AcceptMark, AcceptRoom, AcceptSender, AcceptReceiver,
       RejectCheckVerification, Erase, EraseSender, EraseReceiver,
       RemoveCheckFriend, RemoveOwn, RemovePeer, SendCheckFriend,
       getPrivateRoomId, SendToRoom

\* Which actions write the requests.
LEMMA RequestFrame ==
    [Next]_vars =>
        \/ UNCHANGED m_friendRoomVerification_map
        \/ \E s \in Sessions : ApplyInsert(s) \/ AcceptMark(s) \/ Erase(s)
BY DEF vars, verifications, Next, Command, Step, GetList,
       AddFriend, AcceptFriend, RejectFriend, RemoveFriend,
       SendFriendMessage, AddCheckRoom, AddCheckVerification, ApplyCheckRoom,
       ApplyInsert, ApplySender, ApplyReceiver, AcceptCheckVerification,
       AcceptMark, AcceptRoom, AcceptSender, AcceptReceiver,
       RejectCheckVerification, Erase, EraseSender, EraseReceiver,
       RemoveCheckFriend, RemoveOwn, RemovePeer, SendCheckFriend,
       getPrivateRoomId, SendToRoom

-----------------------------------------------------------------------------
(* The control flow of a command.                                          *)

Moves(s) == (\E u \in Ids : Command(s, u)) \/ Step(s) \/ GetList(s)

\* Where a session can come from, and that only its own step moves it.
ControlFlow(s) ==
    /\ \A t \in Sessions \ {s} :
         pc'[t] = pc[t] /\ peer'[t] = peer[t] /\ room'[t] = room[t]
    /\ \/ pc'[s] = "idle"
       \/ /\ pc[s] = "idle"
          /\ pc'[s] \in {"add_room", "accept_has", "reject_has", "remove_has"}
          /\ Valid(s, peer'[s])
       \/ /\ pc[s] = "idle"
          /\ pc'[s] = "send_has"
          /\ peer'[s] \in Users
       \/ /\ pc[s] # "idle"
          /\ peer'[s] = peer[s]
          /\ pc'[s] = "send_id" => pc[s] = "send_has"
          /\ pc'[s] = "send_room" => pc[s] = "send_id"
          /\ pc'[s] \notin {"send_has", "send_id", "send_room"} =>
               pc[s] \notin {"send_has", "send_id", "send_room"}
          /\ pc'[s] # "send_has"
          /\ pc'[s] = "accept_room" => pc[s] = "accept_mark"
          /\ pc'[s] = "accept_sender" => pc[s] = "accept_room"
          /\ pc'[s] = "accept_receiver" => pc[s] = "accept_sender"
          /\ pc'[s] = "erase" => pc[s] \in {"accept_receiver", "reject_has"}

\* How a session moves from one place of a command to the next.
LEMMA Control ==
    ASSUME LocalTypeOK, NEW s \in Sessions, Moves(s)
    PROVE  ControlFlow(s)
<1> USE DEF LocalTypeOK, ControlFlow, Goto, Answer
<1>1. ASSUME NEW u \in Ids, Command(s, u) PROVE ControlFlow(s)
  <2> USE DEF Begin, Valid
  <2>1. CASE AddFriend(s, u) BY <2>1 DEF AddFriend
  <2>2. CASE AcceptFriend(s, u) BY <2>2 DEF AcceptFriend
  <2>3. CASE RejectFriend(s, u) BY <2>3 DEF RejectFriend
  <2>4. CASE RemoveFriend(s, u) BY <2>4 DEF RemoveFriend
  <2>5. CASE SendFriendMessage(s, u) BY <2>5 DEF SendFriendMessage
  <2> QED BY <1>1, <2>1, <2>2, <2>3, <2>4, <2>5 DEF Command
<1>2. CASE GetList(s) BY <1>2 DEF GetList
<1>3. ASSUME Step(s) PROVE ControlFlow(s)
  <2>1. CASE AddCheckRoom(s) BY <2>1 DEF AddCheckRoom
  <2>2. CASE AddCheckVerification(s) BY <2>2 DEF AddCheckVerification
  <2>3. CASE ApplyCheckRoom(s) BY <2>3 DEF ApplyCheckRoom
  <2>4. CASE ApplyInsert(s) BY <2>4 DEF ApplyInsert
  <2>5. CASE ApplySender(s) BY <2>5 DEF ApplySender
  <2>6. CASE ApplyReceiver(s) BY <2>6 DEF ApplyReceiver
  <2>7. CASE AcceptCheckVerification(s) BY <2>7 DEF AcceptCheckVerification
  <2>8. CASE AcceptMark(s) BY <2>8 DEF AcceptMark
  <2>9. CASE AcceptRoom(s) BY <2>9 DEF AcceptRoom
  <2>10. CASE AcceptSender(s) BY <2>10 DEF AcceptSender
  <2>11. CASE AcceptReceiver(s) BY <2>11 DEF AcceptReceiver
  <2>12. CASE RejectCheckVerification(s) BY <2>12 DEF RejectCheckVerification
  <2>13. CASE Erase(s) BY <2>13 DEF Erase
  <2>14. CASE EraseSender(s) BY <2>14 DEF EraseSender
  <2>15. CASE EraseReceiver(s) BY <2>15 DEF EraseReceiver
  <2>16. CASE RemoveCheckFriend(s) BY <2>16 DEF RemoveCheckFriend
  <2>17. CASE RemoveOwn(s) BY <2>17 DEF RemoveOwn
  <2>18. CASE RemovePeer(s) BY <2>18 DEF RemovePeer
  <2>19. CASE SendCheckFriend(s) BY <2>19 DEF SendCheckFriend
  <2>20. CASE getPrivateRoomId(s) BY <2>20 DEF getPrivateRoomId
  <2>21. CASE SendToRoom(s) BY <2>21 DEF SendToRoom
  <2> QED
    BY <1>3, <2>1, <2>2, <2>3, <2>4, <2>5, <2>6, <2>7, <2>8, <2>9, <2>10,
       <2>11, <2>12, <2>13, <2>14, <2>15, <2>16, <2>17, <2>18, <2>19, <2>20,
       <2>21 DEF Step
<1> QED BY <1>1, <1>2, <1>3 DEF Moves

\* A step is a move of some session, or nothing moves.
LEMMA SomeoneMoves == [Next]_vars => UNCHANGED vars \/ \E s \in Sessions : Moves(s)
BY DEF Next, Moves

\* The action a session performs is the one its label names.
LEMMA LabelAction ==
    ASSUME NEW s \in Sessions, Moves(s)
    PROVE  /\ pc[s] = "accept_room" => AcceptRoom(s)
           /\ pc[s] = "accept_mark" => AcceptMark(s)
           /\ pc[s] = "accept_sender" => AcceptSender(s)
           /\ pc[s] = "accept_receiver" => AcceptReceiver(s)
           /\ pc[s] = "erase" => Erase(s)
           /\ pc[s] = "send_has" => SendCheckFriend(s)
           /\ pc[s] = "send_id" => getPrivateRoomId(s)
BY DEF Moves, Command, Step, GetList,
       AddFriend, AcceptFriend, RejectFriend, RemoveFriend, SendFriendMessage,
       AddCheckRoom, AddCheckVerification, ApplyCheckRoom, ApplyInsert,
       ApplySender, ApplyReceiver, AcceptCheckVerification, AcceptMark,
       AcceptRoom, AcceptSender, AcceptReceiver, RejectCheckVerification,
       Erase, EraseSender, EraseReceiver, RemoveCheckFriend, RemoveOwn,
       RemovePeer, SendCheckFriend, getPrivateRoomId, SendToRoom

-----------------------------------------------------------------------------
(* Each part of the invariant is kept.                                     *)

\* No command changes the user it is about.
LEMMA PeerStep == TypeOK /\ PeerInv /\ [Next]_vars => PeerInv'
<1> SUFFICES ASSUME LocalTypeOK, PeerInv, [Next]_vars PROVE PeerInv'
  BY TypeParts
<1>1. CASE UNCHANGED vars
  BY <1>1 DEF vars, locals, PeerInv
<1>2. ASSUME NEW s \in Sessions, Moves(s) PROVE PeerInv'
  <2>1. ControlFlow(s)
    BY <1>2, Control
  <2> SUFFICES ASSUME NEW t \in Sessions, pc'[t] # "idle"
               PROVE  /\ peer'[t] \in Users
                      /\ pc'[t] \notin {"send_has", "send_id", "send_room"} =>
                           peer'[t] # UserOf[t]
    BY DEF PeerInv
  <2>2. CASE t # s BY <2>1, <2>2 DEF ControlFlow, PeerInv
  <2>3. CASE t = s BY <2>1, <2>3 DEF ControlFlow, PeerInv, Valid
  <2> QED BY <2>2, <2>3
<1> QED BY <1>1, <1>2, SomeoneMoves

\* What Manager::addPrivateRoom does to the room of any pair: an old room
\* stays the room of its pair, and a pair that has a room keeps having one.
LEMMA AddRoomFacts ==
    ASSUME TypeOK, IndexInv, NEW u \in Users, NEW v \in Users, addPrivateRoom(u, v)
    PROVE  /\ IndexInv'
           /\ m_userID_to_privateRoomID_map'[{u, v}] # NoRoom
           /\ \A p \in Pairs :
                /\ m_userID_to_privateRoomID_map[p] # NoRoom =>
                     m_userID_to_privateRoomID_map'[p] # NoRoom
                /\ p # {u, v} =>
                     m_userID_to_privateRoomID_map'[p] = m_userID_to_privateRoomID_map[p]
                /\ m_userID_to_privateRoomID_map'[p] >= m_userID_to_privateRoomID_map[p]
           /\ \A i \in DOMAIN m_privateRoom_map :
                /\ i \in DOMAIN m_privateRoom_map'
                /\ m_privateRoom_map'[i] = m_privateRoom_map[i]
<1> DEFINE n == m_newGroupRoomId
           D == DOMAIN m_privateRoom_map
<1>1. {u, v} \in Pairs BY PairFacts
<1>2. n \in Nat /\ n >= 10000 /\ n # NoRoom
  BY DEF TypeOK, FirstRoomId, NoRoom
<1>3. \A i \in D : i \in Nat /\ i < n
  BY DEF TypeOK, FirstRoomId
<1>4. /\ DOMAIN m_privateRoom_map' = D \cup {n}
      /\ m_privateRoom_map'[n] = {u, v}
      /\ \A i \in D : m_privateRoom_map'[i] = m_privateRoom_map[i]
  BY <1>2, <1>3 DEF addPrivateRoom
<1>5. /\ m_userID_to_privateRoomID_map'[{u, v}] = n
      /\ \A p \in Pairs : p # {u, v} =>
            m_userID_to_privateRoomID_map'[p] = m_userID_to_privateRoomID_map[p]
  BY <1>1 DEF addPrivateRoom, TypeOK
<1>6. IndexInv'
  BY <1>4, <1>5 DEF IndexInv
<1>7. \A p \in Pairs :
        m_userID_to_privateRoomID_map'[p] >= m_userID_to_privateRoomID_map[p]
  <2> SUFFICES ASSUME NEW p \in Pairs
               PROVE m_userID_to_privateRoomID_map'[p] >= m_userID_to_privateRoomID_map[p]
    OBVIOUS
  <2>0. m_userID_to_privateRoomID_map[p] \in Nat BY DEF TypeOK
  <2>1. CASE p # {u, v} BY <2>0, <2>1, <1>5
  <2>2. CASE p = {u, v}
    <3>1. CASE m_userID_to_privateRoomID_map[p] = NoRoom
      BY <2>2, <3>1, <1>2, <1>5 DEF NoRoom
    <3>2. CASE m_userID_to_privateRoomID_map[p] # NoRoom
      BY <2>0, <2>2, <3>2, <1>2, <1>3, <1>5 DEF IndexInv
    <3> QED BY <3>1, <3>2
  <2> QED BY <2>1, <2>2
<1>8. \A p \in Pairs : m_userID_to_privateRoomID_map[p] # NoRoom =>
                        m_userID_to_privateRoomID_map'[p] # NoRoom
  <2> SUFFICES ASSUME NEW p \in Pairs, m_userID_to_privateRoomID_map[p] # NoRoom
               PROVE  m_userID_to_privateRoomID_map'[p] # NoRoom
    OBVIOUS
  <2>1. CASE p = {u, v} BY <2>1, <1>2, <1>5
  <2>2. CASE p # {u, v} BY <2>2, <1>5
  <2> QED BY <2>1, <2>2
<1> QED BY <1>2, <1>4, <1>5, <1>6, <1>7, <1>8

\* Every step: the index stays sound, rooms stay, the index only grows.
LEMMA RoomStep ==
    ASSUME TypeOK, PeerInv, IndexInv, [Next]_vars
    PROVE  /\ IndexInv'
           /\ \A p \in Pairs :
                /\ m_userID_to_privateRoomID_map[p] # NoRoom =>
                     m_userID_to_privateRoomID_map'[p] # NoRoom
                /\ m_userID_to_privateRoomID_map'[p] >= m_userID_to_privateRoomID_map[p]
           /\ \A i \in DOMAIN m_privateRoom_map :
                /\ i \in DOMAIN m_privateRoom_map'
                /\ m_privateRoom_map'[i] = m_privateRoom_map[i]
<1>1. CASE UNCHANGED rooms
  <2>1. \A p \in Pairs :
          m_userID_to_privateRoomID_map[p] >= m_userID_to_privateRoomID_map[p]
    BY DEF TypeOK
  <2> QED BY <1>1, <2>1 DEF rooms, IndexInv
<1>2. ASSUME NEW s \in Sessions, AcceptRoom(s)
      PROVE  addPrivateRoom(peer[s], UserOf[s]) /\ peer[s] \in Users /\ UserOf[s] \in Users
  BY <1>2, UserOfType DEF AcceptRoom, PeerInv
<1>3. CASE \E s \in Sessions : AcceptRoom(s)
  BY <1>2, <1>3, AddRoomFacts
<1> QED BY <1>1, <1>3, RoomsFrame

\* Once addPrivateRoom has run for an acceptance, the pair keeps a room.
LEMMA AcceptStep ==
    TypeOK /\ PeerInv /\ IndexInv /\ AcceptInv /\ [Next]_vars => AcceptInv'
<1> SUFFICES ASSUME TypeOK, PeerInv, IndexInv, AcceptInv, [Next]_vars PROVE AcceptInv'
  OBVIOUS
<1>0. LocalTypeOK BY TypeParts
<1>1. CASE UNCHANGED vars
  BY <1>1 DEF vars, locals, rooms, AcceptInv, hasPrivateRoom
<1>2. ASSUME NEW s \in Sessions, Moves(s) PROVE AcceptInv'
  <2>1. ControlFlow(s)
    BY <1>0, <1>2, Control
  <2> SUFFICES ASSUME NEW t \in Sessions,
                      pc'[t] \in {"accept_sender", "accept_receiver"}
               PROVE  m_userID_to_privateRoomID_map'[{peer'[t], UserOf[t]}] # NoRoom
    BY DEF AcceptInv, hasPrivateRoom
  <2>2. peer'[t] \in Users /\ UserOf[t] \in Users
    BY PeerStep, UserOfType DEF PeerInv
  <2>3. {peer'[t], UserOf[t]} \in Pairs
    BY <2>2, PairFacts
  <2>4. CASE m_userID_to_privateRoomID_map[{peer'[t], UserOf[t]}] # NoRoom
    BY <2>3, <2>4, RoomStep
  <2>5. CASE m_userID_to_privateRoomID_map[{peer'[t], UserOf[t]}] = NoRoom
    <3>1. t = s
      BY <2>1, <2>5 DEF ControlFlow, AcceptInv, hasPrivateRoom
    <3>2. pc[s] = "accept_room" /\ pc'[s] = "accept_sender" /\ peer'[s] = peer[s]
      BY <2>1, <2>5, <3>1 DEF ControlFlow, AcceptInv, hasPrivateRoom
    <3>3. AcceptRoom(s)
      BY <1>2, <3>2, LabelAction
    <3>4. addPrivateRoom(peer[s], UserOf[s])
      BY <3>3 DEF AcceptRoom
    <3> QED BY <2>2, <3>1, <3>2, <3>4, AddRoomFacts
  <2> QED BY <2>4, <2>5
<1> QED BY <1>1, <1>2, SomeoneMoves

\* A friend list only gains a user the pair already has a room with.
LEMMA FriendIndexStep ==
    TypeOK /\ PeerInv /\ IndexInv /\ FriendIndexInv /\ AcceptInv /\ [Next]_vars
        => FriendIndexInv'
<1> SUFFICES ASSUME TypeOK, PeerInv, IndexInv, FriendIndexInv, AcceptInv, [Next]_vars,
                    NEW u \in Users, NEW v \in Users, v \in m_user_friend_set'[u]
             PROVE  m_userID_to_privateRoomID_map'[{u, v}] # NoRoom
  BY DEF FriendIndexInv, userHasFriend, hasPrivateRoom
<1>1. {u, v} \in Pairs BY PairFacts
<1>2. SUFFICES m_userID_to_privateRoomID_map[{u, v}] # NoRoom
  BY <1>1, RoomStep
<1>3. CASE v \in m_user_friend_set[u]
  BY <1>3 DEF FriendIndexInv, userHasFriend, hasPrivateRoom
<1>4. CASE v \notin m_user_friend_set[u]
  <2>1. PICK s \in Sessions : \/ AcceptSender(s) \/ AcceptReceiver(s)
                              \/ RemoveOwn(s) \/ RemovePeer(s)
    BY <1>4, FriendSetFrame
  <2>2. peer[s] \in Users /\ UserOf[s] \in Users
    BY <2>1, UserOfType
       DEF PeerInv, AcceptSender, AcceptReceiver, RemoveOwn, RemovePeer
  <2>3. ~RemoveOwn(s) /\ ~RemovePeer(s)
    <3>1. m_user_friend_set \in [Users -> SUBSET Users] BY DEF TypeOK
    <3>2. ASSUME RemoveOwn(s) PROVE FALSE
      BY <1>4, <2>2, <3>1, <3>2 DEF RemoveOwn
    <3>3. ASSUME RemovePeer(s) PROVE FALSE
      BY <1>4, <2>2, <3>1, <3>3 DEF RemovePeer
    <3> QED BY <3>2, <3>3
  <2>4. CASE AcceptSender(s)
    <3>1. u = peer[s] /\ v = UserOf[s]
      BY <1>4, <2>2, <2>4 DEF AcceptSender, TypeOK
    <3> QED BY <2>4, <3>1 DEF AcceptSender, AcceptInv, hasPrivateRoom
  <2>5. CASE AcceptReceiver(s)
    <3>1. u = UserOf[s] /\ v = peer[s]
      BY <1>4, <2>2, <2>5 DEF AcceptReceiver, TypeOK
    <3> QED BY <2>5, <3>1, PairFacts DEF AcceptReceiver, AcceptInv, hasPrivateRoom
  <2> QED BY <2>1, <2>3, <2>4, <2>5
<1> QED BY <1>3, <1>4

\* A message on its way keeps its room, whatever the other sessions do.
LEMMA SendStep ==
    TypeOK /\ PeerInv /\ IndexInv /\ FriendIndexInv /\ SendReachesRoom /\ [Next]_vars
        => SendReachesRoom'
<1> SUFFICES ASSUME TypeOK, PeerInv, IndexInv, FriendIndexInv, SendReachesRoom,
                    [Next]_vars
             PROVE  SendReachesRoom'
  OBVIOUS
<1>0. LocalTypeOK BY TypeParts
<1>1. CASE UNCHANGED vars
  BY <1>1 DEF vars, locals, rooms, SendReachesRoom, hasPrivateRoom
<1>2. ASSUME NEW s \in Sessions, Moves(s) PROVE SendReachesRoom'
  <2>1. ControlFlow(s)
    BY <1>0, <1>2, Control
  <2>2. ASSUME NEW t \in Sessions, pc'[t] = "send_id"
        PROVE  hasPrivateRoom(UserOf[t], peer[t])' /\ peer'[t] = peer[t]
    <3>1. peer'[t] = peer[t] /\ peer[t] \in Users /\ UserOf[t] \in Users
      BY <2>1, <2>2, UserOfType DEF ControlFlow, PeerInv
    <3>2. hasPrivateRoom(UserOf[t], peer[t])
      <4>1. CASE t # s BY <2>1, <2>2, <4>1 DEF ControlFlow, SendReachesRoom
      <4>2. CASE t = s
        <5>1. SendCheckFriend(s)
          BY <1>2, <2>1, <2>2, <4>2, LabelAction DEF ControlFlow
        <5>2. userHasFriend(UserOf[s], peer[s])
          BY <1>0, <2>2, <4>2, <5>1 DEF SendCheckFriend, Answer, LocalTypeOK
        <5> QED BY <3>1, <4>2, <5>2 DEF FriendIndexInv
      <4> QED BY <4>1, <4>2
    <3>3. {UserOf[t], peer[t]} \in Pairs BY <3>1, PairFacts
    <3> QED BY <3>1, <3>2, <3>3, RoomStep DEF hasPrivateRoom
  <2>3. ASSUME NEW t \in Sessions, pc'[t] = "send_room"
        PROVE  /\ room'[t] \in DOMAIN m_privateRoom_map'
               /\ m_privateRoom_map'[room'[t]] = {UserOf[t], peer'[t]}
    <3>1. SUFFICES /\ room'[t] \in DOMAIN m_privateRoom_map
                   /\ m_privateRoom_map[room'[t]] = {UserOf[t], peer'[t]}
      BY RoomStep
    <3>2. CASE t # s BY <2>1, <2>3, <3>2 DEF ControlFlow, SendReachesRoom
    <3>3. CASE t = s
      <4>1. pc[s] = "send_id" /\ peer'[s] = peer[s] /\ peer[s] \in Users
        BY <2>1, <2>3, <3>3 DEF ControlFlow, PeerInv
      <4>2. getPrivateRoomId(s) BY <1>2, <4>1, LabelAction
      <4>3. hasPrivateRoom(UserOf[s], peer[s]) BY <4>1 DEF SendReachesRoom
      <4>4. {UserOf[s], peer[s]} \in Pairs BY <4>1, PairFacts, UserOfType
      <4>5. room'[s] = m_userID_to_privateRoomID_map[{UserOf[s], peer[s]}]
        BY <1>0, <4>2, <4>3 DEF getPrivateRoomId, LocalTypeOK
      <4> QED BY <3>3, <4>1, <4>3, <4>4, <4>5 DEF IndexInv, hasPrivateRoom
    <3> QED BY <3>2, <3>3
  <2> QED BY <2>2, <2>3 DEF SendReachesRoom, hasPrivateRoom
<1> QED BY <1>1, <1>2, SomeoneMoves

\* Only AcceptMark sets the flag, and its session erases the request later.
LEMMA VerifiedStep ==
    TypeOK /\ PeerInv /\ VerifiedIsBeingAccepted /\ [Next]_vars
        => VerifiedIsBeingAccepted'
<1> SUFFICES ASSUME TypeOK, PeerInv, VerifiedIsBeingAccepted, [Next]_vars
             PROVE  VerifiedIsBeingAccepted'
  OBVIOUS
<1>0. LocalTypeOK BY TypeParts
<1>1. CASE UNCHANGED vars
  BY <1>1 DEF vars, locals, verifications, VerifiedIsBeingAccepted
<1>2. ASSUME NEW s \in Sessions, Moves(s) PROVE VerifiedIsBeingAccepted'
  <2> DEFINE InAccept == {"accept_room", "accept_sender", "accept_receiver", "erase"}
             map == m_friendRoomVerification_map
  <2>1. ControlFlow(s)
    BY <1>0, <1>2, Control
  <2> SUFFICES ASSUME NEW a \in Users, NEW b \in Users, map'[a][b] = "verified"
               PROVE  \E t \in Sessions :
                         UserOf[t] = b /\ peer'[t] = a /\ pc'[t] \in InAccept
    BY DEF VerifiedIsBeingAccepted
  <2>0. map \in [Users -> [Users -> {"none", "waiting", "verified"}]] BY DEF TypeOK
  <2>2. CASE map[a][b] = "verified"
    <3>1. PICK t \in Sessions : UserOf[t] = b /\ peer[t] = a /\ pc[t] \in InAccept
      BY <2>2 DEF VerifiedIsBeingAccepted
    <3>2. CASE t # s BY <2>1, <3>1, <3>2 DEF ControlFlow
    <3>3. CASE t = s
      <4>1. CASE pc[s] = "erase"
        <5>1. Erase(s) BY <1>2, <4>1, LabelAction
        <5>2. hasFriendRoomVerification(peer[s], UserOf[s])
          BY <2>2, <3>1, <3>3 DEF hasFriendRoomVerification
        <5>3. map' = [map EXCEPT ![a][b] = "none"]
          BY <3>1, <3>3, <5>1, <5>2 DEF Erase
        <5>4. map'[a][b] = "none"
          BY <2>0, <5>3, NestedExcept
        <5> QED BY <5>4
      <4>2. CASE pc[s] = "accept_room"
        BY <1>0, <1>2, <3>1, <3>3, <4>2, LabelAction DEF AcceptRoom, Goto, LocalTypeOK
      <4>3. CASE pc[s] = "accept_sender"
        BY <1>0, <1>2, <3>1, <3>3, <4>3, LabelAction DEF AcceptSender, Goto, LocalTypeOK
      <4>4. CASE pc[s] = "accept_receiver"
        BY <1>0, <1>2, <3>1, <3>3, <4>4, LabelAction DEF AcceptReceiver, Goto, LocalTypeOK
      <4> QED BY <3>1, <3>3, <4>1, <4>2, <4>3, <4>4
    <3> QED BY <3>2, <3>3
  <2>3. CASE map[a][b] # "verified"
    <3>1. PICK t \in Sessions : ApplyInsert(t) \/ AcceptMark(t) \/ Erase(t)
      BY <2>3, RequestFrame
    <3>2. peer[t] \in Users /\ UserOf[t] \in Users
      BY <3>1, UserOfType DEF PeerInv, ApplyInsert, AcceptMark, Erase
    <3>3. ~ApplyInsert(t)
      <4> SUFFICES ASSUME ApplyInsert(t) PROVE FALSE
        OBVIOUS
      <4>1. map' = [map EXCEPT ![UserOf[t]][peer[t]] = "waiting"]
        BY <2>3 DEF ApplyInsert
      <4>2. map'[a][b] = IF a = UserOf[t] /\ b = peer[t] THEN "waiting" ELSE map[a][b]
        BY <2>0, <3>2, <4>1, NestedExcept
      <4> QED BY <2>3, <4>2
    <3>4. ~Erase(t)
      <4> SUFFICES ASSUME Erase(t) PROVE FALSE
        OBVIOUS
      <4>1. map' = [map EXCEPT ![peer[t]][UserOf[t]] = "none"]
        BY <2>3 DEF Erase
      <4>2. map'[a][b] = IF a = peer[t] /\ b = UserOf[t] THEN "none" ELSE map[a][b]
        BY <2>0, <3>2, <4>1, NestedExcept
      <4> QED BY <2>3, <4>2
    <3>5. AcceptMark(t) BY <3>1, <3>3, <3>4
    <3>6. map' = [map EXCEPT ![peer[t]][UserOf[t]] = "verified"] /\ Goto(t, "accept_room")
      BY <2>3, <3>5 DEF AcceptMark
    <3>7. map'[a][b] = IF a = peer[t] /\ b = UserOf[t] THEN "verified" ELSE map[a][b]
      BY <2>0, <3>2, <3>6, NestedExcept
    <3>8. a = peer[t] /\ b = UserOf[t] BY <2>3, <3>7
    <3> QED BY <1>0, <3>6, <3>8 DEF Goto, LocalTypeOK
  <2> QED BY <2>2, <2>3
<1> QED BY <1>1, <1>2, SomeoneMoves

-----------------------------------------------------------------------------
(* The theorems.                                                           *)

\* The invariant holds in every reachable state.
LEMMA Invariance == Spec => []IInv
<1>1. IInv /\ [Next]_vars => IInv'
  BY TypeStep, PeerStep, RoomStep, AcceptStep, FriendIndexStep, SendStep, VerifiedStep
     DEF IInv
<1> QED BY InitIInv, <1>1, PTL DEF Spec

\* Types: the containers and the state of the commands keep their types,
\* whatever the sessions do.
THEOREM TypeCorrect == Spec => []TypeOK
<1>1. IInv => TypeOK BY DEF IInv
<1> QED BY Invariance, <1>1, PTL

\* Every friend in a user's list can be written to: the room exists before
\* either list is updated and is never lost (acceptFriendVerification).
THEOREM FriendsHaveRoomAlways == Spec => []FriendsHaveRoom
<1>1. IInv => FriendsHaveRoom
  <2> SUFFICES ASSUME IInv, NEW u \in Users, NEW v \in Users, userHasFriend(u, v)
               PROVE  /\ hasPrivateRoom(u, v)
                      /\ m_userID_to_privateRoomID_map[{u, v}] \in DOMAIN m_privateRoom_map
                      /\ m_privateRoom_map[m_userID_to_privateRoomID_map[{u, v}]] = {u, v}
    BY DEF FriendsHaveRoom
  <2>1. hasPrivateRoom(u, v) BY DEF IInv, FriendIndexInv
  <2>2. {u, v} \in Pairs BY PairFacts
  <2> QED BY <2>1, <2>2 DEF IInv, IndexInv, hasPrivateRoom
<1> QED BY Invariance, <1>1, PTL

\* send_friend_message never fails between its checks: the three separately
\* locked steps always find the room of the two users.
THEOREM SendReachesRoomAlways == Spec => []SendReachesRoom
<1>1. IInv => SendReachesRoom BY DEF IInv
<1> QED BY Invariance, <1>1, PTL

\* An accepted request does not stay behind in the manager.
THEOREM VerifiedIsBeingAcceptedAlways == Spec => []VerifiedIsBeingAccepted
<1>1. IInv => VerifiedIsBeingAccepted BY DEF IInv
<1> QED BY Invariance, <1>1, PTL

\* Rooms are never removed or reassigned, and the index of a pair only moves
\* to newer rooms (Manager::addPrivateRoom).
THEOREM RoomsArePermanent == Spec => RoomsPermanent
<1> DEFINE Keeps ==
      /\ \A i \in DOMAIN m_privateRoom_map :
           /\ i \in DOMAIN m_privateRoom_map'
           /\ m_privateRoom_map'[i] = m_privateRoom_map[i]
      /\ \A p \in Pairs :
           m_userID_to_privateRoomID_map'[p] >= m_userID_to_privateRoomID_map[p]
<1>1. IInv /\ [Next]_vars => [Keeps]_vars
  BY RoomStep DEF IInv
<1> QED BY Invariance, <1>1, PTL DEF Spec, RoomsPermanent

-----------------------------------------------------------------------------
(* Friends implements Friendship.                                          *)

\* A grant appears only through AcceptMark and disappears only through
\* AcceptRoom.
LEMMA GrantedFrame ==
    ASSUME LocalTypeOK, [Next]_vars
    PROVE  \/ granted' = granted
           \/ \E s \in Sessions : AcceptMark(s) \/ AcceptRoom(s)
<1>1. CASE UNCHANGED vars
  BY <1>1 DEF vars, locals, granted
<1>2. ASSUME NEW s \in Sessions, Moves(s), ~AcceptMark(s), ~AcceptRoom(s)
      PROVE  granted' = granted
  <2>1. ControlFlow(s) BY <1>2, Control
  <2>2. pc[s] # "accept_room" /\ pc'[s] # "accept_room"
    BY <1>2, <2>1, LabelAction DEF ControlFlow
  <2>3. \A t \in Sessions :
          /\ pc'[t] = "accept_room" <=> pc[t] = "accept_room"
          /\ pc[t] = "accept_room" => peer'[t] = peer[t]
    BY <2>1, <2>2 DEF ControlFlow
  <2> QED BY <2>3 DEF granted
<1> QED BY <1>1, <1>2, SomeoneMoves

\* Each mapped action, seen through the mapping.
LEMMA AskStep ==
    ASSUME IInv, NEW s \in Sessions, ApplyInsert(s)
    PROVE  \/ asked' = asked
           \/ /\ UserOf[s] # peer[s]
              /\ <<UserOf[s], peer[s]>> \notin asked
              /\ asked' = asked \cup {<<UserOf[s], peer[s]>>}
<1> DEFINE map == m_friendRoomVerification_map
<1>1. peer[s] \in Users /\ UserOf[s] \in Users /\ peer[s] # UserOf[s]
  BY UserOfType DEF IInv, PeerInv, ApplyInsert
<1>2. map \in [Users -> [Users -> {"none", "waiting", "verified"}]]
  BY DEF IInv, TypeOK
<1>3. CASE UNCHANGED m_friendRoomVerification_map
  BY <1>3 DEF asked
<1>4. CASE ~UNCHANGED m_friendRoomVerification_map
  <2>1. /\ map[UserOf[s]][peer[s]] = "none"
        /\ map' = [map EXCEPT ![UserOf[s]][peer[s]] = "waiting"]
    BY <1>4 DEF ApplyInsert, hasFriendRoomVerification
  <2>2. \A c, d \in Users :
          map'[c][d] = IF c = UserOf[s] /\ d = peer[s] THEN "waiting" ELSE map[c][d]
    BY <1>1, <1>2, <2>1, NestedExcept
  <2>3. asked' = asked \cup {<<UserOf[s], peer[s]>>}
    BY <1>1, <2>2 DEF asked
  <2>4. <<UserOf[s], peer[s]>> \notin asked
    BY <2>1 DEF asked
  <2> QED BY <1>1, <2>3, <2>4
<1> QED BY <1>3, <1>4

\* Erase is a Drop of the request.
LEMMA DropStep ==
    ASSUME IInv, NEW s \in Sessions, Erase(s)
    PROVE  \/ asked' = asked
           \/ /\ <<peer[s], UserOf[s]>> \in asked
              /\ asked' = asked \ {<<peer[s], UserOf[s]>>}
<1> DEFINE map == m_friendRoomVerification_map
<1>1. peer[s] \in Users /\ UserOf[s] \in Users
  BY UserOfType DEF IInv, PeerInv, Erase
<1>2. map \in [Users -> [Users -> {"none", "waiting", "verified"}]]
  BY DEF IInv, TypeOK
<1>3. CASE UNCHANGED m_friendRoomVerification_map
  BY <1>3 DEF asked
<1>4. CASE ~UNCHANGED m_friendRoomVerification_map
  <2>1. /\ map[peer[s]][UserOf[s]] # "none"
        /\ map' = [map EXCEPT ![peer[s]][UserOf[s]] = "none"]
    BY <1>4 DEF Erase, hasFriendRoomVerification
  <2>2. \A c, d \in Users :
          map'[c][d] = IF c = peer[s] /\ d = UserOf[s] THEN "none" ELSE map[c][d]
    BY <1>1, <1>2, <2>1, NestedExcept
  <2>3. asked' = asked \ {<<peer[s], UserOf[s]>>}
    BY <1>1, <2>2 DEF asked
  <2>4. <<peer[s], UserOf[s]>> \in asked
    BY <1>1, <2>1 DEF asked
  <2> QED BY <2>3, <2>4
<1> QED BY <1>3, <1>4

\* AcceptMark is a Grant of a request that is there.
LEMMA GrantStep ==
    ASSUME IInv, NEW s \in Sessions, AcceptMark(s)
    PROVE  /\ asked' = asked
           /\ \/ granted' = granted
              \/ /\ <<peer[s], UserOf[s]>> \in asked
                 /\ granted' = granted \cup {<<peer[s], UserOf[s]>>}
<1> DEFINE map == m_friendRoomVerification_map
<1>0. LocalTypeOK BY TypeParts DEF IInv
<1>1. peer[s] \in Users /\ UserOf[s] \in Users
  BY UserOfType DEF IInv, PeerInv, AcceptMark
<1>2. map \in [Users -> [Users -> {"none", "waiting", "verified"}]]
  BY DEF IInv, TypeOK
<1>3. CASE hasFriendRoomVerification(peer[s], UserOf[s])
  <2>1. /\ map[peer[s]][UserOf[s]] # "none"
        /\ map' = [map EXCEPT ![peer[s]][UserOf[s]] = "verified"]
        /\ Goto(s, "accept_room")
    BY <1>3 DEF AcceptMark, hasFriendRoomVerification
  <2>2. \A c, d \in Users :
          map'[c][d] = IF c = peer[s] /\ d = UserOf[s] THEN "verified" ELSE map[c][d]
    BY <1>1, <1>2, <2>1, NestedExcept
  <2>3. asked' = asked
    BY <1>1, <2>1, <2>2 DEF asked
  <2>4. <<peer[s], UserOf[s]>> \in asked
    BY <1>1, <2>1 DEF asked
  <2>5. \A t \in Sessions :
          /\ peer'[t] = peer[t]
          /\ pc'[t] = "accept_room" <=> (t = s \/ pc[t] = "accept_room")
    BY <1>0, <2>1 DEF Goto, LocalTypeOK
  <2>6. granted' = granted \cup {<<peer[s], UserOf[s]>>}
    BY <1>1, <2>5 DEF granted
  <2> QED BY <2>3, <2>4, <2>6
<1>4. CASE ~hasFriendRoomVerification(peer[s], UserOf[s])
  <2>1. Answer(s, "unknown") /\ UNCHANGED m_friendRoomVerification_map
    BY <1>4 DEF AcceptMark
  <2>2. \A t \in Sessions :
          /\ pc'[t] = "accept_room" <=> pc[t] = "accept_room"
          /\ pc[t] = "accept_room" => peer'[t] = peer[t]
    BY <1>0, <2>1 DEF Answer, LocalTypeOK, AcceptMark
  <2>3. granted' = granted BY <2>2 DEF granted
  <2> QED BY <2>1, <2>3 DEF asked
<1> QED BY <1>3, <1>4

\* AcceptRoom opens the room of a granted request.
LEMMA OpenStep ==
    ASSUME IInv, NEW s \in Sessions, AcceptRoom(s)
    PROVE  /\ <<peer[s], UserOf[s]>> \in granted
           /\ opened' = opened \cup {{peer[s], UserOf[s]}}
           /\ granted' = granted \/ granted' = granted \ {<<peer[s], UserOf[s]>>}
<1> DEFINE g == <<peer[s], UserOf[s]>>
<1>0. LocalTypeOK BY TypeParts DEF IInv
<1>1. peer[s] \in Users /\ UserOf[s] \in Users /\ pc[s] = "accept_room"
  BY UserOfType DEF IInv, PeerInv, AcceptRoom
<1>2. g \in granted BY <1>1 DEF granted
<1>3. addPrivateRoom(peer[s], UserOf[s]) /\ Goto(s, "accept_sender")
  BY DEF AcceptRoom
<1>4. /\ m_userID_to_privateRoomID_map'[{peer[s], UserOf[s]}] # NoRoom
      /\ \A p \in Pairs : p # {peer[s], UserOf[s]} =>
            m_userID_to_privateRoomID_map'[p] = m_userID_to_privateRoomID_map[p]
  BY <1>1, <1>3, AddRoomFacts DEF IInv
<1>5. opened' = opened \cup {{peer[s], UserOf[s]}}
  <2>1. {peer[s], UserOf[s]} \in Pairs BY <1>1, PairFacts
  <2> QED BY <1>4, <2>1 DEF opened
<1>6. \A t \in Sessions :
        /\ peer'[t] = peer[t]
        /\ pc'[t] = "accept_room" <=> (t # s /\ pc[t] = "accept_room")
  BY <1>0, <1>3 DEF Goto, LocalTypeOK
<1>7. \A q \in Users \X Users : q # g => (q \in granted' <=> q \in granted)
  <2> SUFFICES ASSUME NEW a \in Users, NEW b \in Users, <<a, b>> # g
               PROVE  <<a, b>> \in granted' <=> <<a, b>> \in granted
    OBVIOUS
  <2> QED BY <1>6 DEF granted
<1>8. granted \subseteq Users \X Users /\ granted' \subseteq Users \X Users
  BY DEF granted
<1> HIDE DEF g
<1>9. CASE g \in granted'
  <2>1. granted' = granted BY <1>2, <1>7, <1>8, <1>9
  <2> QED BY <1>2, <1>5, <2>1 DEF g
<1>10. CASE g \notin granted'
  <2>1. granted' = granted \ {g} BY <1>2, <1>7, <1>8, <1>10
  <2> QED BY <1>2, <1>5, <2>1 DEF g
<1> QED BY <1>9, <1>10

\* The two list updates befriend users whose room is open.
LEMMA BefriendStep ==
    ASSUME IInv, NEW s \in Sessions, AcceptSender(s) \/ AcceptReceiver(s)
    PROVE  \E a, b \in Users :
              {a, b} \in opened /\ friends' = friends \cup {<<a, b>>}
<1>1. peer[s] \in Users /\ UserOf[s] \in Users
  BY UserOfType DEF IInv, PeerInv, AcceptSender, AcceptReceiver
<1>2. {peer[s], UserOf[s]} \in opened
  <2>1. hasPrivateRoom(peer[s], UserOf[s])
    BY DEF IInv, AcceptInv, AcceptSender, AcceptReceiver
  <2>2. {peer[s], UserOf[s]} \in Pairs BY <1>1, PairFacts
  <2> QED BY <2>1, <2>2 DEF opened, hasPrivateRoom
<1>3. m_user_friend_set \in [Users -> SUBSET Users] BY DEF IInv, TypeOK
<1>4. CASE AcceptSender(s)
  <2>1. friends' = friends \cup {<<peer[s], UserOf[s]>>}
    BY <1>1, <1>3, <1>4 DEF AcceptSender, friends
  <2> QED BY <1>1, <1>2, <2>1
<1>5. CASE AcceptReceiver(s)
  <2>1. friends' = friends \cup {<<UserOf[s], peer[s]>>}
    BY <1>1, <1>3, <1>5 DEF AcceptReceiver, friends
  <2>2. {UserOf[s], peer[s]} \in opened BY <1>2, PairFacts
  <2> QED BY <1>1, <2>1, <2>2
<1> QED BY <1>4, <1>5

\* The updates of removeFriend only take entries away.
LEMMA UnfriendStep ==
    ASSUME IInv, NEW s \in Sessions, RemoveOwn(s) \/ RemovePeer(s)
    PROVE  \E a, b \in Users : friends' = friends \ {<<a, b>>}
<1>1. peer[s] \in Users /\ UserOf[s] \in Users
  BY UserOfType DEF IInv, PeerInv, RemoveOwn, RemovePeer
<1>2. m_user_friend_set \in [Users -> SUBSET Users] BY DEF IInv, TypeOK
<1>3. CASE RemoveOwn(s)
  <2>1. friends' = friends \ {<<UserOf[s], peer[s]>>}
    BY <1>1, <1>2, <1>3 DEF RemoveOwn, friends
  <2> QED BY <1>1, <2>1
<1>4. CASE RemovePeer(s)
  <2>1. friends' = friends \ {<<peer[s], peer[s]>>}
    BY <1>1, <1>2, <1>4 DEF RemovePeer, friends
  <2> QED BY <1>1, <2>1
<1> QED BY <1>3, <1>4

\* A step changes one of the four abstract variables at a time, except that
\* opening a room may use up the grant.
LEMMA RefinementStep ==
    ASSUME IInv, [Next]_vars
    PROVE  [F!Next]_(F!vars)
<1>0. LocalTypeOK BY TypeParts DEF IInv
<1>1. /\ UNCHANGED rooms => opened' = opened
      /\ UNCHANGED m_user_friend_set => friends' = friends
      /\ UNCHANGED m_friendRoomVerification_map => asked' = asked
  BY DEF rooms, opened, friends, asked
<1>2. \A s \in Sessions : pc[s] # "idle" => peer[s] \in Users /\ UserOf[s] \in Users
  BY UserOfType DEF IInv, PeerInv
<1>3. ASSUME NEW s \in Sessions, AcceptMark(s) PROVE [F!Next]_(F!vars)
  <2>1. opened' = opened /\ friends' = friends
    BY <1>1, <1>3 DEF AcceptMark
  <2>2. peer[s] \in Users /\ UserOf[s] \in Users
    BY <1>2, <1>3 DEF AcceptMark
  <2> QED BY <1>3, <2>1, <2>2, GrantStep DEF F!Next, F!Grant, F!vars
<1>4. ASSUME NEW s \in Sessions, AcceptRoom(s) PROVE [F!Next]_(F!vars)
  <2>1. asked' = asked /\ friends' = friends
    BY <1>1, <1>4 DEF AcceptRoom, verifications
  <2>2. peer[s] \in Users /\ UserOf[s] \in Users
    BY <1>2, <1>4 DEF AcceptRoom
  <2> QED BY <1>4, <2>1, <2>2, OpenStep DEF F!Next, F!Open
<1>5. ASSUME \A s \in Sessions : ~AcceptMark(s) /\ ~AcceptRoom(s)
      PROVE  [F!Next]_(F!vars)
  <2>1. granted' = granted BY <1>0, <1>5, GrantedFrame
  <2>2. opened' = opened BY <1>1, <1>5, RoomsFrame
  <2>3. ASSUME NEW s \in Sessions, ApplyInsert(s) PROVE [F!Next]_(F!vars)
    <3>1. friends' = friends BY <1>1, <2>3 DEF ApplyInsert
    <3>2. peer[s] \in Users /\ UserOf[s] \in Users
      BY <1>2, <2>3 DEF ApplyInsert
    <3> QED BY <2>1, <2>2, <2>3, <3>1, <3>2, AskStep DEF F!Next, F!Ask, F!vars
  <2>4. ASSUME NEW s \in Sessions, Erase(s) PROVE [F!Next]_(F!vars)
    <3>1. friends' = friends BY <1>1, <2>4 DEF Erase
    <3>2. peer[s] \in Users /\ UserOf[s] \in Users
      BY <1>2, <2>4 DEF Erase
    <3> QED BY <2>1, <2>2, <2>4, <3>1, <3>2, DropStep DEF F!Next, F!Drop, F!vars
  <2>5. ASSUME NEW s \in Sessions, AcceptSender(s) \/ AcceptReceiver(s)
        PROVE  [F!Next]_(F!vars)
    <3>1. asked' = asked
      BY <1>1, <2>5 DEF AcceptSender, AcceptReceiver, verifications
    <3> QED BY <2>1, <2>2, <2>5, <3>1, BefriendStep DEF F!Next, F!Befriend
  <2>6. ASSUME NEW s \in Sessions, RemoveOwn(s) \/ RemovePeer(s)
        PROVE  [F!Next]_(F!vars)
    <3>1. asked' = asked
      BY <1>1, <2>6 DEF RemoveOwn, RemovePeer, verifications
    <3> QED BY <2>1, <2>2, <2>6, <3>1, UnfriendStep DEF F!Next, F!Unfriend
  <2>7. ASSUME UNCHANGED <<m_friendRoomVerification_map, m_user_friend_set>>
        PROVE  [F!Next]_(F!vars)
    BY <1>1, <2>1, <2>2, <2>7 DEF F!vars
  <2> QED BY <1>5, <2>3, <2>4, <2>5, <2>6, <2>7, RequestFrame, FriendSetFrame
<1> QED BY <1>3, <1>4, <1>5

\* The friend commands implement Friendship: no friend without a room, no
\* room without a grant, no grant without a waiting request, under any
\* interleaving of the sessions' critical sections.
THEOREM ImplementsFriendship == Spec => FriendshipSpec
<1>1. Init => F!Init
  BY DEF Init, F!Init, asked, granted, opened, friends, Pairs, NoRoom
<1>2. IInv /\ [Next]_vars => [F!Next]_(F!vars)
  BY RefinementStep
<1> QED BY <1>1, <1>2, Invariance, PTL DEF Spec, F!Spec, FriendshipSpec
=============================================================================
