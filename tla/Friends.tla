------------------------------ MODULE Friends ------------------------------
(***************************************************************************)
(* Friendship between users: the friend half of VerificationManager, the   *)
(* friend lists of User and the private rooms of Manager, as the friend    *)
(* commands of the JSON protocol use them.                                 *)
(*                                                                         *)
(* A session is a logged-in connection.  It runs one command at a time;    *)
(* the commands of different sessions run on a thread pool and interleave  *)
(* at every unlock.  Each action below is one critical section: it runs    *)
(* under the lock (or locks) of the container it touches.  Code that       *)
(* touches no shared container is part of the action before it.            *)
(*                                                                         *)
(* Left out: the text of replies, the notification packages (sendJsonToUser*)
(* writes to connections and changes nothing here), and what a private     *)
(* room does with a message once it has been found.                        *)
(***************************************************************************)
EXTENDS Integers, FiniteSets

CONSTANTS
    Users,      \* the registered users; a user is never removed
    Ids,        \* the user ids a client may put in a command
    Nobody,     \* UserID(-1)
    Sessions,   \* the logged-in connections
    UserOf,     \* the user each session is logged in as
    MaxRooms    \* bound: how many private rooms a behaviour may create

ASSUME IdsAssumption == Users \subseteq Ids /\ Nobody \notin Ids
ASSUME UserOfAssumption == UserOf \in [Sessions -> Users]
ASSUME MaxRoomsAssumption == MaxRooms \in Nat

VARIABLES
    m_friendRoomVerification_map,   \* [sender][receiver]: state of the request
    m_user_friend_verification_map, \* [user][other]: entry in the user's list
    m_user_friend_set,              \* [user]: the friends the user sees
    m_privateRoom_map,              \* room id -> the two users of the room
    m_userID_to_privateRoomID_map,  \* pair of users -> room id
    m_newGroupRoomId,               \* the counter private room ids come from
    pc,      \* where each session's command is
    peer,    \* the user_id parameter of the session's command
    room,    \* the room id SendFriendMessage has looked up
    reply    \* "state" of the last answer sent to the session

verifications == <<m_friendRoomVerification_map, m_user_friend_verification_map>>
rooms == <<m_privateRoom_map, m_userID_to_privateRoomID_map, m_newGroupRoomId>>
locals == <<pc, peer, room, reply>>
vars == <<verifications, m_user_friend_set, rooms, locals>>

FirstRoomId == 10000
NoRoom == 0
Pairs == {{u, v} : u, v \in Users}

Labels ==
    {"idle",
     "add_room", "add_has",
     "apply_room", "apply_insert", "apply_sender", "apply_receiver",
     "accept_has", "accept_mark", "accept_room",
     "accept_sender", "accept_receiver",
     "reject_has",
     "erase", "erase_sender", "erase_receiver",
     "remove_has", "remove_own", "remove_peer",
     "send_has", "send_id", "send_room"}

\* "error" is a refusal with its reason, "unknown" the answer to an exception.
Replies == {"none", "success", "error", "unknown"}

\* Types: every container and every local of a command holds what the code
\* can put there; the private rooms are exactly the ids handed out so far.
TypeOK ==
    /\ m_friendRoomVerification_map
         \in [Users -> [Users -> {"none", "waiting", "verified"}]]
    /\ m_user_friend_verification_map
         \in [Users -> [Users -> {"none", "Sent", "Received"}]]
    /\ m_user_friend_set \in [Users -> SUBSET Users]
    /\ m_newGroupRoomId \in Nat
    /\ m_newGroupRoomId >= FirstRoomId
    /\ m_privateRoom_map \in [FirstRoomId .. (m_newGroupRoomId - 1) -> Pairs]
    /\ m_userID_to_privateRoomID_map \in [Pairs -> Nat]
    /\ pc \in [Sessions -> Labels]
    /\ peer \in [Sessions -> Ids \cup {Nobody}]
    /\ room \in [Sessions -> Nat]
    /\ reply \in [Sessions -> Replies]

\* Manager::init: no rooms, no requests; every session is already logged in.
Init ==
    /\ m_friendRoomVerification_map = [u \in Users |-> [v \in Users |-> "none"]]
    /\ m_user_friend_verification_map = [u \in Users |-> [v \in Users |-> "none"]]
    /\ m_user_friend_set = [u \in Users |-> {}]
    /\ m_newGroupRoomId = FirstRoomId
    /\ m_privateRoom_map = [i \in {} |-> {}]
    /\ m_userID_to_privateRoomID_map = [p \in Pairs |-> NoRoom]
    /\ pc = [s \in Sessions |-> "idle"]
    /\ peer = [s \in Sessions |-> Nobody]
    /\ room = [s \in Sessions |-> NoRoom]
    /\ reply = [s \in Sessions |-> "none"]

-----------------------------------------------------------------------------
(* Control of a command: JsonMessageProcessImpl::processJsonMessage posts  *)
(* it to the pool and waits for its answer, so a session is in at most one.*)

Goto(s, label) ==
    /\ pc' = [pc EXCEPT ![s] = label]
    /\ UNCHANGED <<peer, room, reply>>

Answer(s, r) ==
    /\ pc' = [pc EXCEPT ![s] = "idle"]
    /\ peer' = [peer EXCEPT ![s] = Nobody]
    /\ room' = [room EXCEPT ![s] = NoRoom]
    /\ reply' = [reply EXCEPT ![s] = r]

Begin(s, u, label) ==
    /\ pc' = [pc EXCEPT ![s] = label]
    /\ peer' = [peer EXCEPT ![s] = u]
    /\ reply' = [reply EXCEPT ![s] = "none"]
    /\ UNCHANGED room

\* The checks on user_id alone: it must name a user, other than oneself.
Valid(s, u) == u \in Users /\ u # UserOf[s]

hasPrivateRoom(u, v) == m_userID_to_privateRoomID_map[{u, v}] # NoRoom
hasFriendRoomVerification(sender, receiver) ==
    m_friendRoomVerification_map[sender][receiver] # "none"
userHasFriend(u, v) == v \in m_user_friend_set[u]

-----------------------------------------------------------------------------
(* add_friend: User::addFriend, VerificationManager::                      *)
(* applyFriendRoomVerification.                                            *)

AddFriend(s, u) ==
    /\ pc[s] = "idle"
    /\ \/ Valid(s, u) /\ Begin(s, u, "add_room")
       \/ ~Valid(s, u) /\ Answer(s, "error")
    /\ UNCHANGED <<verifications, m_user_friend_set, rooms>>

AddCheckRoom(s) ==
    /\ pc[s] = "add_room"
    /\ \/ hasPrivateRoom(UserOf[s], peer[s]) /\ Answer(s, "error")
       \/ ~hasPrivateRoom(UserOf[s], peer[s]) /\ Goto(s, "add_has")
    /\ UNCHANGED <<verifications, m_user_friend_set, rooms>>

AddCheckVerification(s) ==
    /\ pc[s] = "add_has"
    /\ \/ /\ hasFriendRoomVerification(UserOf[s], peer[s])
          /\ Answer(s, "error")
       \/ /\ ~hasFriendRoomVerification(UserOf[s], peer[s])
          /\ Goto(s, "apply_room")
    /\ UNCHANGED <<verifications, m_user_friend_set, rooms>>

\* throws private_room_existed
ApplyCheckRoom(s) ==
    /\ pc[s] = "apply_room"
    /\ \/ hasPrivateRoom(UserOf[s], peer[s]) /\ Answer(s, "unknown")
       \/ ~hasPrivateRoom(UserOf[s], peer[s]) /\ Goto(s, "apply_insert")
    /\ UNCHANGED <<verifications, m_user_friend_set, rooms>>

\* throws verification_existed
ApplyInsert(s) ==
    /\ pc[s] = "apply_insert"
    /\ \/ /\ hasFriendRoomVerification(UserOf[s], peer[s])
          /\ Answer(s, "unknown")
          /\ UNCHANGED m_friendRoomVerification_map
       \/ /\ ~hasFriendRoomVerification(UserOf[s], peer[s])
          /\ m_friendRoomVerification_map' =
               [m_friendRoomVerification_map EXCEPT
                  ![UserOf[s]][peer[s]] = "waiting"]
          /\ Goto(s, "apply_sender")
    /\ UNCHANGED <<m_user_friend_verification_map, m_user_friend_set, rooms>>

\* User::addFriendVerification emplaces: an entry that is there stays.
addFriendVerification(u, v, type) ==
    m_user_friend_verification_map' =
        [m_user_friend_verification_map EXCEPT
           ![u][v] = IF @ = "none" THEN type ELSE @]

removeFriendVerification(u, v) ==
    m_user_friend_verification_map' =
        [m_user_friend_verification_map EXCEPT ![u][v] = "none"]

ApplySender(s) ==
    /\ pc[s] = "apply_sender"
    /\ addFriendVerification(UserOf[s], peer[s], "Sent")
    /\ Goto(s, "apply_receiver")
    /\ UNCHANGED <<m_friendRoomVerification_map, m_user_friend_set, rooms>>

ApplyReceiver(s) ==
    /\ pc[s] = "apply_receiver"
    /\ addFriendVerification(peer[s], UserOf[s], "Received")
    /\ Answer(s, "success")
    /\ UNCHANGED <<m_friendRoomVerification_map, m_user_friend_set, rooms>>

-----------------------------------------------------------------------------
(* accept_friend_verification: User::acceptFriend, VerificationManager::   *)
(* acceptFriendVerification.  The command answers "success" also when      *)
(* User::acceptFriend returns false.                                       *)

RoomsInFlight ==
    Cardinality({t \in Sessions :
                   pc[t] \in {"accept_has", "accept_mark", "accept_room"}})

AcceptFriend(s, u) ==
    /\ pc[s] = "idle"
    /\ \/ /\ Valid(s, u)
          /\ (m_newGroupRoomId - FirstRoomId) + RoomsInFlight < MaxRooms
          /\ Begin(s, u, "accept_has")
       \/ u = UserOf[s] /\ Answer(s, "success")
       \/ u \notin Users /\ Answer(s, "error")
    /\ UNCHANGED <<verifications, m_user_friend_set, rooms>>

AcceptCheckVerification(s) ==
    /\ pc[s] = "accept_has"
    /\ \/ /\ hasFriendRoomVerification(peer[s], UserOf[s])
          /\ Goto(s, "accept_mark")
       \/ /\ ~hasFriendRoomVerification(peer[s], UserOf[s])
          /\ Answer(s, "success")
    /\ UNCHANGED <<verifications, m_user_friend_set, rooms>>

\* Mutants of AcceptMark: the room step is skipped; the request is not looked
\* up again under the lock.
AcceptMark_SkipsRoom(s) ==
    /\ pc[s] = "accept_mark"
    /\ hasFriendRoomVerification(peer[s], UserOf[s])
    /\ m_friendRoomVerification_map' =
         [m_friendRoomVerification_map EXCEPT ![peer[s]][UserOf[s]] = "verified"]
    /\ Goto(s, "accept_sender")
    /\ UNCHANGED <<m_user_friend_verification_map, m_user_friend_set, rooms>>

AcceptMark_Unchecked(s) ==
    /\ pc[s] = "accept_mark"
    /\ m_friendRoomVerification_map' =
         [m_friendRoomVerification_map EXCEPT ![peer[s]][UserOf[s]] = "verified"]
    /\ Goto(s, "accept_room")
    /\ UNCHANGED <<m_user_friend_verification_map, m_user_friend_set, rooms>>

\* throws verification_not_existed
AcceptMark(s) ==
    /\ pc[s] = "accept_mark"
    /\ \/ /\ hasFriendRoomVerification(peer[s], UserOf[s])
          /\ m_friendRoomVerification_map' =
               [m_friendRoomVerification_map EXCEPT
                  ![peer[s]][UserOf[s]] = "verified"]
          /\ Goto(s, "accept_room")
       \/ /\ ~hasFriendRoomVerification(peer[s], UserOf[s])
          /\ Answer(s, "unknown")
          /\ UNCHANGED m_friendRoomVerification_map
    /\ UNCHANGED <<m_user_friend_verification_map, m_user_friend_set, rooms>>

\* Mutant of addPrivateRoom: the id counter is not advanced.
addPrivateRoom_SameId(u, v) ==
    /\ m_privateRoom_map' =
         [i \in DOMAIN m_privateRoom_map \cup {m_newGroupRoomId} |->
            IF i = m_newGroupRoomId THEN {u, v} ELSE m_privateRoom_map[i]]
    /\ m_userID_to_privateRoomID_map' =
         [m_userID_to_privateRoomID_map EXCEPT ![{u, v}] = m_newGroupRoomId]
    /\ UNCHANGED m_newGroupRoomId

\* Manager::addPrivateRoom, under both room locks.  The id comes from the
\* group counter; a room the pair already has stays in m_privateRoom_map.
addPrivateRoom(u, v) ==
    /\ m_privateRoom_map' =
         [i \in DOMAIN m_privateRoom_map \cup {m_newGroupRoomId} |->
            IF i = m_newGroupRoomId THEN {u, v} ELSE m_privateRoom_map[i]]
    /\ m_userID_to_privateRoomID_map' =
         [m_userID_to_privateRoomID_map EXCEPT ![{u, v}] = m_newGroupRoomId]
    /\ m_newGroupRoomId' = m_newGroupRoomId + 1

AcceptRoom(s) ==
    /\ pc[s] = "accept_room"
    /\ addPrivateRoom(peer[s], UserOf[s])
    /\ Goto(s, "accept_sender")
    /\ UNCHANGED <<verifications, m_user_friend_set>>

AcceptSender(s) ==
    /\ pc[s] = "accept_sender"
    /\ m_user_friend_set' =
         [m_user_friend_set EXCEPT ![peer[s]] = @ \cup {UserOf[s]}]
    /\ Goto(s, "accept_receiver")
    /\ UNCHANGED <<verifications, rooms>>

\* Mutant of AcceptReceiver: the accepted request is not removed.
AcceptReceiver_KeepsRequest(s) ==
    /\ pc[s] = "accept_receiver"
    /\ m_user_friend_set' =
         [m_user_friend_set EXCEPT ![UserOf[s]] = @ \cup {peer[s]}]
    /\ Answer(s, "success")
    /\ UNCHANGED <<verifications, rooms>>

AcceptReceiver(s) ==
    /\ pc[s] = "accept_receiver"
    /\ m_user_friend_set' =
         [m_user_friend_set EXCEPT ![UserOf[s]] = @ \cup {peer[s]}]
    /\ Goto(s, "erase")
    /\ UNCHANGED <<verifications, rooms>>

-----------------------------------------------------------------------------
(* reject_friend_verification, and the removal of a request that accepting *)
(* and rejecting share (removeFriendRoomVerification).                     *)

RejectFriend(s, u) ==
    /\ pc[s] = "idle"
    /\ \/ Valid(s, u) /\ Begin(s, u, "reject_has")
       \/ ~Valid(s, u) /\ Answer(s, "error")
    /\ UNCHANGED <<verifications, m_user_friend_set, rooms>>

RejectCheckVerification(s) ==
    /\ pc[s] = "reject_has"
    /\ \/ /\ hasFriendRoomVerification(peer[s], UserOf[s])
          /\ Goto(s, "erase")
       \/ /\ ~hasFriendRoomVerification(peer[s], UserOf[s])
          /\ Answer(s, "error")
    /\ UNCHANGED <<verifications, m_user_friend_set, rooms>>

\* Returns without touching the users' lists when the request is gone.
Erase(s) ==
    /\ pc[s] = "erase"
    /\ \/ /\ hasFriendRoomVerification(peer[s], UserOf[s])
          /\ m_friendRoomVerification_map' =
               [m_friendRoomVerification_map EXCEPT
                  ![peer[s]][UserOf[s]] = "none"]
          /\ Goto(s, "erase_sender")
       \/ /\ ~hasFriendRoomVerification(peer[s], UserOf[s])
          /\ Answer(s, "success")
          /\ UNCHANGED m_friendRoomVerification_map
    /\ UNCHANGED <<m_user_friend_verification_map, m_user_friend_set, rooms>>

EraseSender(s) ==
    /\ pc[s] = "erase_sender"
    /\ removeFriendVerification(peer[s], UserOf[s])
    /\ Goto(s, "erase_receiver")
    /\ UNCHANGED <<m_friendRoomVerification_map, m_user_friend_set, rooms>>

EraseReceiver(s) ==
    /\ pc[s] = "erase_receiver"
    /\ removeFriendVerification(UserOf[s], peer[s])
    /\ Answer(s, "success")
    /\ UNCHANGED <<m_friendRoomVerification_map, m_user_friend_set, rooms>>

-----------------------------------------------------------------------------
(* remove_friend: User::removeFriend.  The private room stays.             *)

RemoveFriend(s, u) ==
    /\ pc[s] = "idle"
    /\ \/ Valid(s, u) /\ Begin(s, u, "remove_has")
       \/ ~Valid(s, u) /\ Answer(s, "error")
    /\ UNCHANGED <<verifications, m_user_friend_set, rooms>>

RemoveCheckFriend(s) ==
    /\ pc[s] = "remove_has"
    /\ \/ userHasFriend(UserOf[s], peer[s]) /\ Goto(s, "remove_own")
       \/ ~userHasFriend(UserOf[s], peer[s]) /\ Answer(s, "error")
    /\ UNCHANGED <<verifications, m_user_friend_set, rooms>>

RemoveOwn(s) ==
    /\ pc[s] = "remove_own"
    /\ m_user_friend_set' =
         [m_user_friend_set EXCEPT ![UserOf[s]] = @ \ {peer[s]}]
    /\ Goto(s, "remove_peer")
    /\ UNCHANGED <<verifications, rooms>>

\* Mutant of RemovePeer: the private room is closed with the friendship.
RemovePeer_ClosesRoom(s) ==
    /\ pc[s] = "remove_peer"
    /\ m_user_friend_set' =
         [m_user_friend_set EXCEPT ![peer[s]] = @ \ {UserOf[s]}]
    /\ m_userID_to_privateRoomID_map' =
         [m_userID_to_privateRoomID_map EXCEPT ![{UserOf[s], peer[s]}] = NoRoom]
    /\ Answer(s, "success")
    /\ UNCHANGED <<verifications, m_privateRoom_map, m_newGroupRoomId>>

\* The code passes the friend's own id: the friend is removed from the
\* friend's own set, not the user who is leaving.
RemovePeer(s) ==
    /\ pc[s] = "remove_peer"
    /\ m_user_friend_set' =
         [m_user_friend_set EXCEPT ![peer[s]] = @ \ {peer[s]}]
    /\ Answer(s, "success")
    /\ UNCHANGED <<verifications, rooms>>

-----------------------------------------------------------------------------
(* send_friend_message.  Both lookups of the room throw when they fail.    *)

SendFriendMessage(s, u) ==
    /\ pc[s] = "idle"
    /\ \/ u \in Users /\ Begin(s, u, "send_has")
       \/ u \notin Users /\ Answer(s, "error")
    /\ UNCHANGED <<verifications, m_user_friend_set, rooms>>

SendCheckFriend(s) ==
    /\ pc[s] = "send_has"
    /\ \/ userHasFriend(UserOf[s], peer[s]) /\ Goto(s, "send_id")
       \/ ~userHasFriend(UserOf[s], peer[s]) /\ Answer(s, "error")
    /\ UNCHANGED <<verifications, m_user_friend_set, rooms>>

getPrivateRoomId(s) ==
    /\ pc[s] = "send_id"
    /\ \/ /\ hasPrivateRoom(UserOf[s], peer[s])
          /\ room' = [room EXCEPT ![s] =
                        m_userID_to_privateRoomID_map[{UserOf[s], peer[s]}]]
          /\ pc' = [pc EXCEPT ![s] = "send_room"]
          /\ UNCHANGED <<peer, reply>>
       \/ /\ ~hasPrivateRoom(UserOf[s], peer[s])
          /\ Answer(s, "unknown")
    /\ UNCHANGED <<verifications, m_user_friend_set, rooms>>

\* Manager::getPrivateRoom, then PrivateRoom::sendMessage, which drops the
\* message of a sender who is not in the room and answers the same.
SendToRoom(s) ==
    /\ pc[s] = "send_room"
    /\ \/ room[s] \in DOMAIN m_privateRoom_map /\ Answer(s, "success")
       \/ room[s] \notin DOMAIN m_privateRoom_map /\ Answer(s, "unknown")
    /\ UNCHANGED <<verifications, m_user_friend_set, rooms>>

\* get_friend_list and get_friend_verification_list copy one container under
\* its lock; what they return is m_user_friend_set[UserOf[s]] and
\* m_user_friend_verification_map[UserOf[s]] at that moment.
GetList(s) ==
    /\ pc[s] = "idle"
    /\ Answer(s, "success")
    /\ UNCHANGED <<verifications, m_user_friend_set, rooms>>

-----------------------------------------------------------------------------
Command(s, u) ==
    \/ AddFriend(s, u)
    \/ AcceptFriend(s, u)
    \/ RejectFriend(s, u)
    \/ RemoveFriend(s, u)
    \/ SendFriendMessage(s, u)

Step(s) ==
    \/ AddCheckRoom(s)
    \/ AddCheckVerification(s)
    \/ ApplyCheckRoom(s)
    \/ ApplyInsert(s)
    \/ ApplySender(s)
    \/ ApplyReceiver(s)
    \/ AcceptCheckVerification(s)
    \/ AcceptMark(s)
    \/ AcceptRoom(s)
    \/ AcceptSender(s)
    \/ AcceptReceiver(s)
    \/ RejectCheckVerification(s)
    \/ Erase(s)
    \/ EraseSender(s)
    \/ EraseReceiver(s)
    \/ RemoveCheckFriend(s)
    \/ RemoveOwn(s)
    \/ RemovePeer(s)
    \/ SendCheckFriend(s)
    \/ getPrivateRoomId(s)
    \/ SendToRoom(s)

Next ==
    \E s \in Sessions :
        \/ \E u \in Ids : Command(s, u)
        \/ Step(s)
        \/ GetList(s)

Spec == Init /\ [][Next]_vars
-----------------------------------------------------------------------------
(* Properties *)

\* A friend the user sees can be written to: the pair has a private room, it
\* is the room of exactly these two users, and it is the one the index names.
\* The room must therefore be created before either friend list is updated,
\* and nothing may take it away again (acceptFriendVerification, removeFriend,
\* send_friend_message).
FriendsHaveRoom ==
    \A u, v \in Users :
        userHasFriend(u, v) =>
            /\ hasPrivateRoom(u, v)
            /\ m_userID_to_privateRoomID_map[{u, v}] \in DOMAIN m_privateRoom_map
            /\ m_privateRoom_map[m_userID_to_privateRoomID_map[{u, v}]] = {u, v}

\* send_friend_message checks the friend list, looks up the room id and
\* fetches the room under three separate locks.  Whatever other sessions do
\* in between (also remove_friend), the lookups do not throw and the room
\* does not drop the message: its sender is in it.
SendReachesRoom ==
    \A s \in Sessions :
        /\ pc[s] = "send_id" => hasPrivateRoom(UserOf[s], peer[s])
        /\ pc[s] = "send_room" =>
             /\ room[s] \in DOMAIN m_privateRoom_map
             /\ m_privateRoom_map[room[s]] = {UserOf[s], peer[s]}

\* A request marked as verified is always one some session is accepting right
\* now: the manager never keeps an accepted request, whatever accepts, rejects
\* and new applications for the same pair race with it.
VerifiedIsBeingAccepted ==
    \A a, b \in Users :
        m_friendRoomVerification_map[a][b] = "verified" =>
            \E s \in Sessions :
                /\ UserOf[s] = b
                /\ peer[s] = a
                /\ pc[s] \in {"accept_room", "accept_sender",
                              "accept_receiver", "erase"}

\* Rooms are permanent: a step never removes a room, never gives it to other
\* users, and re-points the index of a pair only to a newer room
\* (Manager::addPrivateRoom is the only writer; removeFriend leaves it alone).
RoomsPermanent ==
    [][ /\ \A i \in DOMAIN m_privateRoom_map :
             /\ i \in DOMAIN m_privateRoom_map'
             /\ m_privateRoom_map'[i] = m_privateRoom_map[i]
        /\ \A p \in Pairs :
             m_userID_to_privateRoomID_map'[p] >= m_userID_to_privateRoomID_map[p]
      ]_vars

\* What the containers and the commands in progress say of Friendship.
asked == {q \in Users \X Users : m_friendRoomVerification_map[q[1]][q[2]] # "none"}
granted == {q \in Users \X Users :
              \E s \in Sessions : /\ pc[s] = "accept_room"
                                  /\ peer[s] = q[1]
                                  /\ UserOf[s] = q[2]}
opened == {p \in Pairs : m_userID_to_privateRoomID_map[p] # NoRoom}
friends == {q \in Users \X Users : q[2] \in m_user_friend_set[q[1]]}

F == INSTANCE Friendship

\* The friend commands implement the abstract Friendship: every friend-list
\* entry goes back to a room, every room to a grant, every grant to a request
\* that was waiting at that moment.
FriendshipSpec == F!Spec

=============================================================================
