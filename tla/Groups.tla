------------------------------- MODULE Groups -------------------------------
(***************************************************************************)
(* Group rooms: Manager's group map, the group half of VerificationManager,*)
(* the group lists of User and the two membership maps of a GroupRoom (its *)
(* own m_user_id_map and the m_user_map of the TCPRoom it derives from), as*)
(* the group commands of the JSON protocol use them.                       *)
(*                                                                         *)
(* As in Friends, a session runs one command at a time and an action is one*)
(* critical section.  A group that has been taken out of m_groupRoom_map   *)
(* lives on as long as a command holds its shared_ptr, so the membership   *)
(* maps are kept for every id ever handed out.  Manager::getGroupRoom and  *)
(* the first critical section on the room it returns are one action: once a*)
(* group has been removed only commands that already hold the room touch   *)
(* it, and what they do to it commutes with the removal.                   *)
(*                                                                         *)
(* Left out: notifications and message texts; muting, kicking, operators,  *)
(* levels and setAdministrator, which no command calls (the administrator  *)
(* of a group is therefore the user who created it, for good).             *)
(***************************************************************************)
EXTENDS Integers, FiniteSets

CONSTANTS
    Users,      \* the registered users
    Ids,        \* the user ids a client may put in a command
    Nobody,     \* UserID(-1)
    Sessions,   \* the logged-in connections
    UserOf,     \* the user each session is logged in as
    MaxGroups,  \* bound: how many groups a behaviour may create
    MaxEntries  \* bound: how many list entries one application may leave behind

ASSUME IdsAssumption == Users \subseteq Ids /\ Nobody \notin Ids
ASSUME UserOfAssumption == UserOf \in [Sessions -> Users]
ASSUME SessionsAssumption == IsFiniteSet(Sessions)
ASSUME BoundsAssumption == MaxGroups \in Nat \ {0} /\ MaxEntries \in Nat \ {0}

VARIABLES
    m_groupRoom_map,          \* the ids of the groups that exist
    m_newPrivateRoomId,       \* the counter group ids come from
    m_administrator_user_id,  \* [group]: its administrator
    m_user_id_map,            \* [group]: its members
    m_user_map,               \* [group]: the users its messages are sent to
    m_user_group_set,         \* [user]: the groups the user sees
    m_groupVerification_map,  \* [user][group]: state of the application
    m_user_group_verification_map, \* [owner][group][user]: entries in the list
    pc,      \* where each session's command is
    group,   \* the group_id parameter of the session's command
    who,     \* the user_id parameter of the session's command
    reply    \* "state" of the last answer sent to the session

registry == <<m_groupRoom_map, m_newPrivateRoomId, m_administrator_user_id>>
members == <<m_user_id_map, m_user_map, m_user_group_set>>
verifications == <<m_groupVerification_map, m_user_group_verification_map>>
locals == <<pc, group, who, reply>>
vars == <<registry, members, verifications, locals>>

FirstGroupId == 10000
Groups == FirstGroupId .. (FirstGroupId + MaxGroups - 1)
NoGroup == 0
GroupIds == Groups \cup {NoGroup}   \* what a client may name

Labels ==
    {"idle", "create_set",
     "add_member", "add_ver", "apply_has", "apply_insert",
     "apply_sender", "apply_admin", "add_notify",
     "accept_member", "accept_admin", "accept_mark",
     "accept_add", "accept_join", "accept_list",
     "reject_member", "reject_admin", "reject_ver",
     "erase", "erase_admin", "erase_sender",
     "remove_admin", "remove_notify", "remove_erase",
     "leave_erase", "leave_room", "send_set", "send_room"}

Replies == {"none", "success", "error", "unknown"}

\* Types: every container and every local of a command holds what the code can
\* put there; the number of entries of a list never goes below zero.
TypeOK ==
    /\ m_groupRoom_map \subseteq Groups
    /\ m_newPrivateRoomId \in FirstGroupId .. (FirstGroupId + MaxGroups)
    /\ m_administrator_user_id \in [Groups -> Users \cup {Nobody}]
    /\ m_user_id_map \in [Groups -> SUBSET Users]
    /\ m_user_map \in [Groups -> SUBSET Users]
    /\ m_user_group_set \in [Users -> SUBSET Groups]
    /\ m_groupVerification_map
         \in [Users -> [Groups -> {"none", "waiting", "verified"}]]
    /\ m_user_group_verification_map \in [Users -> [Groups -> [Users -> Nat]]]
    /\ pc \in [Sessions -> Labels]
    /\ group \in [Sessions -> GroupIds]
    /\ who \in [Sessions -> Ids \cup {Nobody}]
    /\ reply \in [Sessions -> Replies]

Init ==
    /\ m_groupRoom_map = {}
    /\ m_newPrivateRoomId = FirstGroupId
    /\ m_administrator_user_id = [g \in Groups |-> Nobody]
    /\ m_user_id_map = [g \in Groups |-> {}]
    /\ m_user_map = [g \in Groups |-> {}]
    /\ m_user_group_set = [u \in Users |-> {}]
    /\ m_groupVerification_map = [u \in Users |-> [g \in Groups |-> "none"]]
    /\ m_user_group_verification_map =
         [u \in Users |-> [g \in Groups |-> [v \in Users |-> 0]]]
    /\ pc = [s \in Sessions |-> "idle"]
    /\ group = [s \in Sessions |-> NoGroup]
    /\ who = [s \in Sessions |-> Nobody]
    /\ reply = [s \in Sessions |-> "none"]

-----------------------------------------------------------------------------
(* Control of a command.                                                   *)

Goto(s, label) ==
    /\ pc' = [pc EXCEPT ![s] = label]
    /\ UNCHANGED <<group, who, reply>>

Answer(s, r) ==
    /\ pc' = [pc EXCEPT ![s] = "idle"]
    /\ group' = [group EXCEPT ![s] = NoGroup]
    /\ who' = [who EXCEPT ![s] = Nobody]
    /\ reply' = [reply EXCEPT ![s] = r]

Begin(s, g, u, label) ==
    /\ pc' = [pc EXCEPT ![s] = label]
    /\ group' = [group EXCEPT ![s] = g]
    /\ who' = [who EXCEPT ![s] = u]
    /\ reply' = [reply EXCEPT ![s] = "none"]

hasGroupRoom(g) == g \in m_groupRoom_map
hasMember(g, u) == u \in m_user_id_map[g]
getAdministrator(g) == m_administrator_user_id[g]
hasGroupRoomVerification(u, g) == m_groupVerification_map[u][g] # "none"

\* A command that starts with hasGroupRoom and refuses an unknown group.
\* add_group asks twice, in the command and in User::addGroup, with the same
\* answer to the client: a group removed in between counts as removed before.
BeginOnGroup(s, g, u, label) ==
    /\ pc[s] = "idle"
    /\ \/ hasGroupRoom(g) /\ Begin(s, g, u, label)
       \/ ~hasGroupRoom(g) /\ Answer(s, "error")
    /\ UNCHANGED <<registry, members, verifications>>

\* Manager::getGroupRoom throws when the group has been removed meanwhile, and
\* so does the check at the start of applyGroupRoomVerification.
getGroupRoom(s) == hasGroupRoom(group[s])
GroupRoomGone(s) ==
    /\ ~hasGroupRoom(group[s])
    /\ Answer(s, "unknown")
    /\ UNCHANGED <<registry, members, verifications>>

\* User::createGroup holds the user's m_user_group_set_mutex while it has the
\* manager create the group.
GroupSetLocked(u) == \E t \in Sessions : UserOf[t] = u /\ pc[t] = "create_set"

-----------------------------------------------------------------------------
(* create_group: User::createGroup, Manager::addGroupRoom and the          *)
(* constructor of GroupRoom.                                               *)

CreateGroup(s) ==
    LET g == m_newPrivateRoomId IN
    /\ pc[s] = "idle"
    /\ ~GroupSetLocked(UserOf[s])
    /\ g < FirstGroupId + MaxGroups
    /\ m_newPrivateRoomId' = g + 1
    /\ m_groupRoom_map' = m_groupRoom_map \cup {g}
    /\ m_administrator_user_id' = [m_administrator_user_id EXCEPT ![g] = UserOf[s]]
    /\ m_user_id_map' = [m_user_id_map EXCEPT ![g] = {UserOf[s]}]
    /\ m_user_map' = [m_user_map EXCEPT ![g] = {UserOf[s]}]
    /\ Begin(s, g, Nobody, "create_set")
    /\ UNCHANGED <<m_user_group_set, verifications>>

\* Mutant of CreateSet: takes the lock that createGroup already holds.
CreateSet_Relocks(s) ==
    /\ pc[s] = "create_set"
    /\ ~GroupSetLocked(UserOf[s])
    /\ m_user_group_set' = [m_user_group_set EXCEPT ![UserOf[s]] = @ \cup {group[s]}]
    /\ Answer(s, "success")
    /\ UNCHANGED <<registry, m_user_id_map, m_user_map, verifications>>

CreateSet(s) ==
    /\ pc[s] = "create_set"
    /\ m_user_group_set' = [m_user_group_set EXCEPT ![UserOf[s]] = @ \cup {group[s]}]
    /\ Answer(s, "success")
    /\ UNCHANGED <<registry, m_user_id_map, m_user_map, verifications>>

-----------------------------------------------------------------------------
(* add_group: User::addGroup, VerificationManager::                        *)
(* applyGroupRoomVerification.                                             *)

\* Bound: applications of one user that are under way or left entries behind.
EntriesLeft(u, g) ==
    LET underWay == Cardinality({t \in Sessions :
                       /\ UserOf[t] = u /\ group[t] = g
                       /\ pc[t] \in {"add_member", "add_ver", "apply_has",
                                     "apply_insert", "apply_sender",
                                     "apply_admin"}})
    IN \A owner \in {u, getAdministrator(g)} :
         m_user_group_verification_map[owner][g][u] + underWay < MaxEntries

AddGroup(s, g) ==
    /\ hasGroupRoom(g) => EntriesLeft(UserOf[s], g)
    /\ BeginOnGroup(s, g, Nobody, "add_member")

\* GroupRoom::hasMember of u: a member has nothing to apply for.
CheckMember(s, u, from, to) ==
    /\ pc[s] = from
    /\ \/ GroupRoomGone(s)
       \/ /\ getGroupRoom(s)
          /\ \/ hasMember(group[s], u) /\ Answer(s, "error")
             \/ ~hasMember(group[s], u) /\ Goto(s, to)
          /\ UNCHANGED <<registry, members, verifications>>

AddCheckMember(s) == CheckMember(s, UserOf[s], "add_member", "add_ver")

AddCheckVerification(s) ==
    /\ pc[s] = "add_ver"
    /\ \/ hasGroupRoomVerification(UserOf[s], group[s]) /\ Answer(s, "error")
       \/ ~hasGroupRoomVerification(UserOf[s], group[s]) /\ Goto(s, "apply_has")
    /\ UNCHANGED <<registry, members, verifications>>

ApplyCheckGroup(s) ==
    /\ pc[s] = "apply_has"
    /\ \/ GroupRoomGone(s)
       \/ /\ getGroupRoom(s)
          /\ Goto(s, "apply_insert")
          /\ UNCHANGED <<registry, members, verifications>>

ApplyInsert(s) ==
    /\ pc[s] = "apply_insert"
    /\ \/ /\ hasGroupRoomVerification(UserOf[s], group[s])
          /\ Answer(s, "unknown")
          /\ UNCHANGED m_groupVerification_map
       \/ /\ ~hasGroupRoomVerification(UserOf[s], group[s])
          /\ m_groupVerification_map' =
               [m_groupVerification_map EXCEPT ![UserOf[s]][group[s]] = "waiting"]
          /\ Goto(s, "apply_sender")
    /\ UNCHANGED <<registry, members, m_user_group_verification_map>>

\* User::addGroupVerification inserts into a multimap: entries accumulate.
addGroupVerification(owner, g, u) ==
    m_user_group_verification_map' =
        [m_user_group_verification_map EXCEPT ![owner][g][u] = @ + 1]

ApplySender(s) ==
    /\ pc[s] = "apply_sender"
    /\ addGroupVerification(UserOf[s], group[s], UserOf[s])
    /\ Goto(s, "apply_admin")
    /\ UNCHANGED <<registry, members, m_groupVerification_map>>

ApplyAdmin(s) ==
    /\ pc[s] = "apply_admin"
    /\ \/ GroupRoomGone(s)
       \/ /\ getGroupRoom(s)
          /\ addGroupVerification(getAdministrator(group[s]), group[s], UserOf[s])
          /\ Goto(s, "add_notify")
          /\ UNCHANGED <<registry, members, m_groupVerification_map>>

AddNotify(s) ==
    /\ pc[s] = "add_notify"
    /\ \/ GroupRoomGone(s)
       \/ /\ getGroupRoom(s)
          /\ Answer(s, "success")
          /\ UNCHANGED <<registry, members, verifications>>

-----------------------------------------------------------------------------
(* accept_group_verification: User::acceptGroup, VerificationManager::     *)
(* acceptGroupRoom.                                                        *)

AcceptGroup(s, g, u) == BeginOnGroup(s, g, u, "accept_member")

\* Mutant of CheckAdministrator: anybody passes.
CheckAdministrator_Anybody(s, from, to) ==
    /\ pc[s] = from
    /\ \/ GroupRoomGone(s)
       \/ /\ getGroupRoom(s)
          /\ Goto(s, to)
          /\ UNCHANGED <<registry, members, verifications>>

\* acceptGroup, rejectGroup and removeGroup are for the administrator.
CheckAdministrator(s, from, to) ==
    /\ pc[s] = from
    /\ \/ GroupRoomGone(s)
       \/ /\ getGroupRoom(s)
          /\ \/ getAdministrator(group[s]) # UserOf[s] /\ Answer(s, "error")
             \/ getAdministrator(group[s]) = UserOf[s] /\ Goto(s, to)
          /\ UNCHANGED <<registry, members, verifications>>

AcceptCheckMember(s) == CheckMember(s, who[s], "accept_member", "accept_admin")
AcceptCheckAdministrator(s) == CheckAdministrator(s, "accept_admin", "accept_mark")

\* An application can only be one of a registered user.
Applied(s) == who[s] \in Users /\ hasGroupRoomVerification(who[s], group[s])

AcceptMark(s) ==
    /\ pc[s] = "accept_mark"
    /\ \/ /\ Applied(s)
          /\ m_groupVerification_map' =
               [m_groupVerification_map EXCEPT ![who[s]][group[s]] = "verified"]
          /\ Goto(s, "accept_add")
       \/ /\ ~Applied(s)
          /\ Answer(s, "unknown")
          /\ UNCHANGED m_groupVerification_map
    /\ UNCHANGED <<registry, members, m_user_group_verification_map>>

\* GroupRoom::addMember writes the two membership maps one after the other.
AcceptAdd(s) ==
    /\ pc[s] = "accept_add"
    /\ \/ GroupRoomGone(s)
       \/ /\ getGroupRoom(s)
          /\ m_user_id_map' = [m_user_id_map EXCEPT ![group[s]] = @ \cup {who[s]}]
          /\ Goto(s, "accept_join")
          /\ UNCHANGED <<registry, m_user_map, m_user_group_set, verifications>>

\* Mutant of AcceptJoin: returns early, the user's group list is not updated.
AcceptJoin_SkipsList(s) ==
    /\ pc[s] = "accept_join"
    /\ m_user_map' = [m_user_map EXCEPT ![group[s]] = @ \cup {who[s]}]
    /\ Goto(s, "erase")
    /\ UNCHANGED <<registry, m_user_id_map, m_user_group_set, verifications>>

AcceptJoin(s) ==
    /\ pc[s] = "accept_join"
    /\ m_user_map' = [m_user_map EXCEPT ![group[s]] = @ \cup {who[s]}]
    /\ Goto(s, "accept_list")
    /\ UNCHANGED <<registry, m_user_id_map, m_user_group_set, verifications>>

\* Mutant of AcceptList: the application is not removed afterwards.
AcceptList_KeepsApplication(s) ==
    /\ pc[s] = "accept_list"
    /\ ~GroupSetLocked(who[s])
    /\ m_user_group_set' = [m_user_group_set EXCEPT ![who[s]] = @ \cup {group[s]}]
    /\ Answer(s, "success")
    /\ UNCHANGED <<registry, m_user_id_map, m_user_map, verifications>>

AcceptList(s) ==
    /\ pc[s] = "accept_list"
    /\ ~GroupSetLocked(who[s])
    /\ m_user_group_set' = [m_user_group_set EXCEPT ![who[s]] = @ \cup {group[s]}]
    /\ Goto(s, "erase")
    /\ UNCHANGED <<registry, m_user_id_map, m_user_map, verifications>>

-----------------------------------------------------------------------------
(* reject_group_verification, and the removal of an application            *)
(* (removeGroupRoomVerification) that accepting and rejecting share.       *)

RejectGroup(s, g, u) == BeginOnGroup(s, g, u, "reject_member")

RejectCheckMember(s) == CheckMember(s, who[s], "reject_member", "reject_admin")
RejectCheckAdministrator(s) == CheckAdministrator(s, "reject_admin", "reject_ver")

RejectCheckVerification(s) ==
    /\ pc[s] = "reject_ver"
    /\ \/ Applied(s) /\ Goto(s, "erase")
       \/ ~Applied(s) /\ Answer(s, "error")
    /\ UNCHANGED <<registry, members, verifications>>

\* Unlike the friend half, throws when the application is gone.
Erase(s) ==
    /\ pc[s] = "erase"
    /\ \/ /\ Applied(s)
          /\ m_groupVerification_map' =
               [m_groupVerification_map EXCEPT ![who[s]][group[s]] = "none"]
          /\ Goto(s, "erase_admin")
       \/ /\ ~Applied(s)
          /\ Answer(s, "unknown")
          /\ UNCHANGED m_groupVerification_map
    /\ UNCHANGED <<registry, members, m_user_group_verification_map>>

\* User::removeGroupVerification throws when the list has no entry of the
\* group at all, and otherwise erases one entry of the user, if there is one.
\* (When there is none, its loop reads the end iterator before it compares
\* it: undefined, but whatever it reads, nothing is erased.)
NoEntryOf(owner, g) ==
    \A u \in Users : m_user_group_verification_map[owner][g][u] = 0

\* Mutant of removeGroupVerification: erases all entries of the user.
removeGroupVerification_All(owner, g, u) ==
    m_user_group_verification_map' =
        [m_user_group_verification_map EXCEPT ![owner][g][u] = 0]

\* Mutant of removeGroupVerification: does not look for an entry of the user.
removeGroupVerification_Unchecked(owner, g, u) ==
    m_user_group_verification_map' =
        [m_user_group_verification_map EXCEPT ![owner][g][u] = @ - 1]

removeGroupVerification(owner, g, u) ==
    m_user_group_verification_map' =
        [m_user_group_verification_map EXCEPT
           ![owner][g][u] = IF @ = 0 THEN 0 ELSE @ - 1]

\* What follows on owner's list; at the end of both the command answers.
EraseEntry(s, owner) ==
    /\ \/ /\ NoEntryOf(owner, group[s])
          /\ Answer(s, "unknown")
          /\ UNCHANGED m_user_group_verification_map
       \/ /\ ~NoEntryOf(owner, group[s])
          /\ removeGroupVerification(owner, group[s], who[s])
          /\ \/ pc[s] = "erase_admin" /\ Goto(s, "erase_sender")
             \/ pc[s] = "erase_sender" /\ Answer(s, "success")
    /\ UNCHANGED <<registry, members, m_groupVerification_map>>

EraseAdmin(s) ==
    /\ pc[s] = "erase_admin"
    /\ \/ GroupRoomGone(s)
       \/ getGroupRoom(s) /\ EraseEntry(s, getAdministrator(group[s]))

EraseSender(s) == pc[s] = "erase_sender" /\ EraseEntry(s, who[s])

-----------------------------------------------------------------------------
(* remove_group: User::removeGroup, Manager::removeGroupRoom.  The         *)
(* members' group lists and the applications are not cleaned.              *)

RemoveGroup(s, g) == BeginOnGroup(s, g, Nobody, "remove_admin")

RemoveCheckAdministrator(s) == CheckAdministrator(s, "remove_admin", "remove_notify")

RemoveNotify(s) ==
    /\ pc[s] = "remove_notify"
    /\ \/ GroupRoomGone(s)
       \/ /\ getGroupRoom(s)
          /\ Goto(s, "remove_erase")
          /\ UNCHANGED <<registry, members, verifications>>

RemoveErase(s) ==
    /\ pc[s] = "remove_erase"
    /\ \/ hasGroupRoom(group[s]) /\ Answer(s, "success")
       \/ ~hasGroupRoom(group[s]) /\ Answer(s, "error")
    /\ m_groupRoom_map' = m_groupRoom_map \ {group[s]}
    /\ UNCHANGED <<m_newPrivateRoomId, m_administrator_user_id, members, verifications>>

-----------------------------------------------------------------------------
(* leave_group: User::leaveGroup, GroupRoom::removeMember.  The            *)
(* administrator is refused only after having been removed.                *)

LeaveGroup(s, g) == BeginOnGroup(s, g, Nobody, "leave_erase")

LeaveErase(s) ==
    /\ pc[s] = "leave_erase"
    /\ \/ GroupRoomGone(s)
       \/ /\ getGroupRoom(s)
          /\ m_user_id_map' = [m_user_id_map EXCEPT ![group[s]] = @ \ {UserOf[s]}]
          /\ Goto(s, "leave_room")
          /\ UNCHANGED <<registry, m_user_map, m_user_group_set, verifications>>

LeaveRoom(s) ==
    /\ pc[s] = "leave_room"
    /\ m_user_map' = [m_user_map EXCEPT ![group[s]] = @ \ {UserOf[s]}]
    /\ \/ getAdministrator(group[s]) = UserOf[s] /\ Answer(s, "error")
       \/ getAdministrator(group[s]) # UserOf[s] /\ Answer(s, "success")
    /\ UNCHANGED <<registry, m_user_id_map, m_user_group_set, verifications>>

-----------------------------------------------------------------------------
(* send_group_message.                                                     *)

SendGroupMessage(s, g) == BeginOnGroup(s, g, Nobody, "send_set")

SendCheckGroup(s) ==
    /\ pc[s] = "send_set"
    /\ ~GroupSetLocked(UserOf[s])
    /\ \/ group[s] \in m_user_group_set[UserOf[s]] /\ Goto(s, "send_room")
       \/ group[s] \notin m_user_group_set[UserOf[s]] /\ Answer(s, "error")
    /\ UNCHANGED <<registry, members, verifications>>

\* GroupRoom::sendMessage stores the message of a member and sends it to the
\* users in m_user_map; the message of anyone else it drops without a word,
\* and the command answers the same.
SendToRoom(s) ==
    /\ pc[s] = "send_room"
    /\ \/ GroupRoomGone(s)
       \/ /\ getGroupRoom(s)
          /\ Answer(s, "success")
          /\ UNCHANGED <<registry, members, verifications>>

\* get_group_list and get_group_verification_list copy one container.
GetList(s) ==
    /\ pc[s] = "idle"
    /\ ~GroupSetLocked(UserOf[s])
    /\ Answer(s, "success")
    /\ UNCHANGED <<registry, members, verifications>>

-----------------------------------------------------------------------------
Command(s) ==
    \/ CreateGroup(s)
    \/ GetList(s)
    \/ \E g \in GroupIds :
         \/ AddGroup(s, g)
         \/ RemoveGroup(s, g)
         \/ LeaveGroup(s, g)
         \/ SendGroupMessage(s, g)
         \/ \E u \in Ids : AcceptGroup(s, g, u) \/ RejectGroup(s, g, u)

Step(s) ==
    \/ CreateSet(s)
    \/ AddCheckMember(s) \/ AddCheckVerification(s)
    \/ ApplyCheckGroup(s) \/ ApplyInsert(s) \/ ApplySender(s)
    \/ ApplyAdmin(s) \/ AddNotify(s)
    \/ AcceptCheckMember(s) \/ AcceptCheckAdministrator(s)
    \/ AcceptMark(s) \/ AcceptAdd(s) \/ AcceptJoin(s) \/ AcceptList(s)
    \/ RejectCheckMember(s) \/ RejectCheckAdministrator(s)
    \/ RejectCheckVerification(s)
    \/ Erase(s) \/ EraseAdmin(s) \/ EraseSender(s)
    \/ RemoveCheckAdministrator(s) \/ RemoveNotify(s) \/ RemoveErase(s)
    \/ LeaveErase(s) \/ LeaveRoom(s)
    \/ SendCheckGroup(s) \/ SendToRoom(s)

Next == \E s \in Sessions : Command(s) \/ Step(s)

\* A posted command runs on the io_context's thread pool until it answers.
Fairness == \A s \in Sessions : WF_vars(Step(s))

Spec == Init /\ [][Next]_vars
FairSpec == Spec /\ Fairness

-----------------------------------------------------------------------------
(* What the commands guarantee.                                            *)

Accepting(g, u, labels) ==
    \E s \in Sessions : group[s] = g /\ who[s] = u /\ pc[s] \in labels

\* Whoever is a member of a group, or receives its messages, has the group in
\* the group list, unless the command that lets the user in (acceptGroupRoom
\* or createGroup) has still to write it there: however leave_group, remove_group
\* and other accepts interleave with the three writes, nobody is left in a
\* group that send_group_message refuses to them.
MembersSeeGroup ==
    \A g \in Groups : \A u \in m_user_id_map[g] \cup m_user_map[g] :
        \/ g \in m_user_group_set[u]
        \/ Accepting(g, u, {"accept_join", "accept_list"})
        \/ \E s \in Sessions : /\ UserOf[s] = u
                               /\ group[s] = g /\ pc[s] = "create_set"

\* acceptGroupRoom sets the flag of an application before it lets the user in
\* and removes the application last.  While the group exists a set flag always
\* belongs to a command still on its way there, so no accepted application is
\* left behind to make add_group refuse the user for ever.
VerifiedIsBeingAccepted ==
    \A u \in Users, g \in m_groupRoom_map :
        m_groupVerification_map[u][g] = "verified"
            => Accepting(g, u, {"accept_add", "accept_join", "accept_list",
                                "erase"})

\* An application to an existing group is in the lists of its sender and of the
\* administrator, unless the add_group that makes it is still writing them.
\* The lists are multimaps, so an older reject or accept that is late with its
\* two erasures takes away its own entries and not those of a new application.
ApplicationIsListed ==
    \A u \in Users, g \in m_groupRoom_map :
        \/ ~hasGroupRoomVerification(u, g)
        \/ \E s \in Sessions :
              /\ UserOf[s] = u /\ group[s] = g
              /\ pc[s] \in {"apply_sender", "apply_admin"}
        \/ \A owner \in {u, getAdministrator(g)} :
              m_user_group_verification_map[owner][g][u] > 0

\* A group id is never handed out again: a group that has been removed stays
\* removed and a group keeps its administrator.  removeGroupRoom leaves the id
\* in the members' group lists and in the applications; a second group of the
\* same id would inherit them.  It follows from MembershipSpec below, where a
\* group is founded once.
GroupIdsFresh ==
    [][\A g \in Groups :
         getAdministrator(g) # Nobody =>
             /\ getAdministrator(g)' = getAdministrator(g)
             /\ g \notin m_groupRoom_map => g \notin m_groupRoom_map']_vars

\* What the containers and the commands in progress say of Membership: a session
\* that lets somebody in does so for the user it acts for.
applied == {q \in Users \X Groups : hasGroupRoomVerification(q[1], q[2])}
LettingIn ==
    {s \in Sessions : pc[s] \in {"create_set", "accept_add", "accept_join", "accept_list"}}
GrantOf(s) ==
    <<UserOf[s], IF pc[s] = "create_set" THEN UserOf[s] ELSE who[s], group[s]>>
granted == {GrantOf(s) : s \in LettingIn}

M == INSTANCE Membership WITH
       owner <- m_administrator_user_id, open <- m_groupRoom_map,
       members <- m_user_id_map, reached <- m_user_map, listed <- m_user_group_set

\* The group commands implement the abstract Membership: nobody gets into a group
\* but its founder and those whose application its administrator has accepted,
\* whatever other commands do between the check for the administrator, the mark
\* and the three writes; nobody gets into a removed group.
MembershipSpec == M!Spec

\* Every command is answered: no order of the commands leaves one waiting for
\* a user's group set lock that is never released.
EveryCommandAnswered ==
    \A s \in Sessions : pc[s] # "idle" ~> pc[s] = "idle"

=============================================================================
