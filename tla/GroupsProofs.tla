---------------------------- MODULE GroupsProofs ----------------------------
(***************************************************************************)
(* Proofs about Groups, for every set of users, every finite set of        *)
(* sessions and every bound on groups and list entries.                    *)
(*                                                                         *)
(* Most steps of a command only look at the containers and move on; they   *)
(* are Quiet, and one lemma shows that they keep the whole invariant.  The *)
(* other steps are the Writes below.                                       *)
(*                                                                         *)
(* ApplicationIsListed needs a counting invariant: what matters is not that*)
(* an entry is there but that there are as many entries as the application *)
(* and the erasures still under way will take.                             *)
(***************************************************************************)
EXTENDS Groups, TLAPS, FiniteSetTheorems

\* The commands in progress name a group that has been created, and from the
\* moment an application is known to exist a registered user.
ControlInv ==
    \A s \in Sessions :
        /\ pc[s] # "idle" => group[s] \in Groups /\ group[s] < m_newPrivateRoomId
        /\ pc[s] \in {"accept_add", "accept_join", "accept_list",
                      "erase", "erase_admin", "erase_sender"} => who[s] \in Users

\* Exactly the ids below the counter have been handed out.
RegistryInv ==
    /\ \A g \in Groups : getAdministrator(g) \in Users <=> g < m_newPrivateRoomId
    /\ \A g \in m_groupRoom_map : g < m_newPrivateRoomId

\* Nobody has applied to a group that has not been created.
FreshInv ==
    \A u \in Users, g \in Groups :
        g >= m_newPrivateRoomId => m_groupVerification_map[u][g] = "none"

\* The add_group commands of u on g, and the erasures of u's applications to
\* g, that are at the given label.
Applying(label, g, u) ==
    {t \in Sessions : pc[t] = label /\ group[t] = g /\ UserOf[t] = u}
Erasing(label, g, u) ==
    {t \in Sessions : pc[t] = label /\ group[t] = g /\ who[t] = u}

Open(g, u) == IF hasGroupRoomVerification(u, g) THEN 1 ELSE 0

\* How many entries of u's applications to g the list of the sender and the
\* list of the administrator have to hold: one for the open application and
\* one for each erasure under way, but those an add_group has still to write.
SenderOwed(g, u) ==
    Open(g, u) + Cardinality(Erasing("erase_admin", g, u))
               + Cardinality(Erasing("erase_sender", g, u))
               - Cardinality(Applying("apply_sender", g, u))
AdminOwed(g, u) ==
    Open(g, u) + Cardinality(Erasing("erase_admin", g, u))
               - Cardinality(Applying("apply_sender", g, u))
               - Cardinality(Applying("apply_admin", g, u))

Entries(owner, g, u) == m_user_group_verification_map[owner][g][u]

\* The lists hold what is owed; an administrator who applies to the own group
\* has both kinds of entries in one list.
Listed(g, u) ==
    /\ getAdministrator(g) = u =>
         Entries(u, g, u) >= SenderOwed(g, u) + AdminOwed(g, u)
    /\ getAdministrator(g) # u =>
         /\ Entries(u, g, u) >= SenderOwed(g, u)
         /\ Entries(getAdministrator(g), g, u) >= AdminOwed(g, u)

ListInv == \A u \in Users, g \in m_groupRoom_map : Listed(g, u)

IInv ==
    /\ TypeOK
    /\ ControlInv
    /\ RegistryInv
    /\ FreshInv
    /\ MembersSeeGroup
    /\ VerifiedIsBeingAccepted
    /\ ListInv

-----------------------------------------------------------------------------
(* Types.                                                                  *)

SharedTypeOK ==
    /\ m_groupRoom_map \subseteq Groups
    /\ m_newPrivateRoomId \in FirstGroupId .. (FirstGroupId + MaxGroups)
    /\ m_administrator_user_id \in [Groups -> Users \cup {Nobody}]
    /\ m_user_id_map \in [Groups -> SUBSET Users]
    /\ m_user_map \in [Groups -> SUBSET Users]
    /\ m_user_group_set \in [Users -> SUBSET Groups]
    /\ m_groupVerification_map
         \in [Users -> [Groups -> {"none", "waiting", "verified"}]]
    /\ m_user_group_verification_map \in [Users -> [Groups -> [Users -> Nat]]]

LocalTypeOK ==
    /\ pc \in [Sessions -> Labels]
    /\ group \in [Sessions -> GroupIds]
    /\ who \in [Sessions -> Ids \cup {Nobody}]
    /\ reply \in [Sessions -> Replies]

\* The types split into those of the containers and those of the commands.
LEMMA TypeParts == TypeOK <=> SharedTypeOK /\ LocalTypeOK
BY DEF TypeOK, SharedTypeOK, LocalTypeOK

\* Every session acts for a registered user, and Nobody is not one.
LEMMA UserFacts == Nobody \notin Users /\ \A s \in Sessions : UserOf[s] \in Users
BY UserOfAssumption, IdsAssumption

\* Group ids are numbers from FirstGroupId on, and 0 is none of them.
LEMMA GroupFacts ==
    /\ MaxGroups \in Nat
    /\ \A g : g \in Groups <=> g \in Int /\ g >= FirstGroupId
                                         /\ g < FirstGroupId + MaxGroups
    /\ NoGroup \notin Groups
    /\ \A g : g \in GroupIds <=> g \in Groups \/ g = NoGroup
BY BoundsAssumption DEF Groups, FirstGroupId, NoGroup, GroupIds

\* Writing one entry of a map of two levels.
LEMMA NestedExcept ==
    ASSUME NEW A, NEW B, NEW S, NEW f \in [A -> [B -> S]],
           NEW a \in A, NEW b \in B, NEW x \in S
    PROVE  /\ [f EXCEPT ![a][b] = x] \in [A -> [B -> S]]
           /\ \A c \in A, d \in B :
                [f EXCEPT ![a][b] = x][c][d] = IF c = a /\ d = b THEN x ELSE f[c][d]
OBVIOUS

-----------------------------------------------------------------------------
(* How a command moves.                                                    *)

\* A step of s leaves the other commands where they are.
OthersStay(s) ==
    \A t \in Sessions \ {s} : /\ pc'[t] = pc[t]
                              /\ group'[t] = group[t]
                              /\ who'[t] = who[t]

\* The command of s moves to a label and keeps its parameters, or ends.
Moves(s, label) ==
    /\ LocalTypeOK'
    /\ OthersStay(s)
    /\ pc'[s] = label
    /\ group'[s] = group[s]
    /\ who'[s] = who[s]

Ends(s) ==
    /\ LocalTypeOK'
    /\ OthersStay(s)
    /\ pc'[s] = "idle"

\* What Goto, Answer and Begin do.
LEMMA GotoMoves ==
    ASSUME LocalTypeOK, NEW s \in Sessions, NEW l \in Labels, Goto(s, l)
    PROVE  Moves(s, l)
BY DEF LocalTypeOK, Goto, Moves, OthersStay

\* An answer ends the command.
LEMMA AnswerEnds ==
    ASSUME LocalTypeOK, NEW s \in Sessions, NEW r \in Replies, Answer(s, r)
    PROVE  Ends(s)
<1>1. "idle" \in Labels /\ NoGroup \in GroupIds
  BY DEF Labels, GroupIds
<1> QED BY <1>1 DEF LocalTypeOK, Answer, Ends, OthersStay

\* A new command takes its parameters.
LEMMA BeginMoves ==
    ASSUME LocalTypeOK, NEW s \in Sessions, NEW l \in Labels,
           NEW g \in GroupIds, NEW u \in Ids \cup {Nobody}, Begin(s, g, u, l)
    PROVE  /\ LocalTypeOK'
           /\ OthersStay(s)
           /\ pc'[s] = l /\ group'[s] = g /\ who'[s] = u
<1>1. "none" \in Replies
  BY DEF Replies
<1> QED BY <1>1 DEF LocalTypeOK, Begin, OthersStay

\* A step that leaves every container alone.  A command that only looks ends
\* or moves on; the labels are those at which it owes nothing to the invariant.
Quiet(s) ==
    /\ UNCHANGED <<registry, members, verifications>>
    /\ LocalTypeOK'
    /\ OthersStay(s)
    /\ pc[s] \notin {"create_set", "apply_sender", "accept_join", "accept_list"}
    /\ pc[s] \in {"apply_admin", "accept_add"} => ~hasGroupRoom(group[s])
    /\ pc[s] = "erase" => ~Applied(s)
    /\ pc'[s] \notin {"create_set", "apply_sender", "apply_admin", "accept_add",
                      "accept_join", "accept_list", "erase_admin", "erase_sender"}
    /\ pc'[s] # "idle" => group'[s] \in Groups /\ group'[s] < m_newPrivateRoomId
    /\ pc'[s] = "erase" => who'[s] \in Users
    /\ pc'[s] = "accept_mark" => getAdministrator(group'[s]) = UserOf[s]

\* The steps that write a container, by what they write.
Inserts(s) ==
    /\ pc[s] = "apply_insert" /\ Moves(s, "apply_sender")
    /\ ~hasGroupRoomVerification(UserOf[s], group[s])
    /\ m_groupVerification_map' =
         [m_groupVerification_map EXCEPT ![UserOf[s]][group[s]] = "waiting"]
    /\ UNCHANGED <<registry, members, m_user_group_verification_map>>

ListsForSender(s) ==
    /\ pc[s] = "apply_sender" /\ Moves(s, "apply_admin")
    /\ addGroupVerification(UserOf[s], group[s], UserOf[s])
    /\ UNCHANGED <<registry, members, m_groupVerification_map>>

ListsForAdmin(s) ==
    /\ pc[s] = "apply_admin" /\ Moves(s, "add_notify")
    /\ hasGroupRoom(group[s])
    /\ addGroupVerification(getAdministrator(group[s]), group[s], UserOf[s])
    /\ UNCHANGED <<registry, members, m_groupVerification_map>>

Marks(s) ==
    /\ pc[s] = "accept_mark" /\ Moves(s, "accept_add")
    /\ Applied(s)
    /\ m_groupVerification_map' =
         [m_groupVerification_map EXCEPT ![who[s]][group[s]] = "verified"]
    /\ UNCHANGED <<registry, members, m_user_group_verification_map>>

Admits(s) ==
    /\ pc[s] = "accept_add" /\ Moves(s, "accept_join")
    /\ hasGroupRoom(group[s])
    /\ m_user_id_map' = [m_user_id_map EXCEPT ![group[s]] = @ \cup {who[s]}]
    /\ UNCHANGED <<registry, m_user_map, m_user_group_set, verifications>>

Joins(s) ==
    /\ pc[s] = "accept_join" /\ Moves(s, "accept_list")
    /\ m_user_map' = [m_user_map EXCEPT ![group[s]] = @ \cup {who[s]}]
    /\ UNCHANGED <<registry, m_user_id_map, m_user_group_set, verifications>>

Shows(s) ==
    /\ pc[s] = "accept_list" /\ Moves(s, "erase")
    /\ m_user_group_set' = [m_user_group_set EXCEPT ![who[s]] = @ \cup {group[s]}]
    /\ UNCHANGED <<registry, m_user_id_map, m_user_map, verifications>>

ShowsOwn(s) ==
    /\ pc[s] = "create_set" /\ Ends(s)
    /\ m_user_group_set' = [m_user_group_set EXCEPT ![UserOf[s]] = @ \cup {group[s]}]
    /\ UNCHANGED <<registry, m_user_id_map, m_user_map, verifications>>

Closes(s) ==
    /\ pc[s] = "erase" /\ Moves(s, "erase_admin")
    /\ Applied(s)
    /\ m_groupVerification_map' =
         [m_groupVerification_map EXCEPT ![who[s]][group[s]] = "none"]
    /\ UNCHANGED <<registry, members, m_user_group_verification_map>>

UnlistsForAdmin(s) ==
    /\ pc[s] = "erase_admin" /\ Moves(s, "erase_sender")
    /\ hasGroupRoom(group[s])
    /\ removeGroupVerification(getAdministrator(group[s]), group[s], who[s])
    /\ UNCHANGED <<registry, members, m_groupVerification_map>>

UnlistsForSender(s) ==
    /\ pc[s] = "erase_sender" /\ Ends(s)
    /\ removeGroupVerification(who[s], group[s], who[s])
    /\ UNCHANGED <<registry, members, m_groupVerification_map>>

Removes(s) ==
    /\ pc[s] = "remove_erase" /\ Ends(s)
    /\ m_groupRoom_map' = m_groupRoom_map \ {group[s]}
    /\ UNCHANGED <<m_newPrivateRoomId, m_administrator_user_id, members, verifications>>

Leaves(s) ==
    /\ \/ /\ pc[s] = "leave_erase" /\ Moves(s, "leave_room")
          /\ m_user_id_map' = [m_user_id_map EXCEPT ![group[s]] = @ \ {UserOf[s]}]
          /\ UNCHANGED m_user_map
       \/ /\ pc[s] = "leave_room" /\ Ends(s)
          /\ m_user_map' = [m_user_map EXCEPT ![group[s]] = @ \ {UserOf[s]}]
          /\ UNCHANGED m_user_id_map
    /\ UNCHANGED <<registry, m_user_group_set, verifications>>

Writes(s) ==
    \/ CreateGroup(s) \/ ShowsOwn(s)
    \/ Inserts(s) \/ ListsForSender(s) \/ ListsForAdmin(s)
    \/ Marks(s) \/ Admits(s) \/ Joins(s) \/ Shows(s)
    \/ Closes(s) \/ UnlistsForAdmin(s) \/ UnlistsForSender(s)
    \/ Removes(s) \/ Leaves(s)

\* A command that begins or is refused, and one whose group is gone, is quiet.
LEMMA BeginQuiet ==
    ASSUME IInv, NEW s \in Sessions, NEW g \in GroupIds, NEW u \in Ids \cup {Nobody},
           NEW l \in {"add_member", "accept_member", "reject_member",
                      "remove_admin", "leave_erase", "send_set"},
           BeginOnGroup(s, g, u, l)
    PROVE  Quiet(s)
<1>0. LocalTypeOK /\ l \in Labels /\ "error" \in Replies
  BY TypeParts DEF IInv, Labels, Replies
<1>1. CASE hasGroupRoom(g) /\ Begin(s, g, u, l)
  <2>1. g \in Groups /\ g < m_newPrivateRoomId
    BY <1>1 DEF hasGroupRoom, IInv, TypeOK, RegistryInv
  <2>2. LocalTypeOK' /\ OthersStay(s) /\ pc'[s] = l /\ group'[s] = g
    BY <1>0, <1>1, BeginMoves
  <2> QED BY <2>1, <2>2 DEF Quiet, BeginOnGroup
<1>2. CASE Answer(s, "error")
  <2>1. Ends(s)
    BY <1>0, <1>2, AnswerEnds
  <2> QED BY <2>1 DEF Quiet, BeginOnGroup, Ends
<1> QED BY <1>1, <1>2 DEF BeginOnGroup

\* A command whose group has been removed meanwhile answers and writes nothing.
LEMMA GoneQuiet ==
    ASSUME IInv, NEW s \in Sessions, GroupRoomGone(s),
           pc[s] \notin {"create_set", "apply_sender", "accept_join", "accept_list", "erase"}
    PROVE  Quiet(s)
<1>1. Ends(s)
  BY AnswerEnds, TypeParts DEF IInv, Replies, GroupRoomGone
<1> QED BY <1>1 DEF Quiet, Ends, GroupRoomGone

\* So are the checks a command makes before it writes.
LEMMA LookQuiet ==
    ASSUME IInv, NEW s \in Sessions, NEW l \in Labels,
           UNCHANGED <<registry, members, verifications>>,
           pc[s] \notin {"idle", "create_set", "apply_sender", "apply_admin", "accept_add",
                         "accept_join", "accept_list", "erase"},
           l \notin {"create_set", "apply_sender", "apply_admin", "accept_mark", "accept_add",
                     "accept_join", "accept_list", "erase", "erase_admin", "erase_sender"}
    PROVE  /\ Goto(s, l) => Quiet(s)
           /\ \A r \in Replies : Answer(s, r) => Quiet(s)
<1>0. LocalTypeOK
  BY TypeParts DEF IInv
<1>1. ASSUME Goto(s, l) PROVE Quiet(s)
  <2>1. Moves(s, l)
    BY <1>0, <1>1, GotoMoves
  <2>2. group[s] \in Groups /\ group[s] < m_newPrivateRoomId
    BY DEF IInv, ControlInv
  <2> QED BY <2>1, <2>2 DEF Quiet, Moves
<1>2. ASSUME NEW r \in Replies, Answer(s, r) PROVE Quiet(s)
  <2>1. Ends(s)
    BY <1>0, <1>2, AnswerEnds
  <2> QED BY <2>1 DEF Quiet, Ends
<1> QED BY <1>1, <1>2

\* The membership check of add, accept and reject writes nothing.
LEMMA CheckMemberQuiet ==
    ASSUME IInv, NEW s \in Sessions, NEW u,
           NEW from \in {"add_member", "accept_member", "reject_member"},
           NEW to \in {"add_ver", "accept_admin", "reject_admin"},
           CheckMember(s, u, from, to)
    PROVE  Quiet(s)
<1>0. to \in Labels /\ "error" \in Replies
  BY DEF Labels, Replies
<1>1. CASE GroupRoomGone(s)
  BY <1>1, GoneQuiet DEF CheckMember
<1>2. CASE /\ UNCHANGED <<registry, members, verifications>>
           /\ Answer(s, "error") \/ Goto(s, to)
  BY <1>0, <1>2, LookQuiet DEF CheckMember
<1> QED BY <1>1, <1>2 DEF CheckMember

\* Nor does the check for the administrator.
LEMMA CheckAdministratorQuiet ==
    ASSUME IInv, NEW s \in Sessions,
           NEW from \in {"accept_admin", "reject_admin", "remove_admin"},
           NEW to \in {"accept_mark", "reject_ver", "remove_notify"},
           CheckAdministrator(s, from, to)
    PROVE  Quiet(s)
<1>0. to \in Labels /\ "error" \in Replies
  BY DEF Labels, Replies
<1>1. CASE GroupRoomGone(s)
  BY <1>1, GoneQuiet DEF CheckAdministrator
<1>2. CASE UNCHANGED <<registry, members, verifications>> /\ Answer(s, "error")
  <2>1. Ends(s)
    BY <1>0, <1>2, AnswerEnds, TypeParts DEF IInv
  <2> QED BY <1>2, <2>1 DEF Quiet, Ends, CheckAdministrator
<1>3. CASE /\ UNCHANGED <<registry, members, verifications>>
           /\ getAdministrator(group[s]) = UserOf[s] /\ Goto(s, to)
  <2>1. Moves(s, to)
    BY <1>0, <1>3, GotoMoves, TypeParts DEF IInv
  <2>2. group[s] \in Groups /\ group[s] < m_newPrivateRoomId
    BY DEF IInv, ControlInv, CheckAdministrator
  <2> QED BY <1>3, <2>1, <2>2 DEF Quiet, Moves, CheckAdministrator
<1> QED BY <1>1, <1>2, <1>3 DEF CheckAdministrator

\* A new command looks only, or it is create_group.
LEMMA CommandQuiet ==
    ASSUME IInv, NEW s \in Sessions, Command(s)
    PROVE  Quiet(s) \/ CreateGroup(s)
<1>1. CASE GetList(s)
  <2>1. Ends(s)
    BY <1>1, AnswerEnds, TypeParts DEF IInv, Replies, GetList
  <2> QED BY <1>1, <2>1 DEF Quiet, Ends, GetList
<1>2. ASSUME NEW g \in GroupIds,
             \/ AddGroup(s, g) \/ RemoveGroup(s, g)
             \/ LeaveGroup(s, g) \/ SendGroupMessage(s, g)
      PROVE  Quiet(s)
  BY <1>2, BeginQuiet DEF AddGroup, RemoveGroup, LeaveGroup, SendGroupMessage
<1>3. ASSUME NEW g \in GroupIds, NEW u \in Ids,
             AcceptGroup(s, g, u) \/ RejectGroup(s, g, u)
      PROVE  Quiet(s)
  BY <1>3, BeginQuiet DEF AcceptGroup, RejectGroup
<1> QED BY <1>1, <1>2, <1>3 DEF Command

\* A later step of a command looks only, or it is one of the Writes.
LEMMA StepShape ==
    ASSUME IInv, NEW s \in Sessions, Step(s)
    PROVE  Quiet(s) \/ Writes(s)
<1>0. LocalTypeOK
  BY TypeParts DEF IInv
<1>l. /\ {"apply_has", "apply_insert", "apply_sender", "apply_admin", "add_notify",
          "accept_add", "accept_join", "accept_list", "erase", "erase_admin",
          "erase_sender", "remove_erase", "leave_room", "send_room"} \subseteq Labels
      /\ {"success", "error", "unknown"} \subseteq Replies
  BY DEF Labels, Replies
<1>g. ASSUME NEW l \in Labels, Goto(s, l) PROVE Moves(s, l)
  BY <1>0, <1>g, GotoMoves
<1>a. ASSUME NEW r \in Replies, Answer(s, r) PROVE Ends(s)
  BY <1>0, <1>a, AnswerEnds
<1>1. CASE CreateSet(s)
  BY <1>1, <1>l, <1>a DEF CreateSet, ShowsOwn, Writes
<1>2. CASE AddCheckMember(s) \/ AcceptCheckMember(s) \/ RejectCheckMember(s)
  BY <1>2, CheckMemberQuiet DEF AddCheckMember, AcceptCheckMember, RejectCheckMember
<1>3. CASE \/ AcceptCheckAdministrator(s) \/ RejectCheckAdministrator(s)
           \/ RemoveCheckAdministrator(s)
  BY <1>3, CheckAdministratorQuiet
     DEF AcceptCheckAdministrator, RejectCheckAdministrator, RemoveCheckAdministrator
<1>4. CASE AddCheckVerification(s)
  BY <1>4, <1>l, LookQuiet DEF AddCheckVerification
<1>5. CASE ApplyCheckGroup(s) \/ AddNotify(s) \/ RemoveNotify(s) \/ SendToRoom(s)
  <2>1. CASE GroupRoomGone(s)
    BY <1>5, <2>1, GoneQuiet DEF ApplyCheckGroup, AddNotify, RemoveNotify, SendToRoom
  <2>2. CASE ~GroupRoomGone(s)
    BY <1>5, <2>2, <1>l, LookQuiet DEF ApplyCheckGroup, AddNotify, RemoveNotify, SendToRoom
  <2> QED BY <2>1, <2>2
<1>6. CASE ApplyInsert(s)
  <2>1. CASE hasGroupRoomVerification(UserOf[s], group[s])
    BY <1>6, <2>1, <1>l, LookQuiet DEF ApplyInsert, verifications
  <2>2. CASE ~hasGroupRoomVerification(UserOf[s], group[s])
    BY <1>6, <2>2, <1>l, <1>g DEF ApplyInsert, Inserts, Writes
  <2> QED BY <2>1, <2>2
<1>7. CASE ApplySender(s)
  BY <1>7, <1>l, <1>g DEF ApplySender, ListsForSender, Writes
<1>8. CASE ApplyAdmin(s)
  <2>1. CASE GroupRoomGone(s)
    BY <1>8, <2>1, GoneQuiet DEF ApplyAdmin
  <2>2. CASE ~GroupRoomGone(s)
    BY <1>8, <2>2, <1>l, <1>g DEF ApplyAdmin, getGroupRoom, ListsForAdmin, Writes
  <2> QED BY <2>1, <2>2
<1>9. CASE AcceptMark(s)
  <2>1. CASE Applied(s)
    BY <1>9, <2>1, <1>l, <1>g DEF AcceptMark, Marks, Writes
  <2>2. CASE ~Applied(s)
    BY <1>9, <2>2, <1>l, LookQuiet DEF AcceptMark, verifications
  <2> QED BY <2>1, <2>2
<1>10. CASE AcceptAdd(s)
  <2>1. CASE GroupRoomGone(s)
    BY <1>10, <2>1, GoneQuiet DEF AcceptAdd
  <2>2. CASE ~GroupRoomGone(s)
    BY <1>10, <2>2, <1>l, <1>g DEF AcceptAdd, getGroupRoom, Admits, Writes
  <2> QED BY <2>1, <2>2
<1>11. CASE AcceptJoin(s)
  BY <1>11, <1>l, <1>g DEF AcceptJoin, Joins, Writes
<1>12. CASE AcceptList(s)
  BY <1>12, <1>l, <1>g DEF AcceptList, Shows, Writes
<1>13. CASE RejectCheckVerification(s)
  <2>1. CASE Applied(s)
    <3>1. Moves(s, "erase")
      BY <1>13, <2>1, <1>l, <1>g DEF RejectCheckVerification
    <3>2. group[s] \in Groups /\ group[s] < m_newPrivateRoomId
      BY <1>13 DEF IInv, ControlInv, RejectCheckVerification
    <3> QED BY <1>13, <2>1, <3>1, <3>2 DEF RejectCheckVerification, Quiet, Moves, Applied
  <2>2. CASE ~Applied(s)
    BY <1>13, <2>2, <1>l, LookQuiet DEF RejectCheckVerification
  <2> QED BY <2>1, <2>2
<1>14. CASE Erase(s)
  <2>1. CASE Applied(s)
    BY <1>14, <2>1, <1>l, <1>g DEF Erase, Closes, Writes
  <2>2. CASE ~Applied(s)
    <3>1. Ends(s)
      BY <1>14, <2>2, <1>l, <1>a DEF Erase
    <3> QED BY <1>14, <2>2, <3>1 DEF Erase, Quiet, Ends, verifications
  <2> QED BY <2>1, <2>2
<1>15. CASE EraseAdmin(s)
  <2>1. CASE GroupRoomGone(s)
    BY <1>15, <2>1, GoneQuiet DEF EraseAdmin
  <2>2. CASE ~GroupRoomGone(s) /\ NoEntryOf(getAdministrator(group[s]), group[s])
    BY <1>15, <2>2, <1>l, LookQuiet DEF EraseAdmin, EraseEntry, verifications
  <2>3. CASE ~GroupRoomGone(s) /\ ~NoEntryOf(getAdministrator(group[s]), group[s])
    BY <1>15, <2>3, <1>l, <1>g
       DEF EraseAdmin, EraseEntry, getGroupRoom, UnlistsForAdmin, Writes
  <2> QED BY <2>1, <2>2, <2>3
<1>16. CASE EraseSender(s)
  <2>1. CASE NoEntryOf(who[s], group[s])
    BY <1>16, <2>1, <1>l, LookQuiet DEF EraseSender, EraseEntry, verifications
  <2>2. CASE ~NoEntryOf(who[s], group[s])
    BY <1>16, <2>2, <1>l, <1>a DEF EraseSender, EraseEntry, UnlistsForSender, Writes
  <2> QED BY <2>1, <2>2
<1>17. CASE RemoveErase(s)
  BY <1>17, <1>l, <1>a DEF RemoveErase, Removes, Writes
<1>18. CASE LeaveErase(s)
  <2>1. CASE GroupRoomGone(s)
    BY <1>18, <2>1, GoneQuiet DEF LeaveErase
  <2>2. CASE ~GroupRoomGone(s)
    BY <1>18, <2>2, <1>l, <1>g DEF LeaveErase, Leaves, Writes
  <2> QED BY <2>1, <2>2
<1>19. CASE LeaveRoom(s)
  BY <1>19, <1>l, <1>a DEF LeaveRoom, Leaves, Writes
<1>20. CASE SendCheckGroup(s)
  BY <1>20, <1>l, LookQuiet DEF SendCheckGroup
<1> QED BY <1>1, <1>2, <1>3, <1>4, <1>5, <1>6, <1>7, <1>8, <1>9, <1>10, <1>11, <1>12,
           <1>13, <1>14, <1>15, <1>16, <1>17, <1>18, <1>19, <1>20 DEF Step

\* So every step of the system is a quiet step or one of the Writes.
LEMMA NextShape ==
    ASSUME IInv, Next
    PROVE  \E s \in Sessions : Quiet(s) \/ Writes(s)
BY CommandQuiet, StepShape DEF Next, Writes

-----------------------------------------------------------------------------
(* The invariant, part by part.                                            *)

\* The administrator of a group that exists is a registered user.
LEMMA AdministratorType ==
    ASSUME IInv, NEW g \in m_groupRoom_map
    PROVE  g \in Groups /\ g < m_newPrivateRoomId /\ getAdministrator(g) \in Users
BY DEF IInv, RegistryInv, TypeOK

\* What create_group does to the commands.
LEMMA CreateMoves ==
    ASSUME IInv, NEW s \in Sessions, CreateGroup(s)
    PROVE  /\ LocalTypeOK' /\ OthersStay(s)
           /\ pc'[s] = "create_set" /\ group'[s] = m_newPrivateRoomId
           /\ m_newPrivateRoomId \in Groups
           /\ m_newPrivateRoomId \in Int /\ m_newPrivateRoomId' = m_newPrivateRoomId + 1
<1>1. m_newPrivateRoomId \in Groups /\ m_newPrivateRoomId \in Int
  <2>1. m_newPrivateRoomId \in FirstGroupId .. (FirstGroupId + MaxGroups)
    BY DEF IInv, TypeOK
  <2>2. m_newPrivateRoomId < FirstGroupId + MaxGroups
    BY DEF CreateGroup
  <2> QED BY <2>1, <2>2, BoundsAssumption DEF Groups, FirstGroupId
<1>2. LocalTypeOK /\ "create_set" \in Labels /\ m_newPrivateRoomId \in GroupIds
  BY <1>1, TypeParts DEF IInv, Labels, GroupIds
<1>3. Begin(s, m_newPrivateRoomId, Nobody, "create_set")
  BY DEF CreateGroup
<1> QED BY <1>1, <1>2, <1>3, BeginMoves DEF CreateGroup

\* Every step keeps the types.
LEMMA TypeStep ==
    ASSUME IInv, NEW s \in Sessions, Quiet(s) \/ Writes(s)
    PROVE  TypeOK'
<1> SUFFICES SharedTypeOK' /\ LocalTypeOK'
  BY DEF TypeOK, SharedTypeOK, LocalTypeOK
<1>0. SharedTypeOK
  BY TypeParts DEF IInv
<1>g. pc[s] # "idle" => group[s] \in Groups
  BY DEF IInv, ControlInv
<1>u. UserOf[s] \in Users
  BY UserFacts
<1>w. pc[s] \in {"accept_add", "accept_join", "accept_list",
                 "erase", "erase_admin", "erase_sender"} => who[s] \in Users
  BY DEF IInv, ControlInv
<1>a. ASSUME hasGroupRoom(group[s]) PROVE getAdministrator(group[s]) \in Users
  BY <1>a, AdministratorType DEF hasGroupRoom
<1>e. ASSUME NEW o \in Users, NEW g \in Groups, NEW u \in Users
      PROVE  /\ addGroupVerification(o, g, u) =>
                  m_user_group_verification_map' \in [Users -> [Groups -> [Users -> Nat]]]
             /\ removeGroupVerification(o, g, u) =>
                  m_user_group_verification_map' \in [Users -> [Groups -> [Users -> Nat]]]
  <2> DEFINE n == m_user_group_verification_map[o][g][u]
             x == IF n = 0 THEN 0 ELSE n - 1
  <2>1. n \in Nat
    BY <1>0 DEF SharedTypeOK
  <2>2. n + 1 \in Nat /\ x \in Nat
    <3> HIDE DEF n
    <3> QED BY <2>1
  <2>3. m_user_group_verification_map \in [Users -> [Groups -> [Users -> Nat]]]
    BY <1>0 DEF SharedTypeOK
  <2>4. ASSUME addGroupVerification(o, g, u)
        PROVE  m_user_group_verification_map' \in [Users -> [Groups -> [Users -> Nat]]]
    <3>1. m_user_group_verification_map' =
            [m_user_group_verification_map EXCEPT ![o][g][u] = n + 1]
      BY <2>4 DEF addGroupVerification
    <3> HIDE DEF n
    <3> QED BY <3>1, <2>2, <2>3
  <2>5. ASSUME removeGroupVerification(o, g, u)
        PROVE  m_user_group_verification_map' \in [Users -> [Groups -> [Users -> Nat]]]
    <3>1. m_user_group_verification_map' =
            [m_user_group_verification_map EXCEPT ![o][g][u] = x]
      BY <2>5 DEF removeGroupVerification
    <3> HIDE DEF x
    <3> QED BY <3>1, <2>2, <2>3
  <2> QED BY <2>4, <2>5
<1>v. ASSUME NEW u \in Users, NEW g \in Groups, NEW x \in {"none", "waiting", "verified"}
      PROVE  [m_groupVerification_map EXCEPT ![u][g] = x]
                \in [Users -> [Groups -> {"none", "waiting", "verified"}]]
  BY <1>0, NestedExcept DEF SharedTypeOK
<1>1. CASE Quiet(s)
  BY <1>0, <1>1 DEF Quiet, SharedTypeOK, registry, members, verifications
<1>2. CASE CreateGroup(s)
  <2>1. m_newPrivateRoomId' \in FirstGroupId .. (FirstGroupId + MaxGroups)
    BY <1>0, <1>2, BoundsAssumption DEF SharedTypeOK, CreateGroup, FirstGroupId
  <2>2. LocalTypeOK' /\ m_newPrivateRoomId \in Groups
    BY <1>2, CreateMoves
  <2> QED BY <1>0, <1>2, <1>u, <2>1, <2>2 DEF SharedTypeOK, CreateGroup, verifications
<1>s. ASSUME NEW u \in Users, NEW g \in Groups,
             m_user_group_set' = [m_user_group_set EXCEPT ![u] = @ \cup {g}]
      PROVE  m_user_group_set' \in [Users -> SUBSET Groups]
  BY <1>0, <1>s DEF SharedTypeOK
<1>i. ASSUME NEW g \in Groups, NEW U \in SUBSET Users
      PROVE  /\ [m_user_id_map EXCEPT ![g] = U] \in [Groups -> SUBSET Users]
             /\ [m_user_map EXCEPT ![g] = U] \in [Groups -> SUBSET Users]
  BY <1>0 DEF SharedTypeOK
<1>j. ASSUME NEW g \in Groups, NEW u \in Users
      PROVE  /\ m_user_id_map[g] \cup {u} \in SUBSET Users
             /\ m_user_id_map[g] \ {u} \in SUBSET Users
             /\ m_user_map[g] \cup {u} \in SUBSET Users
             /\ m_user_map[g] \ {u} \in SUBSET Users
  BY <1>0 DEF SharedTypeOK
<1>3. CASE ShowsOwn(s) \/ Shows(s)
  <2>1. m_user_group_set' \in [Users -> SUBSET Groups]
    BY <1>3, <1>s, <1>g, <1>u, <1>w DEF ShowsOwn, Shows
  <2>2. LocalTypeOK' /\ UNCHANGED <<registry, m_user_id_map, m_user_map, verifications>>
    BY <1>3 DEF ShowsOwn, Shows, Moves, Ends
  <2> QED BY <1>0, <2>1, <2>2 DEF SharedTypeOK, registry, verifications
<1>4. CASE Inserts(s)
  BY <1>0, <1>4, <1>g, <1>u, <1>v DEF Inserts, Moves, SharedTypeOK, registry, members
<1>5. CASE Marks(s) \/ Closes(s)
  <2>1. group[s] \in Groups /\ who[s] \in Users
    BY <1>5, <1>g DEF Marks, Closes, Applied
  <2>2. m_groupVerification_map' \in [Users -> [Groups -> {"none", "waiting", "verified"}]]
    <3>1. CASE Marks(s)
      BY <3>1, <1>v, <2>1 DEF Marks
    <3>2. CASE Closes(s)
      BY <3>2, <1>v, <2>1 DEF Closes
    <3> QED BY <1>5, <3>1, <3>2
  <2>3. LocalTypeOK' /\ UNCHANGED <<registry, members, m_user_group_verification_map>>
    BY <1>5 DEF Marks, Closes, Moves
  <2> QED BY <1>0, <2>2, <2>3 DEF SharedTypeOK, registry, members
<1>6. CASE ListsForSender(s)
  BY <1>0, <1>6, <1>g, <1>u, <1>e DEF ListsForSender, Moves, SharedTypeOK, registry, members
<1>7. CASE ListsForAdmin(s)
  BY <1>0, <1>7, <1>g, <1>u, <1>a, <1>e
     DEF ListsForAdmin, Moves, SharedTypeOK, registry, members
<1>8. CASE UnlistsForAdmin(s)
  BY <1>0, <1>8, <1>g, <1>w, <1>a, <1>e
     DEF UnlistsForAdmin, Moves, SharedTypeOK, registry, members
<1>9. CASE UnlistsForSender(s)
  BY <1>0, <1>9, <1>g, <1>w, <1>e DEF UnlistsForSender, Ends, SharedTypeOK, registry, members
<1>10. CASE Admits(s) \/ Joins(s)
  <2>1. group[s] \in Groups /\ who[s] \in Users
    BY <1>10, <1>g, <1>w DEF Admits, Joins
  <2>2. LocalTypeOK' /\ UNCHANGED <<registry, m_user_group_set, verifications>>
    BY <1>10 DEF Admits, Joins, Moves
  <2>3. m_user_id_map' \in [Groups -> SUBSET Users] /\ m_user_map' \in [Groups -> SUBSET Users]
    <3>1. CASE Admits(s)
      BY <1>0, <1>i, <1>j, <2>1, <3>1 DEF Admits, SharedTypeOK
    <3>2. CASE Joins(s)
      BY <1>0, <1>i, <1>j, <2>1, <3>2 DEF Joins, SharedTypeOK
    <3> QED BY <1>10, <3>1, <3>2
  <2> QED BY <1>0, <2>2, <2>3 DEF SharedTypeOK, registry, verifications
<1>11. CASE Removes(s)
  BY <1>0, <1>11 DEF Removes, Ends, SharedTypeOK, members, verifications
<1>12. CASE Leaves(s)
  <2>1. LocalTypeOK' /\ UNCHANGED <<registry, m_user_group_set, verifications>>
    BY <1>12 DEF Leaves, Moves, Ends
  <2>2. m_user_id_map' \in [Groups -> SUBSET Users] /\ m_user_map' \in [Groups -> SUBSET Users]
    <3>1. group[s] \in Groups
      BY <1>12, <1>g DEF Leaves
    <3>2. CASE m_user_id_map' = [m_user_id_map EXCEPT ![group[s]] = @ \ {UserOf[s]}]
               /\ UNCHANGED m_user_map
      BY <1>0, <1>i, <1>j, <1>u, <3>1, <3>2 DEF SharedTypeOK
    <3>3. CASE m_user_map' = [m_user_map EXCEPT ![group[s]] = @ \ {UserOf[s]}]
               /\ UNCHANGED m_user_id_map
      BY <1>0, <1>i, <1>j, <1>u, <3>1, <3>3 DEF SharedTypeOK
    <3> QED BY <1>12, <3>2, <3>3 DEF Leaves
  <2> QED BY <1>0, <2>1, <2>2 DEF SharedTypeOK, registry, verifications
<1> QED BY <1>1, <1>2, <1>3, <1>4, <1>5, <1>6, <1>7, <1>8, <1>9, <1>10, <1>11, <1>12
           DEF Writes

\* The commands keep naming groups that have been created.
LEMMA ControlStep ==
    ASSUME IInv, NEW s \in Sessions, Quiet(s) \/ Writes(s)
    PROVE  ControlInv'
<1> SUFFICES ASSUME NEW t \in Sessions
             PROVE  /\ pc'[t] # "idle" =>
                         group'[t] \in Groups /\ group'[t] < m_newPrivateRoomId'
                    /\ pc'[t] \in {"accept_add", "accept_join", "accept_list",
                                   "erase", "erase_admin", "erase_sender"} =>
                         who'[t] \in Users
  BY DEF ControlInv
<1>0. ControlInv
  BY DEF IInv
<1>n. m_newPrivateRoomId \in Int
  BY DEF IInv, TypeOK, FirstGroupId
<1>1. CASE Quiet(s)
  BY <1>0, <1>1 DEF Quiet, ControlInv, OthersStay, registry
<1>2. CASE CreateGroup(s)
  <2>1. /\ OthersStay(s)
        /\ pc'[s] = "create_set" /\ group'[s] = m_newPrivateRoomId
        /\ m_newPrivateRoomId \in Groups
        /\ m_newPrivateRoomId' = m_newPrivateRoomId + 1
    BY <1>2, CreateMoves
  <2>2. CASE t = s
    BY <1>n, <2>1, <2>2
  <2>3. CASE t # s
    <3>1. pc'[t] = pc[t] /\ group'[t] = group[t] /\ who'[t] = who[t]
      BY <2>1, <2>3 DEF OthersStay
    <3>2. pc[t] # "idle" => group[t] \in Int /\ group[t] < m_newPrivateRoomId
                            /\ group[t] \in Groups
      BY <1>0, GroupFacts DEF ControlInv
    <3> QED BY <1>0, <1>n, <2>1, <3>1, <3>2 DEF ControlInv
  <2> QED BY <2>2, <2>3
<1>3. CASE \/ Ends(s) /\ pc[s] # "idle" /\ m_newPrivateRoomId' = m_newPrivateRoomId
  BY <1>0, <1>3 DEF ControlInv, Ends, OthersStay
<1>4. CASE /\ \E l \in Labels :
                /\ Moves(s, l)
                /\ l \in {"accept_add", "accept_join", "accept_list",
                          "erase", "erase_admin", "erase_sender"} => who[s] \in Users
           /\ pc[s] # "idle"
           /\ m_newPrivateRoomId' = m_newPrivateRoomId
  BY <1>0, <1>4 DEF ControlInv, Moves, OthersStay
<1>5. CASE ShowsOwn(s) \/ UnlistsForSender(s) \/ Removes(s)
  BY <1>3, <1>5 DEF ShowsOwn, UnlistsForSender, Removes, registry
<1>6. CASE \/ Inserts(s) \/ ListsForSender(s) \/ ListsForAdmin(s) \/ Marks(s) \/ Closes(s)
           \/ Admits(s) \/ Joins(s) \/ Shows(s) \/ UnlistsForAdmin(s)
  <2>1. m_newPrivateRoomId' = m_newPrivateRoomId /\ pc[s] # "idle"
    BY <1>6 DEF Inserts, ListsForSender, ListsForAdmin, Marks, Closes, Admits, Joins,
                Shows, UnlistsForAdmin, registry
  <2>2. \E l \in Labels :
          /\ Moves(s, l)
          /\ l \in {"accept_add", "accept_join", "accept_list",
                    "erase", "erase_admin", "erase_sender"} => who[s] \in Users
    BY <1>0, <1>6 DEF Inserts, ListsForSender, ListsForAdmin, Marks, Closes, Admits, Joins,
                Shows, UnlistsForAdmin, Labels, ControlInv, Applied
  <2> QED BY <1>4, <2>1, <2>2
<1>7. CASE Leaves(s)
  BY <1>3, <1>4, <1>7 DEF Leaves, Labels, registry
<1> QED BY <1>1, <1>2, <1>5, <1>6, <1>7 DEF Writes

\* Only create_group hands out ids and no step brings a group back.
LEMMA RegistryWrites ==
    ASSUME NEW s \in Sessions, Quiet(s) \/ Writes(s), ~CreateGroup(s)
    PROVE  /\ UNCHANGED <<m_newPrivateRoomId, m_administrator_user_id>>
           /\ m_groupRoom_map' \subseteq m_groupRoom_map
           /\ ~Removes(s) => UNCHANGED m_groupRoom_map
BY DEF Quiet, Writes, ShowsOwn, Inserts, ListsForSender, ListsForAdmin, Marks, Admits,
       Joins, Shows, Closes, UnlistsForAdmin, UnlistsForSender, Removes, Leaves, registry

\* Every step keeps the ids below the counter.
LEMMA RegistryStep ==
    ASSUME IInv, NEW s \in Sessions, Quiet(s) \/ Writes(s)
    PROVE  RegistryInv'
<1>0. RegistryInv
  BY DEF IInv
<1>1. CASE CreateGroup(s)
  <2>1. /\ m_newPrivateRoomId \in Groups /\ m_newPrivateRoomId \in Int
        /\ m_newPrivateRoomId' = m_newPrivateRoomId + 1
    BY <1>1, CreateMoves
  <2>2. m_administrator_user_id' =
          [m_administrator_user_id EXCEPT ![m_newPrivateRoomId] = UserOf[s]]
        /\ m_groupRoom_map' = m_groupRoom_map \cup {m_newPrivateRoomId}
    BY <1>1 DEF CreateGroup
  <2>3. m_administrator_user_id \in [Groups -> Users \cup {Nobody}]
        /\ m_groupRoom_map \subseteq Groups
    BY DEF IInv, TypeOK
  <2>4. ASSUME NEW g \in Groups
        PROVE  m_administrator_user_id'[g] \in Users <=> g < m_newPrivateRoomId'
    <3>1. g \in Int
      BY GroupFacts
    <3>2. CASE g = m_newPrivateRoomId
      BY <2>1, <2>2, <2>3, <3>2, UserFacts
    <3>3. CASE g # m_newPrivateRoomId
      <4>1. m_administrator_user_id'[g] = m_administrator_user_id[g]
        BY <2>2, <2>3, <3>3
      <4> QED BY <1>0, <2>1, <3>1, <3>3, <4>1 DEF RegistryInv, getAdministrator
    <3> QED BY <3>2, <3>3
  <2>5. ASSUME NEW g \in m_groupRoom_map'
        PROVE  g < m_newPrivateRoomId'
    <3>1. g \in Int
      BY <2>1, <2>2, <2>3, GroupFacts
    <3> QED BY <1>0, <2>1, <2>2, <3>1 DEF RegistryInv
  <2> QED BY <2>4, <2>5 DEF RegistryInv, getAdministrator
<1>2. CASE ~CreateGroup(s)
  BY <1>0, <1>2, RegistryWrites DEF RegistryInv, getAdministrator
<1> QED BY <1>1, <1>2

\* Only the steps of a command on an existing application write its state.
LEMMA FreshStep ==
    ASSUME IInv, NEW s \in Sessions, Quiet(s) \/ Writes(s)
    PROVE  FreshInv'
<1>0. FreshInv
  BY DEF IInv
<1>t. m_groupVerification_map \in [Users -> [Groups -> {"none", "waiting", "verified"}]]
  BY DEF IInv, TypeOK
<1>1. CASE CreateGroup(s)
  <2>1. UNCHANGED m_groupVerification_map /\ m_newPrivateRoomId \in Int
        /\ m_newPrivateRoomId' = m_newPrivateRoomId + 1
    BY <1>1, CreateMoves DEF CreateGroup, verifications
  <2> QED BY <1>0, <2>1, GroupFacts DEF FreshInv
<1>2. ASSUME NEW u \in Users, NEW x \in {"none", "waiting", "verified"},
             group[s] \in Groups, group[s] < m_newPrivateRoomId,
             m_groupVerification_map' =
               [m_groupVerification_map EXCEPT ![u][group[s]] = x],
             UNCHANGED m_newPrivateRoomId
      PROVE  FreshInv'
  <2> SUFFICES ASSUME NEW v \in Users, NEW g \in Groups, g >= m_newPrivateRoomId
               PROVE  m_groupVerification_map'[v][g] = "none"
    BY <1>2 DEF FreshInv
  <2>1. g # group[s]
    BY <1>2, GroupFacts DEF IInv, TypeOK, FirstGroupId
  <2>2. m_groupVerification_map'[v][g] = m_groupVerification_map[v][g]
    BY <1>2, <1>t, <2>1
  <2> QED BY <1>0, <2>2 DEF FreshInv
<1>g. pc[s] # "idle" => group[s] \in Groups /\ group[s] < m_newPrivateRoomId
  BY DEF IInv, ControlInv
<1>3. CASE Inserts(s)
  BY <1>2, <1>3, <1>g, UserFacts DEF Inserts, registry
<1>4. CASE Marks(s)
  BY <1>2, <1>4, <1>g DEF Marks, Applied, registry
<1>5. CASE Closes(s)
  BY <1>2, <1>5, <1>g DEF Closes, Applied, registry
<1>6. CASE UNCHANGED <<m_groupVerification_map, m_newPrivateRoomId>>
  BY <1>0, <1>6 DEF FreshInv
<1>7. CASE Quiet(s) \/ (Writes(s) /\ ~(CreateGroup(s) \/ Inserts(s) \/ Marks(s) \/ Closes(s)))
  BY <1>6, <1>7 DEF Quiet, Writes, ShowsOwn, ListsForSender, ListsForAdmin, Admits,
       Joins, Shows, UnlistsForAdmin, UnlistsForSender, Removes, Leaves, registry,
       verifications
<1> QED BY <1>1, <1>3, <1>4, <1>5, <1>7

\* Leaving a group and removing it take nobody's witness away; the steps that
\* let a user in leave one behind until the group is in the user's list.
LEMMA MembersStep ==
    ASSUME IInv, NEW s \in Sessions, Quiet(s) \/ Writes(s)
    PROVE  MembersSeeGroup'
<1> DEFINE Covered(g, u) ==
             \/ g \in m_user_group_set[u]
             \/ Accepting(g, u, {"accept_join", "accept_list"})
             \/ \E t \in Sessions : /\ UserOf[t] = u
                                    /\ group[t] = g /\ pc[t] = "create_set"
<1> SUFFICES ASSUME NEW g \in Groups, NEW u \in m_user_id_map'[g] \cup m_user_map'[g]
             PROVE  Covered(g, u)'
  BY DEF MembersSeeGroup
<1>0. u \in m_user_id_map[g] \cup m_user_map[g] => Covered(g, u)
  BY DEF IInv, MembersSeeGroup
<1>t. /\ m_user_id_map \in [Groups -> SUBSET Users]
      /\ m_user_map \in [Groups -> SUBSET Users]
      /\ m_user_group_set \in [Users -> SUBSET Groups]
  BY DEF IInv, TypeOK
<1>u. u \in Users
  BY TypeStep DEF TypeOK
<1>g. pc[s] # "idle" => group[s] \in Groups
  BY DEF IInv, ControlInv
<1>w. pc[s] \in {"accept_add", "accept_join", "accept_list"} => who[s] \in Users
  BY DEF IInv, ControlInv
\* A witness other than s stays one.
<1>1. ASSUME OthersStay(s), m_user_group_set[u] \subseteq m_user_group_set'[u],
             u \in m_user_id_map[g] \cup m_user_map[g],
             pc[s] \in {"accept_join", "accept_list", "create_set"} => Covered(g, u)'
      PROVE  Covered(g, u)'
  BY <1>0, <1>1 DEF OthersStay, Accepting
<1>2. CASE Quiet(s)
  BY <1>1, <1>2 DEF Quiet, members
<1>3. CASE CreateGroup(s)
  <2>1. /\ OthersStay(s) /\ pc'[s] = "create_set" /\ group'[s] = m_newPrivateRoomId
        /\ m_newPrivateRoomId \in Groups
    BY <1>3, CreateMoves
  <2>2. CASE g = m_newPrivateRoomId
    <3>1. u = UserOf[s]
      BY <1>3, <1>t, <2>1, <2>2 DEF CreateGroup
    <3> QED BY <2>1, <2>2, <3>1
  <2>3. CASE g # m_newPrivateRoomId
    <3>1. u \in m_user_id_map[g] \cup m_user_map[g]
      BY <1>3, <1>t, <2>1, <2>3 DEF CreateGroup
    <3>2. UNCHANGED m_user_group_set /\ pc[s] = "idle"
      BY <1>3 DEF CreateGroup
    <3> QED BY <1>1, <2>1, <3>1, <3>2
  <2> QED BY <2>2, <2>3
<1>4. CASE ShowsOwn(s)
  <2>1. /\ OthersStay(s) /\ UNCHANGED <<m_user_id_map, m_user_map>>
        /\ pc[s] = "create_set" /\ group[s] \in Groups /\ UserOf[s] \in Users
        /\ m_user_group_set' = [m_user_group_set EXCEPT ![UserOf[s]] = @ \cup {group[s]}]
    BY <1>4, <1>g, UserFacts DEF ShowsOwn, Ends
  <2>2. m_user_group_set[u] \subseteq m_user_group_set'[u]
    BY <1>t, <1>u, <2>1
  <2>3. group[s] \in m_user_group_set'[UserOf[s]]
    BY <1>t, <2>1
  <2> QED BY <1>0, <2>1, <2>2, <2>3 DEF OthersStay, Accepting
<1>5. CASE Shows(s)
  <2>1. /\ OthersStay(s) /\ UNCHANGED <<m_user_id_map, m_user_map>>
        /\ pc[s] = "accept_list" /\ group[s] \in Groups /\ who[s] \in Users
        /\ m_user_group_set' = [m_user_group_set EXCEPT ![who[s]] = @ \cup {group[s]}]
    BY <1>5, <1>g, <1>w DEF Shows, Moves
  <2>2. m_user_group_set[u] \subseteq m_user_group_set'[u]
    BY <1>t, <1>u, <2>1
  <2>3. group[s] \in m_user_group_set'[who[s]]
    BY <1>t, <2>1
  <2> QED BY <1>0, <2>1, <2>2, <2>3 DEF OthersStay, Accepting
<1>6. CASE Admits(s) \/ Joins(s)
  <2>1. /\ OthersStay(s) /\ UNCHANGED m_user_group_set
        /\ pc[s] \in {"accept_add", "accept_join"}
        /\ pc'[s] \in {"accept_join", "accept_list"}
        /\ group'[s] = group[s] /\ who'[s] = who[s]
    BY <1>6 DEF Admits, Joins, Moves
  <2>2. u \in m_user_id_map[g] \cup m_user_map[g] \/ (g = group[s] /\ u = who[s])
    <3>1. CASE Admits(s)
      BY <1>t, <3>1 DEF Admits
    <3>2. CASE Joins(s)
      BY <1>t, <3>2 DEF Joins
    <3> QED BY <1>6, <3>1, <3>2
  <2>3. CASE g = group[s] /\ u = who[s]
    BY <2>1, <2>3 DEF Accepting
  <2>4. CASE ~(g = group[s] /\ u = who[s])
    BY <1>0, <2>1, <2>2, <2>4 DEF OthersStay, Accepting
  <2> QED BY <2>3, <2>4
<1>7. CASE Leaves(s)
  <2>1. /\ OthersStay(s) /\ UNCHANGED m_user_group_set
        /\ pc[s] \in {"leave_erase", "leave_room"}
    BY <1>7 DEF Leaves, Moves, Ends
  <2>2. u \in m_user_id_map[g] \cup m_user_map[g]
    BY <1>t, <1>7 DEF Leaves
  <2> QED BY <1>1, <2>1, <2>2
<1>8. CASE /\ OthersStay(s) /\ UNCHANGED members
           /\ pc[s] \notin {"accept_join", "accept_list", "create_set"}
  BY <1>1, <1>8 DEF members
<1>9. CASE Inserts(s) \/ ListsForSender(s) \/ ListsForAdmin(s) \/ Marks(s) \/ Closes(s)
           \/ UnlistsForAdmin(s) \/ UnlistsForSender(s) \/ Removes(s)
  BY <1>8, <1>9 DEF Inserts, ListsForSender, ListsForAdmin, Marks, Closes,
       UnlistsForAdmin, UnlistsForSender, Removes, Moves, Ends
<1> QED BY <1>2, <1>3, <1>4, <1>5, <1>6, <1>7, <1>9 DEF Writes

\* A set flag keeps its command until the application or the group is gone.
LEMMA VerifiedStep ==
    ASSUME IInv, NEW s \in Sessions, Quiet(s) \/ Writes(s)
    PROVE  VerifiedIsBeingAccepted'
<1> DEFINE labels == {"accept_add", "accept_join", "accept_list", "erase"}
<1> SUFFICES ASSUME NEW u \in Users, NEW g \in m_groupRoom_map',
                    m_groupVerification_map'[u][g] = "verified"
             PROVE  Accepting(g, u, labels)'
  BY DEF VerifiedIsBeingAccepted
<1>0. g \in m_groupRoom_map /\ m_groupVerification_map[u][g] = "verified"
        => Accepting(g, u, labels)
  BY DEF IInv, VerifiedIsBeingAccepted
<1>t. m_groupVerification_map \in [Users -> [Groups -> {"none", "waiting", "verified"}]]
  BY DEF IInv, TypeOK
<1>g. g \in Groups
  BY TypeStep DEF TypeOK
<1>h. pc[s] # "idle" => group[s] \in Groups
  BY DEF IInv, ControlInv
\* A witness other than s stays one, and so does s while it is on its way.
<1>1. ASSUME OthersStay(s), g \in m_groupRoom_map, m_groupVerification_map[u][g] = "verified",
             pc[s] \in labels /\ group[s] = g /\ who[s] = u =>
                 pc'[s] \in labels /\ group'[s] = g /\ who'[s] = u
      PROVE  Accepting(g, u, labels)'
  BY <1>0, <1>1 DEF OthersStay, Accepting
<1>2. CASE Quiet(s)
  <2>1. g \in m_groupRoom_map /\ m_groupVerification_map[u][g] = "verified" /\ OthersStay(s)
    BY <1>2 DEF Quiet, registry, verifications
  <2>2. ~(pc[s] \in labels /\ group[s] = g /\ who[s] = u)
    BY <1>2, <2>1 DEF Quiet, Applied, hasGroupRoom, hasGroupRoomVerification
  <2> QED BY <1>1, <2>1, <2>2
<1>3. CASE CreateGroup(s)
  <2>1. /\ OthersStay(s) /\ pc[s] = "idle" /\ UNCHANGED m_groupVerification_map
        /\ m_newPrivateRoomId \in Groups /\ m_newPrivateRoomId \in Int
        /\ m_groupRoom_map' = m_groupRoom_map \cup {m_newPrivateRoomId}
    BY <1>3, CreateMoves DEF CreateGroup, verifications
  <2>2. m_groupVerification_map[u][m_newPrivateRoomId] = "none"
    BY <2>1 DEF IInv, FreshInv
  <2> QED BY <1>1, <2>1, <2>2
<1>4. CASE Inserts(s)
  <2>1. m_groupVerification_map[u][g] = "verified"
    BY <1>4, <1>t, <1>g, <1>h, UserFacts DEF Inserts
  <2> QED BY <1>1, <1>4, <2>1 DEF Inserts, Moves, registry
<1>5. CASE Marks(s)
  <2>1. CASE group[s] = g /\ who[s] = u
    BY <1>5, <2>1 DEF Marks, Moves, Accepting
  <2>2. CASE ~(group[s] = g /\ who[s] = u)
    <3>1. m_groupVerification_map[u][g] = "verified"
      BY <1>5, <1>t, <1>g, <1>h, <2>2 DEF Marks, Applied
    <3> QED BY <1>1, <1>5, <3>1, <2>2 DEF Marks, Moves, registry
  <2> QED BY <2>1, <2>2
<1>6. CASE Closes(s)
  <2>1. ~(group[s] = g /\ who[s] = u)
    BY <1>6, <1>t, <1>g, <1>h DEF Closes, Applied
  <2>2. m_groupVerification_map[u][g] = "verified"
    BY <1>6, <1>t, <1>g, <1>h, <2>1 DEF Closes, Applied
  <2> QED BY <1>1, <1>6, <2>1, <2>2 DEF Closes, Moves, registry
<1>7. CASE Admits(s) \/ Joins(s) \/ Shows(s)
  BY <1>1, <1>7 DEF Admits, Joins, Shows, Moves, registry, verifications
<1>8. CASE ShowsOwn(s) \/ ListsForSender(s) \/ ListsForAdmin(s) \/ UnlistsForAdmin(s)
           \/ UnlistsForSender(s) \/ Removes(s) \/ Leaves(s)
  <2>1. OthersStay(s) /\ pc[s] \notin labels /\ UNCHANGED m_groupVerification_map
    BY <1>8 DEF ShowsOwn, ListsForSender, ListsForAdmin, UnlistsForAdmin, UnlistsForSender,
                Removes, Leaves, Moves, Ends, verifications
  <2>2. m_groupRoom_map' \subseteq m_groupRoom_map
    BY <1>8 DEF ShowsOwn, ListsForSender, ListsForAdmin, UnlistsForAdmin, UnlistsForSender,
                Removes, Leaves, registry
  <2> QED BY <1>1, <2>1, <2>2
<1> QED BY <1>2, <1>3, <1>4, <1>5, <1>6, <1>7, <1>8 DEF Writes

-----------------------------------------------------------------------------
(* Counting the entries of the lists.                                      *)

\* Two sets of sessions that differ in at most one.
LEMMA CountMove ==
    ASSUME NEW s \in Sessions, NEW A \in SUBSET Sessions, NEW B \in SUBSET Sessions,
           A \ {s} = B \ {s}
    PROVE  /\ Cardinality(A) \in Nat /\ Cardinality(B) \in Nat
           /\ (s \in A <=> s \in B) => Cardinality(B) = Cardinality(A)
           /\ s \in A /\ s \notin B => Cardinality(B) = Cardinality(A) - 1
           /\ s \notin A /\ s \in B => Cardinality(B) = Cardinality(A) + 1
<1>1. IsFiniteSet(A) /\ IsFiniteSet(B)
  BY SessionsAssumption, FS_Subset
<1>2. Cardinality(A) \in Nat /\ Cardinality(B) \in Nat
  BY <1>1, FS_CardinalityType
<1>3. ASSUME s \in A <=> s \in B PROVE Cardinality(B) = Cardinality(A)
  <2>1. A = B
    BY <1>3
  <2> QED BY <2>1
<1>4. ASSUME s \in A, s \notin B PROVE Cardinality(B) = Cardinality(A) - 1
  <2>1. B = A \ {s}
    BY <1>4
  <2> QED BY <1>1, <1>4, <2>1, FS_RemoveElement
<1>5. ASSUME s \notin A, s \in B PROVE Cardinality(B) = Cardinality(A) + 1
  <2>1. A = B \ {s}
    BY <1>5
  <2>2. Cardinality(A) = Cardinality(B) - 1
    BY <1>1, <1>5, <2>1, FS_RemoveElement
  <2> QED BY <1>2, <2>2
<1> QED BY <1>2, <1>3, <1>4, <1>5

\* Whether s itself counts.
EraseAt(s, l, g, u) == IF pc[s] = l /\ group[s] = g /\ who[s] = u THEN 1 ELSE 0
ApplyAt(s, l, g, u) == IF pc[s] = l /\ group[s] = g /\ UserOf[s] = u THEN 1 ELSE 0

\* A step of s moves the counts only as s itself starts or ceases to count.
LEMMA ErasingMoves ==
    ASSUME NEW s \in Sessions, OthersStay(s), NEW l, NEW g, NEW u
    PROVE  /\ Cardinality(Erasing(l, g, u)) \in Nat
           /\ Cardinality(Erasing(l, g, u))' =
                Cardinality(Erasing(l, g, u)) - EraseAt(s, l, g, u) + EraseAt(s, l, g, u)'
<1>1. /\ Erasing(l, g, u) \in SUBSET Sessions /\ Erasing(l, g, u)' \in SUBSET Sessions
      /\ Erasing(l, g, u) \ {s} = Erasing(l, g, u)' \ {s}
  BY DEF Erasing, OthersStay
<1>2. /\ s \in Erasing(l, g, u) <=> pc[s] = l /\ group[s] = g /\ who[s] = u
      /\ s \in Erasing(l, g, u)' <=> pc'[s] = l /\ group'[s] = g /\ who'[s] = u
  BY DEF Erasing
<1> DEFINE A == Erasing(l, g, u)
           B == Erasing(l, g, u)'
<1>3. /\ Cardinality(A) \in Nat /\ Cardinality(B) \in Nat
      /\ (s \in A <=> s \in B) => Cardinality(B) = Cardinality(A)
      /\ s \in A /\ s \notin B => Cardinality(B) = Cardinality(A) - 1
      /\ s \notin A /\ s \in B => Cardinality(B) = Cardinality(A) + 1
  <2> HIDE DEF A, B
  <2> QED BY <1>1, CountMove DEF A, B
<1> QED BY <1>2, <1>3 DEF EraseAt

\* The same for the add_group commands.
LEMMA ApplyingMoves ==
    ASSUME NEW s \in Sessions, OthersStay(s), NEW l, NEW g, NEW u
    PROVE  /\ Cardinality(Applying(l, g, u)) \in Nat
           /\ Cardinality(Applying(l, g, u))' =
                Cardinality(Applying(l, g, u)) - ApplyAt(s, l, g, u) + ApplyAt(s, l, g, u)'
<1>1. /\ Applying(l, g, u) \in SUBSET Sessions /\ Applying(l, g, u)' \in SUBSET Sessions
      /\ Applying(l, g, u) \ {s} = Applying(l, g, u)' \ {s}
  BY DEF Applying, OthersStay
<1>2. /\ s \in Applying(l, g, u) <=> pc[s] = l /\ group[s] = g /\ UserOf[s] = u
      /\ s \in Applying(l, g, u)' <=> pc'[s] = l /\ group'[s] = g /\ UserOf[s] = u
  BY DEF Applying
<1> DEFINE A == Applying(l, g, u)
           B == Applying(l, g, u)'
<1>3. /\ Cardinality(A) \in Nat /\ Cardinality(B) \in Nat
      /\ (s \in A <=> s \in B) => Cardinality(B) = Cardinality(A)
      /\ s \in A /\ s \notin B => Cardinality(B) = Cardinality(A) - 1
      /\ s \notin A /\ s \in B => Cardinality(B) = Cardinality(A) + 1
  <2> HIDE DEF A, B
  <2> QED BY <1>1, CountMove DEF A, B
<1> QED BY <1>2, <1>3 DEF ApplyAt

\* What the lists owe moves with the application and with the label of s.
LEMMA OwedMoves ==
    ASSUME NEW s \in Sessions, OthersStay(s), NEW g, NEW u
    PROVE  /\ SenderOwed(g, u) \in Int /\ AdminOwed(g, u) \in Int
           /\ SenderOwed(g, u)' = SenderOwed(g, u) + Open(g, u)' - Open(g, u)
                + EraseAt(s, "erase_admin", g, u)' - EraseAt(s, "erase_admin", g, u)
                + EraseAt(s, "erase_sender", g, u)' - EraseAt(s, "erase_sender", g, u)
                - ApplyAt(s, "apply_sender", g, u)' + ApplyAt(s, "apply_sender", g, u)
           /\ AdminOwed(g, u)' = AdminOwed(g, u) + Open(g, u)' - Open(g, u)
                + EraseAt(s, "erase_admin", g, u)' - EraseAt(s, "erase_admin", g, u)
                - ApplyAt(s, "apply_sender", g, u)' + ApplyAt(s, "apply_sender", g, u)
                - ApplyAt(s, "apply_admin", g, u)' + ApplyAt(s, "apply_admin", g, u)
<1> DEFINE ea == Cardinality(Erasing("erase_admin", g, u))
           es == Cardinality(Erasing("erase_sender", g, u))
           ps == Cardinality(Applying("apply_sender", g, u))
           pa == Cardinality(Applying("apply_admin", g, u))
           x == EraseAt(s, "erase_admin", g, u)
           y == EraseAt(s, "erase_sender", g, u)
           z == ApplyAt(s, "apply_sender", g, u)
           w == ApplyAt(s, "apply_admin", g, u)
           o == Open(g, u)
<1>1. ea \in Int /\ ea' = ea - x + x'
  BY ErasingMoves
<1>2. es \in Int /\ es' = es - y + y'
  BY ErasingMoves
<1>3. ps \in Int /\ ps' = ps - z + z'
  BY ApplyingMoves
<1>4. pa \in Int /\ pa' = pa - w + w'
  BY ApplyingMoves
<1>5. /\ x \in Int /\ x' \in Int /\ y \in Int /\ y' \in Int
      /\ z \in Int /\ z' \in Int /\ w \in Int /\ w' \in Int /\ o \in Int /\ o' \in Int
  BY DEF EraseAt, ApplyAt, Open
<1>6. /\ SenderOwed(g, u) = o + ea + es - ps
      /\ SenderOwed(g, u)' = o' + ea' + es' - ps'
      /\ AdminOwed(g, u) = o + ea - ps - pa
      /\ AdminOwed(g, u)' = o' + ea' - ps' - pa'
  BY DEF SenderOwed, AdminOwed
<1> HIDE DEF ea, es, ps, pa, x, y, z, w, o
<1>7. o + ea + es - ps \in Int /\ o + ea - ps - pa \in Int
  BY <1>1, <1>2, <1>3, <1>4, <1>5
<1>8. o' + (ea - x + x') + (es - y + y') - (ps - z + z') =
        (o + ea + es - ps) + o' - o + x' - x + y' - y - z' + z
  BY <1>1, <1>2, <1>3, <1>5
<1>9. o' + (ea - x + x') - (ps - z + z') - (pa - w + w') =
        (o + ea - ps - pa) + o' - o + x' - x - z' + z - w' + w
  BY <1>1, <1>3, <1>4, <1>5
<1>10. SenderOwed(g, u) \in Int /\ AdminOwed(g, u) \in Int
  BY <1>6, <1>7, Zenon
<1>11. SenderOwed(g, u)' = SenderOwed(g, u) + o' - o + x' - x + y' - y - z' + z
  BY <1>1, <1>2, <1>3, <1>6, <1>8, Zenon
<1>12. AdminOwed(g, u)' = AdminOwed(g, u) + o' - o + x' - x - z' + z - w' + w
  BY <1>1, <1>3, <1>4, <1>6, <1>9, Zenon
<1> QED BY <1>10, <1>11, <1>12, Zenon DEF x, y, z, w, o

\* What is owed may grow by what is added to the lists, and must shrink by what
\* is taken from them.
LEMMA ListedMoves ==
    ASSUME NEW g, NEW u, Listed(g, u), NEW ds \in Int, NEW da \in Int,
           SenderOwed(g, u) \in Int, AdminOwed(g, u) \in Int,
           SenderOwed(g, u)' \in Int, AdminOwed(g, u)' \in Int,
           SenderOwed(g, u)' <= SenderOwed(g, u) + ds,
           AdminOwed(g, u)' <= AdminOwed(g, u) + da,
           getAdministrator(g)' = getAdministrator(g),
           Entries(u, g, u) \in Int, Entries(u, g, u)' \in Int,
           Entries(getAdministrator(g), g, u) \in Int,
           Entries(getAdministrator(g), g, u)' \in Int,
           getAdministrator(g) = u => Entries(u, g, u)' >= Entries(u, g, u) + ds + da,
           getAdministrator(g) # u =>
               /\ Entries(u, g, u)' >= Entries(u, g, u) + ds
               /\ Entries(getAdministrator(g), g, u)' >=
                    Entries(getAdministrator(g), g, u) + da
    PROVE  Listed(g, u)'
BY DEF Listed

\* The two together: the balance of one application over one step of s.
LEMMA ListedStep ==
    ASSUME IInv, TypeOK', NEW s \in Sessions, OthersStay(s),
           NEW u \in Users, NEW g \in m_groupRoom_map,
           UNCHANGED m_administrator_user_id,
           NEW ds \in Int, NEW da \in Int,
           Open(g, u)' - Open(g, u)
             + EraseAt(s, "erase_admin", g, u)' - EraseAt(s, "erase_admin", g, u)
             + EraseAt(s, "erase_sender", g, u)' - EraseAt(s, "erase_sender", g, u)
             - ApplyAt(s, "apply_sender", g, u)' + ApplyAt(s, "apply_sender", g, u) <= ds,
           Open(g, u)' - Open(g, u)
             + EraseAt(s, "erase_admin", g, u)' - EraseAt(s, "erase_admin", g, u)
             - ApplyAt(s, "apply_sender", g, u)' + ApplyAt(s, "apply_sender", g, u)
             - ApplyAt(s, "apply_admin", g, u)' + ApplyAt(s, "apply_admin", g, u) <= da,
           getAdministrator(g) = u => Entries(u, g, u)' >= Entries(u, g, u) + ds + da,
           getAdministrator(g) # u =>
               /\ Entries(u, g, u)' >= Entries(u, g, u) + ds
               /\ Entries(getAdministrator(g), g, u)' >=
                    Entries(getAdministrator(g), g, u) + da
    PROVE  Listed(g, u)'
<1>1. Listed(g, u)
  BY DEF IInv, ListInv
<1>2. getAdministrator(g)' = getAdministrator(g) /\ getAdministrator(g) \in Users
      /\ g \in Groups
  BY AdministratorType DEF getAdministrator
<1>3. /\ Entries(u, g, u) \in Int /\ Entries(u, g, u)' \in Int
      /\ Entries(getAdministrator(g), g, u) \in Int
      /\ Entries(getAdministrator(g), g, u)' \in Int
  BY <1>2 DEF IInv, TypeOK, Entries
<1> DEFINE x == EraseAt(s, "erase_admin", g, u)
           y == EraseAt(s, "erase_sender", g, u)
           z == ApplyAt(s, "apply_sender", g, u)
           w == ApplyAt(s, "apply_admin", g, u)
           o == Open(g, u)
<1>4. /\ SenderOwed(g, u) \in Int /\ AdminOwed(g, u) \in Int
      /\ SenderOwed(g, u)' = SenderOwed(g, u) + o' - o + x' - x + y' - y - z' + z
      /\ AdminOwed(g, u)' = AdminOwed(g, u) + o' - o + x' - x - z' + z - w' + w
  BY OwedMoves
<1>5. /\ x \in Int /\ x' \in Int /\ y \in Int /\ y' \in Int
      /\ z \in Int /\ z' \in Int /\ w \in Int /\ w' \in Int /\ o \in Int /\ o' \in Int
  BY DEF EraseAt, ApplyAt, Open
<1>6. /\ o' - o + x' - x + y' - y - z' + z <= ds
      /\ o' - o + x' - x - z' + z - w' + w <= da
  OBVIOUS
<1> HIDE DEF x, y, z, w, o
<1>7. SenderOwed(g, u)' \in Int
  BY <1>4, <1>5
<1>8. SenderOwed(g, u)' <= SenderOwed(g, u) + ds
  <2> DEFINE d == o' - o + x' - x + y' - y - z' + z
  <2>1. d \in Int
    BY <1>5
  <2>2. d <= ds
    BY <1>6, Zenon
  <2>3. SenderOwed(g, u)' = SenderOwed(g, u) + d
    BY <1>4, <1>5
  <2> HIDE DEF d
  <2> QED BY <1>4, <2>1, <2>2, <2>3
<1>9. AdminOwed(g, u)' \in Int
  BY <1>4, <1>5
<1>10. AdminOwed(g, u)' <= AdminOwed(g, u) + da
  <2> DEFINE d == o' - o + x' - x - z' + z - w' + w
  <2>1. d \in Int
    BY <1>5
  <2>2. d <= da
    BY <1>6, Zenon
  <2>3. AdminOwed(g, u)' = AdminOwed(g, u) + d
    BY <1>4, <1>5
  <2> HIDE DEF d
  <2> QED BY <1>4, <2>1, <2>2, <2>3
<1> QED BY <1>1, <1>2, <1>3, <1>4, <1>7, <1>8, <1>9, <1>10, ListedMoves

\* What one write to the lists does to the entries that are counted.
LEMMA EntryWrites ==
    ASSUME IInv, NEW a \in Users, NEW b \in Groups, NEW c \in Users
    PROVE  /\ addGroupVerification(a, b, c) =>
                \A o \in Users, g \in Groups, u \in Users :
                   Entries(o, g, u)' =
                     IF o = a /\ g = b /\ u = c THEN Entries(o, g, u) + 1
                                                ELSE Entries(o, g, u)
           /\ removeGroupVerification(a, b, c) =>
                \A o \in Users, g \in Groups, u \in Users :
                   /\ o = a /\ g = b /\ u = c => Entries(o, g, u)' >= Entries(o, g, u) - 1
                   /\ ~(o = a /\ g = b /\ u = c) => Entries(o, g, u)' = Entries(o, g, u)
<1> DEFINE n == m_user_group_verification_map[a][b][c]
           x == IF n = 0 THEN 0 ELSE n - 1
<1>1. m_user_group_verification_map \in [Users -> [Groups -> [Users -> Nat]]]
  BY DEF IInv, TypeOK
<1>2. n \in Nat
  BY <1>1
<1>3. x \in Nat /\ n + 1 \in Nat /\ x >= n - 1
  <2> HIDE DEF n
  <2> QED BY <1>2
<1>4. ASSUME NEW y \in Nat,
             m_user_group_verification_map' =
                [m_user_group_verification_map EXCEPT ![a][b][c] = y],
             NEW o \in Users, NEW g \in Groups, NEW u \in Users
      PROVE  Entries(o, g, u)' =
                IF o = a /\ g = b /\ u = c THEN y ELSE Entries(o, g, u)
  BY <1>1, <1>4 DEF Entries
<1>5. ASSUME addGroupVerification(a, b, c),
             NEW o \in Users, NEW g \in Groups, NEW u \in Users
      PROVE  Entries(o, g, u)' =
               IF o = a /\ g = b /\ u = c THEN Entries(o, g, u) + 1 ELSE Entries(o, g, u)
  <2>1. m_user_group_verification_map' =
          [m_user_group_verification_map EXCEPT ![a][b][c] = n + 1]
    BY <1>5 DEF addGroupVerification
  <2>2. Entries(o, g, u)' = IF o = a /\ g = b /\ u = c THEN n + 1 ELSE Entries(o, g, u)
    <3> HIDE DEF n
    <3> QED BY <1>3, <1>4, <2>1
  <2> QED BY <2>2 DEF Entries
<1>6. ASSUME removeGroupVerification(a, b, c),
             NEW o \in Users, NEW g \in Groups, NEW u \in Users
      PROVE  /\ o = a /\ g = b /\ u = c => Entries(o, g, u)' >= Entries(o, g, u) - 1
             /\ ~(o = a /\ g = b /\ u = c) => Entries(o, g, u)' = Entries(o, g, u)
  <2>1. m_user_group_verification_map' =
          [m_user_group_verification_map EXCEPT ![a][b][c] = x]
    BY <1>6 DEF removeGroupVerification
  <2>2. Entries(o, g, u)' = IF o = a /\ g = b /\ u = c THEN x ELSE Entries(o, g, u)
    <3> HIDE DEF x
    <3> QED BY <1>3, <1>4, <2>1
  <2>3. o = a /\ g = b /\ u = c => Entries(o, g, u) = n
    BY DEF Entries
  <2> HIDE DEF x, n
  <2> QED BY <1>3, <2>2, <2>3
<1> QED BY <1>5, <1>6

\* An application whose lists and state are left alone stays balanced when s
\* moves between labels that do not count.
LEMMA ListedSame ==
    ASSUME IInv, TypeOK', NEW s \in Sessions, OthersStay(s),
           NEW u \in Users, NEW g \in m_groupRoom_map,
           UNCHANGED m_administrator_user_id,
           Entries(u, g, u)' = Entries(u, g, u),
           Entries(getAdministrator(g), g, u)' = Entries(getAdministrator(g), g, u),
           Open(g, u)' = Open(g, u),
           ApplyAt(s, "apply_sender", g, u) = 0, ApplyAt(s, "apply_admin", g, u) = 0,
           EraseAt(s, "erase_admin", g, u)' = 0, EraseAt(s, "erase_sender", g, u)' = 0
    PROVE  Listed(g, u)'
<1>1. /\ Open(g, u) \in Int
      /\ EraseAt(s, "erase_admin", g, u) \in 0 .. 1
      /\ EraseAt(s, "erase_sender", g, u) \in 0 .. 1
      /\ ApplyAt(s, "apply_sender", g, u)' \in 0 .. 1
      /\ ApplyAt(s, "apply_admin", g, u)' \in 0 .. 1
  BY DEF Open, EraseAt, ApplyAt
<1>2. Entries(u, g, u) \in Int /\ Entries(getAdministrator(g), g, u) \in Int
  BY AdministratorType DEF IInv, TypeOK, Entries
<1> DEFINE x == EraseAt(s, "erase_admin", g, u)
           y == EraseAt(s, "erase_sender", g, u)
           z == ApplyAt(s, "apply_sender", g, u)
           w == ApplyAt(s, "apply_admin", g, u)
           o == Open(g, u)
<1>3. o' - o + x' - x + y' - y - z' + z <= 0
  <2> HIDE DEF x, y, z, w, o
  <2> QED BY <1>1 DEF x, y, z, w, o
<1>4. o' - o + x' - x - z' + z - w' + w <= 0
  <2> HIDE DEF x, y, z, w, o
  <2> QED BY <1>1 DEF x, y, z, w, o
<1>5. /\ Entries(u, g, u)' >= Entries(u, g, u) + 0
      /\ Entries(u, g, u)' >= Entries(u, g, u) + 0 + 0
      /\ Entries(getAdministrator(g), g, u)' >= Entries(getAdministrator(g), g, u) + 0
  BY <1>2
<1> QED BY <1>3, <1>4, <1>5, ListedStep

\* Every step keeps the lists balanced.
LEMMA ListStep ==
    ASSUME IInv, NEW s \in Sessions, Quiet(s) \/ Writes(s)
    PROVE  ListInv'
<1>t. TypeOK'
  BY TypeStep
<1> SUFFICES ASSUME NEW u \in Users, NEW g \in m_groupRoom_map' PROVE Listed(g, u)'
  BY DEF ListInv
<1>v. m_groupVerification_map \in [Users -> [Groups -> {"none", "waiting", "verified"}]]
  BY DEF IInv, TypeOK
<1>g. g \in Groups
  BY <1>t DEF TypeOK
<1>h. pc[s] # "idle" => group[s] \in Groups
  BY DEF IInv, ControlInv
<1>w. pc[s] \in {"erase", "erase_admin", "erase_sender"} => who[s] \in Users
  BY DEF IInv, ControlInv
<1>u. UserOf[s] \in Users
  BY UserFacts
<1>o. Open(g, u) \in Int
  BY DEF Open
<1>e. \A a \in Users : Entries(a, g, u) \in Int /\ Entries(a, g, u)' \in Int
  BY <1>t, <1>g DEF IInv, TypeOK, Entries
<1>1. CASE CreateGroup(s)
  <2>1. /\ OthersStay(s) /\ pc[s] = "idle" /\ pc'[s] = "create_set"
        /\ UNCHANGED <<m_groupVerification_map, m_user_group_verification_map>>
        /\ m_newPrivateRoomId \in Groups /\ m_newPrivateRoomId \in Int
        /\ m_groupRoom_map' = m_groupRoom_map \cup {m_newPrivateRoomId}
        /\ m_administrator_user_id' =
             [m_administrator_user_id EXCEPT ![m_newPrivateRoomId] = UserOf[s]]
    BY <1>1, CreateMoves DEF CreateGroup, verifications
  <2>2. CASE g = m_newPrivateRoomId
    <3>1. Open(g, u)' = 0
      BY <2>1, <2>2 DEF IInv, FreshInv, Open, hasGroupRoomVerification
    <3>2. ASSUME NEW l \in {"erase_admin", "erase_sender", "apply_sender", "apply_admin"}
          PROVE  Erasing(l, g, u)' = {} /\ Applying(l, g, u)' = {}
      <4>1. \A t \in Sessions : pc[t] # "idle" => group[t] # g
        BY <2>1, <2>2, GroupFacts DEF IInv, ControlInv
      <4> QED BY <2>1, <4>1 DEF Erasing, Applying, OthersStay
    <3>3. Cardinality({}) = 0
      BY FS_EmptySet
    <3>4. SenderOwed(g, u)' = 0 /\ AdminOwed(g, u)' = 0
      BY <3>1, <3>2, <3>3 DEF SenderOwed, AdminOwed
    <3>5. getAdministrator(g)' \in Users
      BY <1>u, <2>1, <2>2 DEF getAdministrator, IInv, TypeOK
    <3>6. Entries(u, g, u)' >= 0 /\ Entries(getAdministrator(g), g, u)' >= 0
      BY <1>t, <1>g, <3>5 DEF TypeOK, Entries
    <3> QED BY <3>4, <3>6 DEF Listed
  <2>3. CASE g # m_newPrivateRoomId
    <3>1. g \in m_groupRoom_map /\ getAdministrator(g)' = getAdministrator(g)
          /\ getAdministrator(g) \in Users
      BY <2>1, <2>3, <1>g, AdministratorType DEF getAdministrator, IInv, TypeOK
    <3>2. Open(g, u)' = Open(g, u)
      BY <2>1 DEF Open, hasGroupRoomVerification
    <3>3. \A l \in {"erase_admin", "erase_sender", "apply_sender", "apply_admin"} :
            Erasing(l, g, u)' = Erasing(l, g, u) /\ Applying(l, g, u)' = Applying(l, g, u)
      BY <2>1 DEF Erasing, Applying, OthersStay
    <3>4. SenderOwed(g, u)' = SenderOwed(g, u) /\ AdminOwed(g, u)' = AdminOwed(g, u)
      BY <3>2, <3>3, Zenon DEF SenderOwed, AdminOwed
    <3>5. \A a : Entries(a, g, u)' = Entries(a, g, u)
      BY <2>1 DEF Entries
    <3>6. Listed(g, u)
      BY <3>1 DEF IInv, ListInv
    <3> QED BY <3>1, <3>4, <3>5, <3>6 DEF Listed
  <2> QED BY <2>2, <2>3
<1>2. CASE ~CreateGroup(s)
  <2>1. g \in m_groupRoom_map /\ UNCHANGED m_administrator_user_id
    BY <1>2, RegistryWrites
  <2>2. getAdministrator(g) \in Users /\ getAdministrator(g)' = getAdministrator(g)
    BY <2>1, AdministratorType DEF getAdministrator
  <2>s. ASSUME UNCHANGED m_user_group_verification_map
        PROVE  /\ Entries(u, g, u)' = Entries(u, g, u)
               /\ Entries(getAdministrator(g), g, u)' = Entries(getAdministrator(g), g, u)
    BY <2>s, <2>2 DEF Entries
  <2>3. CASE Quiet(s)
    <3>1. /\ OthersStay(s) /\ UNCHANGED <<m_groupVerification_map,
                                          m_user_group_verification_map>>
          /\ Open(g, u)' = Open(g, u)
      BY <2>3 DEF Quiet, verifications, Open, hasGroupRoomVerification
    <3>2. /\ ApplyAt(s, "apply_sender", g, u) = 0 /\ ApplyAt(s, "apply_admin", g, u) = 0
          /\ EraseAt(s, "erase_admin", g, u)' = 0 /\ EraseAt(s, "erase_sender", g, u)' = 0
      BY <2>1, <2>3 DEF Quiet, ApplyAt, EraseAt, hasGroupRoom
    <3> QED BY <1>t, <2>1, <2>s, <3>1, <3>2, ListedSame
  <2>4. CASE Marks(s)
    <3>1. Open(g, u)' = Open(g, u)
      BY <2>4, <1>v, <1>g, <1>h DEF Marks, Applied, Open, hasGroupRoomVerification
    <3>2. /\ ApplyAt(s, "apply_sender", g, u) = 0 /\ ApplyAt(s, "apply_admin", g, u) = 0
          /\ EraseAt(s, "erase_admin", g, u)' = 0 /\ EraseAt(s, "erase_sender", g, u)' = 0
      BY <2>4 DEF Marks, Moves, ApplyAt, EraseAt
    <3>3. OthersStay(s) /\ UNCHANGED m_user_group_verification_map
      BY <2>4 DEF Marks, Moves
    <3> QED BY <1>t, <2>1, <2>s, <3>1, <3>2, <3>3, ListedSame
  <2>5. CASE ShowsOwn(s) \/ Admits(s) \/ Joins(s) \/ Shows(s) \/ Removes(s) \/ Leaves(s)
    <3>1. OthersStay(s) /\ UNCHANGED <<m_groupVerification_map,
                                       m_user_group_verification_map>>
      BY <2>5 DEF ShowsOwn, Admits, Joins, Shows, Removes, Leaves, Moves, Ends, verifications
    <3>2. Open(g, u)' = Open(g, u)
      BY <3>1 DEF Open, hasGroupRoomVerification
    <3>3. /\ pc[s] \notin {"apply_sender", "apply_admin"}
          /\ pc'[s] \notin {"erase_admin", "erase_sender"}
      BY <2>5 DEF ShowsOwn, Admits, Joins, Shows, Removes, Leaves, Moves, Ends
    <3>4. /\ ApplyAt(s, "apply_sender", g, u) = 0 /\ ApplyAt(s, "apply_admin", g, u) = 0
          /\ EraseAt(s, "erase_admin", g, u)' = 0 /\ EraseAt(s, "erase_sender", g, u)' = 0
      BY <3>3 DEF ApplyAt, EraseAt
    <3> QED BY <1>t, <2>1, <2>s, <3>1, <3>2, <3>4, ListedSame
  \* An entry is written or erased as the step that does it ceases to count.
  <2> DEFINE x == EraseAt(s, "erase_admin", g, u)
             y == EraseAt(s, "erase_sender", g, u)
             z == ApplyAt(s, "apply_sender", g, u)
             w == ApplyAt(s, "apply_admin", g, u)
             o == Open(g, u)
             eu == Entries(u, g, u)
             ed == Entries(getAdministrator(g), g, u)
  <2>b. ASSUME OthersStay(s), NEW ds \in Int, NEW da \in Int,
               o' - o + x' - x + y' - y - z' + z <= ds,
               o' - o + x' - x - z' + z - w' + w <= da,
               getAdministrator(g) = u => eu' >= eu + ds + da,
               getAdministrator(g) # u => eu' >= eu + ds /\ ed' >= ed + da
        PROVE  Listed(g, u)'
    BY <1>t, <2>1, <2>b, ListedStep
  <2>n. ASSUME OthersStay(s), eu' = eu, ed' = ed, o' = o, z = 0, w = 0, x' = 0, y' = 0
        PROVE  Listed(g, u)'
    BY <1>t, <2>1, <2>n, ListedSame
  <2>i. eu \in Int /\ eu' \in Int /\ ed \in Int /\ ed' \in Int /\ o \in Int /\ o' \in Int
    BY <1>e, <2>2 DEF Open, getAdministrator
  <2>6. CASE Inserts(s)
    <3>1. OthersStay(s) /\ group[s] \in Groups
      BY <2>6, <1>h DEF Inserts, Moves
    <3>2. CASE group[s] = g /\ UserOf[s] = u
      <4>1. o = 0 /\ o' = 1
        BY <2>6, <3>2, <1>v, <1>g, <1>u DEF Inserts, Open, hasGroupRoomVerification
      <4>2. /\ x = 0 /\ x' = 0 /\ y = 0 /\ y' = 0
            /\ z = 0 /\ z' = 1 /\ w = 0 /\ w' = 0
        BY <2>6, <3>2 DEF Inserts, Moves, EraseAt, ApplyAt
      <4>3. eu' = eu /\ ed' = ed
        BY <2>6, <2>s DEF Inserts
      <4> HIDE DEF x, y, z, w, o, eu, ed
      <4>4. o' - o + x' - x + y' - y - z' + z <= 0
        BY <4>1, <4>2
      <4>5. o' - o + x' - x - z' + z - w' + w <= 0
        BY <4>1, <4>2
      <4>6. eu' >= eu + 0 + 0 /\ eu' >= eu + 0 /\ ed' >= ed + 0
        BY <2>i, <4>3
      <4> QED BY <2>b, <3>1, <4>4, <4>5, <4>6
    <3>3. CASE ~(group[s] = g /\ UserOf[s] = u)
      <4>1. o' = o
        BY <2>6, <3>1, <3>3, <1>v, <1>g, <1>u DEF Inserts, Open, hasGroupRoomVerification
      <4>2. z = 0 /\ w = 0 /\ x' = 0 /\ y' = 0
        BY <2>6, <3>3 DEF Inserts, Moves, EraseAt, ApplyAt
      <4>3. eu' = eu /\ ed' = ed
        BY <2>6, <2>s DEF Inserts
      <4> QED BY <2>n, <3>1, <4>1, <4>2, <4>3
    <3> QED BY <3>2, <3>3
  <2>7. CASE ListsForSender(s)
    <3>1. OthersStay(s) /\ group[s] \in Groups
      BY <2>7, <1>h DEF ListsForSender, Moves
    <3>2. o' = o
      BY <2>7 DEF ListsForSender, Open, hasGroupRoomVerification
    <3>3. CASE group[s] = g /\ UserOf[s] = u
      <4>1. /\ x = 0 /\ x' = 0 /\ y = 0 /\ y' = 0
            /\ z = 1 /\ z' = 0 /\ w = 0 /\ w' = 1
        BY <2>7, <3>3 DEF ListsForSender, Moves, EraseAt, ApplyAt
      <4>2. addGroupVerification(u, g, u)
        BY <2>7, <3>3 DEF ListsForSender
      <4>3. eu' = eu + 1 /\ (getAdministrator(g) # u => ed' = ed)
        BY <1>g, <2>2, <4>2, EntryWrites
      <4>4. getAdministrator(g) = u => eu = ed /\ eu' = ed'
        BY <2>2
      <4> HIDE DEF x, y, z, w, o, eu, ed
      <4>5. o' - o + x' - x + y' - y - z' + z <= 1
        BY <2>i, <3>2, <4>1
      <4>6. o' - o + x' - x - z' + z - w' + w <= 0
        BY <2>i, <3>2, <4>1
      <4>7. /\ getAdministrator(g) = u => eu' >= eu + 1 + 0
            /\ getAdministrator(g) # u => eu' >= eu + 1 /\ ed' >= ed + 0
        BY <2>i, <4>3, <4>4
      <4> QED BY <2>b, <3>1, <4>5, <4>6, <4>7
    <3>4. CASE ~(group[s] = g /\ UserOf[s] = u)
      <4>1. z = 0 /\ w = 0 /\ x' = 0 /\ y' = 0
        BY <2>7, <3>4 DEF ListsForSender, Moves, EraseAt, ApplyAt
      <4>2. eu' = eu /\ ed' = ed
        BY <2>7, <1>g, <1>u, <2>2, <3>1, <3>4, EntryWrites DEF ListsForSender
      <4> QED BY <2>n, <3>1, <3>2, <4>1, <4>2
    <3> QED BY <3>3, <3>4
  <2>8. CASE ListsForAdmin(s)
    <3>1. OthersStay(s) /\ group[s] \in Groups
      BY <2>8, <1>h DEF ListsForAdmin, Moves
    <3>2. o' = o
      BY <2>8 DEF ListsForAdmin, Open, hasGroupRoomVerification
    <3>3. CASE group[s] = g /\ UserOf[s] = u
      <4>1. /\ x = 0 /\ x' = 0 /\ y = 0 /\ y' = 0
            /\ z = 0 /\ z' = 0 /\ w = 1 /\ w' = 0
        BY <2>8, <3>3 DEF ListsForAdmin, Moves, EraseAt, ApplyAt
      <4>2. addGroupVerification(getAdministrator(g), g, u)
        BY <2>8, <3>3 DEF ListsForAdmin
      <4>3. ed' = ed + 1 /\ (getAdministrator(g) # u => eu' = eu)
        BY <1>g, <2>2, <4>2, EntryWrites
      <4>4. getAdministrator(g) = u => eu = ed /\ eu' = ed'
        BY <2>2
      <4> HIDE DEF x, y, z, w, o, eu, ed
      <4>5. o' - o + x' - x + y' - y - z' + z <= 0
        BY <2>i, <3>2, <4>1
      <4>6. o' - o + x' - x - z' + z - w' + w <= 1
        BY <2>i, <3>2, <4>1
      <4>7. /\ getAdministrator(g) = u => eu' >= eu + 0 + 1
            /\ getAdministrator(g) # u => eu' >= eu + 0 /\ ed' >= ed + 1
        BY <2>i, <4>3, <4>4
      <4> QED BY <2>b, <3>1, <4>5, <4>6, <4>7
    <3>4. CASE ~(group[s] = g /\ UserOf[s] = u)
      <4>1. z = 0 /\ w = 0 /\ x' = 0 /\ y' = 0
        BY <2>8, <3>4 DEF ListsForAdmin, Moves, EraseAt, ApplyAt
      <4>2. eu' = eu /\ ed' = ed
        <5>1. getAdministrator(group[s]) \in Users
          BY <2>8, AdministratorType DEF ListsForAdmin, hasGroupRoom
        <5> QED BY <2>8, <1>g, <1>u, <2>2, <3>1, <3>4, <5>1, EntryWrites DEF ListsForAdmin
      <4> QED BY <2>n, <3>1, <3>2, <4>1, <4>2
    <3> QED BY <3>3, <3>4
  <2>9. CASE Closes(s)
    <3>1. OthersStay(s) /\ group[s] \in Groups
      BY <2>9, <1>h DEF Closes, Moves
    <3>2. CASE group[s] = g /\ who[s] = u
      <4>1. o = 1 /\ o' = 0
        BY <2>9, <3>2, <1>v, <1>g, <1>w DEF Closes, Applied, Open, hasGroupRoomVerification
      <4>2. /\ x = 0 /\ x' = 1 /\ y = 0 /\ y' = 0
            /\ z = 0 /\ z' = 0 /\ w = 0 /\ w' = 0
        BY <2>9, <3>2 DEF Closes, Moves, EraseAt, ApplyAt
      <4>3. eu' = eu /\ ed' = ed
        BY <2>9, <2>s DEF Closes
      <4> HIDE DEF x, y, z, w, o, eu, ed
      <4>4. o' - o + x' - x + y' - y - z' + z <= 0
        BY <4>1, <4>2
      <4>5. o' - o + x' - x - z' + z - w' + w <= 0
        BY <4>1, <4>2
      <4>6. eu' >= eu + 0 + 0 /\ eu' >= eu + 0 /\ ed' >= ed + 0
        BY <2>i, <4>3
      <4> QED BY <2>b, <3>1, <4>4, <4>5, <4>6
    <3>3. CASE ~(group[s] = g /\ who[s] = u)
      <4>1. o' = o
        BY <2>9, <3>1, <3>3, <1>v, <1>g, <1>w DEF Closes, Applied, Open, hasGroupRoomVerification
      <4>2. z = 0 /\ w = 0 /\ x' = 0 /\ y' = 0
        BY <2>9, <3>3 DEF Closes, Moves, EraseAt, ApplyAt
      <4>3. eu' = eu /\ ed' = ed
        BY <2>9, <2>s DEF Closes
      <4> QED BY <2>n, <3>1, <4>1, <4>2, <4>3
    <3> QED BY <3>2, <3>3
  <2>10. CASE UnlistsForAdmin(s)
    <3>1. OthersStay(s) /\ group[s] \in Groups
      BY <2>10, <1>h DEF UnlistsForAdmin, Moves
    <3>2. o' = o
      BY <2>10 DEF UnlistsForAdmin, Open, hasGroupRoomVerification
    <3>3. CASE group[s] = g /\ who[s] = u
      <4>1. /\ x = 1 /\ x' = 0 /\ y = 0 /\ y' = 1
            /\ z = 0 /\ z' = 0 /\ w = 0 /\ w' = 0
        BY <2>10, <3>3 DEF UnlistsForAdmin, Moves, EraseAt, ApplyAt
      <4>2. removeGroupVerification(getAdministrator(g), g, u)
        BY <2>10, <3>3 DEF UnlistsForAdmin
      <4>3. ed' >= ed - 1 /\ (getAdministrator(g) # u => eu' = eu)
        BY <1>g, <2>2, <4>2, EntryWrites
      <4>4. getAdministrator(g) = u => eu = ed /\ eu' = ed'
        BY <2>2
      <4> HIDE DEF x, y, z, w, o, eu, ed
      <4>5. o' - o + x' - x + y' - y - z' + z <= 0
        BY <2>i, <3>2, <4>1
      <4>6. o' - o + x' - x - z' + z - w' + w <= -1
        BY <2>i, <3>2, <4>1
      <4>7. /\ getAdministrator(g) = u => eu' >= eu + 0 + (-1)
            /\ getAdministrator(g) # u => eu' >= eu + 0 /\ ed' >= ed + (-1)
        BY <2>i, <4>3, <4>4
      <4> QED BY <2>b, <3>1, <4>5, <4>6, <4>7
    <3>4. CASE ~(group[s] = g /\ who[s] = u)
      <4>1. z = 0 /\ w = 0 /\ x' = 0 /\ y' = 0
        BY <2>10, <3>4 DEF UnlistsForAdmin, Moves, EraseAt, ApplyAt
      <4>2. eu' = eu /\ ed' = ed
        <5>1. getAdministrator(group[s]) \in Users
          BY <2>10, AdministratorType DEF UnlistsForAdmin, hasGroupRoom
        <5> QED BY <2>10, <1>g, <1>w, <2>2, <3>1, <3>4, <5>1, EntryWrites DEF UnlistsForAdmin
      <4> QED BY <2>n, <3>1, <3>2, <4>1, <4>2
    <3> QED BY <3>3, <3>4
  <2>11. CASE UnlistsForSender(s)
    <3>1. OthersStay(s) /\ group[s] \in Groups
      BY <2>11, <1>h DEF UnlistsForSender, Ends
    <3>2. o' = o
      BY <2>11 DEF UnlistsForSender, Open, hasGroupRoomVerification
    <3>3. CASE group[s] = g /\ who[s] = u
      <4>1. /\ x = 0 /\ x' = 0 /\ y = 1 /\ y' = 0
            /\ z = 0 /\ z' = 0 /\ w = 0 /\ w' = 0
        BY <2>11, <3>3 DEF UnlistsForSender, Ends, EraseAt, ApplyAt
      <4>2. removeGroupVerification(u, g, u)
        BY <2>11, <3>3 DEF UnlistsForSender
      <4>3. eu' >= eu - 1 /\ (getAdministrator(g) # u => ed' = ed)
        BY <1>g, <2>2, <4>2, EntryWrites
      <4>4. getAdministrator(g) = u => eu = ed /\ eu' = ed'
        BY <2>2
      <4> HIDE DEF x, y, z, w, o, eu, ed
      <4>5. o' - o + x' - x + y' - y - z' + z <= -1
        BY <2>i, <3>2, <4>1
      <4>6. o' - o + x' - x - z' + z - w' + w <= 0
        BY <2>i, <3>2, <4>1
      <4>7. /\ getAdministrator(g) = u => eu' >= eu + (-1) + 0
            /\ getAdministrator(g) # u => eu' >= eu + (-1) /\ ed' >= ed + 0
        BY <2>i, <4>3, <4>4
      <4> QED BY <2>b, <3>1, <4>5, <4>6, <4>7
    <3>4. CASE ~(group[s] = g /\ who[s] = u)
      <4>1. z = 0 /\ w = 0 /\ x' = 0 /\ y' = 0
        BY <2>11, <3>4 DEF UnlistsForSender, Ends, EraseAt, ApplyAt
      <4>2. eu' = eu /\ ed' = ed
        BY <2>11, <1>g, <1>w, <2>2, <3>1, <3>4, EntryWrites DEF UnlistsForSender
      <4> QED BY <2>n, <3>1, <3>2, <4>1, <4>2
    <3> QED BY <3>3, <3>4
  <2> QED BY <1>2, <2>3, <2>4, <2>5, <2>6, <2>7, <2>8, <2>9, <2>10, <2>11 DEF Writes
<1> QED BY <1>1, <1>2

-----------------------------------------------------------------------------
(* The theorems.                                                           *)

\* Manager::init establishes the invariant.
LEMMA InitIInv == Init => IInv
<1> SUFFICES ASSUME Init PROVE IInv
  OBVIOUS
<1> USE DEF Init
<1>1. TypeOK
  <2>1. m_newPrivateRoomId \in FirstGroupId .. (FirstGroupId + MaxGroups)
    BY BoundsAssumption DEF FirstGroupId
  <2> QED BY <2>1 DEF TypeOK, Labels, Replies, GroupIds
<1>2. ControlInv
  BY DEF ControlInv
<1>3. RegistryInv
  BY GroupFacts, UserFacts DEF RegistryInv, getAdministrator, FirstGroupId
<1>4. FreshInv
  BY DEF FreshInv
<1>5. MembersSeeGroup
  BY DEF MembersSeeGroup
<1>6. VerifiedIsBeingAccepted
  BY DEF VerifiedIsBeingAccepted
<1>7. ListInv
  BY DEF ListInv
<1> QED BY <1>1, <1>2, <1>3, <1>4, <1>5, <1>6, <1>7 DEF IInv

\* Every step keeps it.
LEMMA NextIInv == IInv /\ [Next]_vars => IInv'
<1>1. ASSUME IInv, Next PROVE IInv'
  <2>1. PICK s \in Sessions : Quiet(s) \/ Writes(s)
    BY <1>1, NextShape
  <2> QED BY <1>1, <2>1, TypeStep, ControlStep, RegistryStep, FreshStep, MembersStep,
             VerifiedStep, ListStep DEF IInv
<1>2. ASSUME IInv, UNCHANGED vars PROVE IInv'
  <2> USE <1>2 DEF vars, registry, members, verifications, locals
  <2>1. TypeOK' /\ ControlInv'
    BY DEF IInv, TypeOK, ControlInv
  <2>2. RegistryInv' /\ FreshInv'
    BY DEF IInv, RegistryInv, FreshInv, getAdministrator
  <2>3. MembersSeeGroup' /\ VerifiedIsBeingAccepted'
    BY DEF IInv, MembersSeeGroup, VerifiedIsBeingAccepted, Accepting
  <2>4. \A g, u : Listed(g, u)' <=> Listed(g, u)
    BY DEF Listed, SenderOwed, AdminOwed, Open, Entries, Erasing, Applying,
           getAdministrator, hasGroupRoomVerification
  <2>5. ListInv'
    BY <2>4 DEF IInv, ListInv
  <2> QED BY <2>1, <2>2, <2>3, <2>5 DEF IInv
<1> QED BY <1>1, <1>2

\* IInv is an invariant of Groups.
THEOREM Invariance == Spec => []IInv
BY InitIInv, NextIInv, PTL DEF Spec

\* Type correctness, for every instance: in particular no step indexes a
\* container with a group that was never created or a user who is not
\* registered, and no list goes below zero entries.
THEOREM TypeCorrect == Spec => []TypeOK
<1>1. IInv => TypeOK
  BY DEF IInv
<1> QED BY <1>1, Invariance, PTL

\* Whoever is in a group sees it, for every number of sessions: nobody is left
\* in a group that send_group_message refuses to them.
THEOREM MembersAlwaysSeeGroup == Spec => []MembersSeeGroup
<1>1. IInv => MembersSeeGroup
  BY DEF IInv
<1> QED BY <1>1, Invariance, PTL

\* No accepted application of an existing group is left behind by
\* acceptGroupRoom.
THEOREM VerifiedAlwaysBeingAccepted == Spec => []VerifiedIsBeingAccepted
<1>1. IInv => VerifiedIsBeingAccepted
  BY DEF IInv
<1> QED BY <1>1, Invariance, PTL

\* The lists of the sender and of the administrator always name an application
\* to an existing group: erasures of older applications that are late never
\* take its entries away, because the entries are counted.
THEOREM ApplicationAlwaysListed == Spec => []ApplicationIsListed
<1>1. ASSUME IInv PROVE ApplicationIsListed
  <2> SUFFICES ASSUME NEW u \in Users, NEW g \in m_groupRoom_map,
                      hasGroupRoomVerification(u, g),
                      ~ \E s \in Sessions :
                          /\ UserOf[s] = u /\ group[s] = g
                          /\ pc[s] \in {"apply_sender", "apply_admin"}
               PROVE  /\ Entries(u, g, u) > 0
                      /\ Entries(getAdministrator(g), g, u) > 0
    BY DEF ApplicationIsListed, Entries
  <2>1. Applying("apply_sender", g, u) = {} /\ Applying("apply_admin", g, u) = {}
    BY DEF Applying
  <2>2. Cardinality({}) = 0
    BY FS_EmptySet
  <2>3. \A l : IsFiniteSet(Erasing(l, g, u))
    BY SessionsAssumption, FS_Subset DEF Erasing
  <2> DEFINE ea == Cardinality(Erasing("erase_admin", g, u))
             es == Cardinality(Erasing("erase_sender", g, u))
  <2>4. ea \in Nat /\ es \in Nat
    BY <2>3, FS_CardinalityType
  <2>5. SenderOwed(g, u) = 1 + ea + es - 0 /\ AdminOwed(g, u) = 1 + ea - 0 - 0
    BY <2>1, <2>2 DEF SenderOwed, AdminOwed, Open
  <2>6. Entries(u, g, u) \in Nat /\ Entries(getAdministrator(g), g, u) \in Nat
    BY <1>1, AdministratorType DEF IInv, TypeOK, Entries
  <2>7. Listed(g, u)
    BY <1>1 DEF IInv, ListInv
  <2> HIDE DEF ea, es
  <2>8. SenderOwed(g, u) >= 1 /\ AdminOwed(g, u) >= 1
        /\ SenderOwed(g, u) \in Int /\ AdminOwed(g, u) \in Int
    BY <2>4, <2>5
  <2> QED BY <2>6, <2>7, <2>8 DEF Listed
<1> QED BY <1>1, Invariance, PTL

\* Group ids are never handed out again: a removed group stays removed and a
\* group keeps its administrator.
THEOREM GroupIdsAlwaysFresh == Spec => GroupIdsFresh
<1> DEFINE A == \A g \in Groups :
                  getAdministrator(g) # Nobody =>
                      /\ getAdministrator(g)' = getAdministrator(g)
                      /\ g \notin m_groupRoom_map => g \notin m_groupRoom_map'
<1>1. ASSUME IInv, Next PROVE A
  <2>1. PICK s \in Sessions : Quiet(s) \/ Writes(s)
    BY <1>1, NextShape
  <2>2. CASE CreateGroup(s)
    <3>1. /\ m_newPrivateRoomId \in Int
          /\ m_groupRoom_map' = m_groupRoom_map \cup {m_newPrivateRoomId}
          /\ m_administrator_user_id' =
               [m_administrator_user_id EXCEPT ![m_newPrivateRoomId] = UserOf[s]]
      BY <1>1, <2>2, CreateMoves DEF CreateGroup
    <3>2. ASSUME NEW g \in Groups, getAdministrator(g) # Nobody
          PROVE  g # m_newPrivateRoomId
      BY <1>1, <3>1, <3>2, GroupFacts DEF IInv, TypeOK, RegistryInv, getAdministrator
    <3> QED BY <1>1, <3>1, <3>2 DEF IInv, TypeOK, getAdministrator
  <2>3. CASE ~CreateGroup(s)
    BY <2>1, <2>3, RegistryWrites DEF getAdministrator
  <2> QED BY <2>2, <2>3
<1>2. IInv /\ [Next]_vars => [A]_vars
  BY <1>1
<1> QED BY <1>2, Invariance, PTL DEF Spec, GroupIdsFresh
-----------------------------------------------------------------------------
(* The group commands implement Membership.                                *)

\* A session past the check for the administrator, and one that founds a group,
\* acts for the administrator: administrators never change.
AdministratorInv ==
    \A s \in Sessions :
        pc[s] \in {"create_set", "accept_mark", "accept_add", "accept_join", "accept_list"}
            => getAdministrator(group[s]) = UserOf[s]

\* Every step keeps it.
LEMMA AdministratorStep ==
    ASSUME IInv, AdministratorInv, NEW s \in Sessions, Quiet(s) \/ Writes(s)
    PROVE  AdministratorInv'
<1> DEFINE L == {"create_set", "accept_mark", "accept_add", "accept_join", "accept_list"}
<1>1. ASSUME NEW g \in Groups, g < m_newPrivateRoomId
      PROVE  getAdministrator(g)' = getAdministrator(g)
  <2>1. CASE CreateGroup(s)
    <3>1. /\ m_newPrivateRoomId \in Int
          /\ m_administrator_user_id' =
               [m_administrator_user_id EXCEPT ![m_newPrivateRoomId] = UserOf[s]]
      BY <2>1, CreateMoves DEF CreateGroup
    <3>2. g # m_newPrivateRoomId
      BY <1>1, <3>1, GroupFacts
    <3> QED BY <3>1, <3>2 DEF IInv, TypeOK, getAdministrator
  <2>2. CASE ~CreateGroup(s)
    BY <2>2, RegistryWrites DEF getAdministrator
  <2> QED BY <2>1, <2>2
<1>2. ASSUME NEW t \in Sessions, t # s, pc'[t] \in L
      PROVE  getAdministrator(group[t])' = UserOf[t]
  <2>1. OthersStay(s)
    BY CreateMoves DEF Quiet, Writes, ShowsOwn, Inserts, ListsForSender, ListsForAdmin,
       Marks, Admits, Joins, Shows, Closes, UnlistsForAdmin, UnlistsForSender, Removes,
       Leaves, Moves, Ends
  <2>2. pc[t] \in L /\ group'[t] = group[t]
    BY <1>2, <2>1 DEF OthersStay
  <2>3. group[t] \in Groups /\ group[t] < m_newPrivateRoomId
    BY <2>2 DEF IInv, ControlInv
  <2>4. getAdministrator(group[t]) = UserOf[t]
    BY <2>2 DEF AdministratorInv
  <2> PICK g \in Groups : g = group[t]
    BY <2>3
  <2> QED BY <1>1, <2>2, <2>3, <2>4 DEF getAdministrator
<1>3. ASSUME pc'[s] \in L
      PROVE  getAdministrator(group[s])' = UserOf[s]
  <2>1. CASE CreateGroup(s)
    <3>1. /\ group'[s] = m_newPrivateRoomId /\ m_newPrivateRoomId \in Groups
          /\ m_administrator_user_id' =
               [m_administrator_user_id EXCEPT ![m_newPrivateRoomId] = UserOf[s]]
      BY <2>1, CreateMoves DEF CreateGroup
    <3> QED BY <3>1 DEF IInv, TypeOK, getAdministrator
  <2>2. CASE Quiet(s)
    <3>1. pc'[s] = "accept_mark"
      BY <1>3, <2>2 DEF Quiet
    <3> QED BY <2>2, <3>1 DEF Quiet, registry, getAdministrator
  <2>3. CASE Marks(s) \/ Admits(s) \/ Joins(s)
    <3>1. /\ pc[s] \in L /\ group'[s] = group[s]
          /\ m_administrator_user_id' = m_administrator_user_id
      BY <2>3 DEF Marks, Admits, Joins, Moves, registry
    <3> QED BY <3>1 DEF AdministratorInv, getAdministrator
  <2>4. CASE \/ ShowsOwn(s) \/ Inserts(s) \/ ListsForSender(s) \/ ListsForAdmin(s)
             \/ Shows(s) \/ Closes(s) \/ UnlistsForAdmin(s) \/ UnlistsForSender(s)
             \/ Removes(s) \/ Leaves(s)
    BY <1>3, <2>4 DEF ShowsOwn, Inserts, ListsForSender, ListsForAdmin, Shows, Closes,
       UnlistsForAdmin, UnlistsForSender, Removes, Leaves, Moves, Ends
  <2> QED BY <2>1, <2>2, <2>3, <2>4 DEF Writes
<1> QED BY <1>2, <1>3 DEF AdministratorInv, getAdministrator

\* Whoever grants is the administrator, for every instance.
THEOREM AdministratorsGrant == Spec => []AdministratorInv
<1>1. Init => AdministratorInv
  BY DEF Init, AdministratorInv
<1>2. IInv /\ AdministratorInv /\ [Next]_vars => AdministratorInv'
  <2> SUFFICES ASSUME IInv, AdministratorInv, [Next]_vars PROVE AdministratorInv'
    OBVIOUS
  <2>1. CASE Next
    BY <2>1, NextShape, AdministratorStep
  <2>2. CASE UNCHANGED vars
    BY <2>2 DEF vars, locals, registry, AdministratorInv, getAdministrator
  <2> QED BY <2>1, <2>2
<1> QED BY <1>1, <1>2, Invariance, PTL DEF Spec

\* What a step of s does to the grants.
LEMMA GrantedMoves ==
    ASSUME NEW s \in Sessions, OthersStay(s)
    PROVE  /\ s \notin LettingIn /\ s \notin LettingIn' => granted' = granted
           /\ s \notin LettingIn /\ s \in LettingIn' =>
                 granted' = granted \cup {GrantOf(s)'}
           /\ s \in LettingIn /\ s \in LettingIn' /\ GrantOf(s)' = GrantOf(s) =>
                 granted' = granted
           /\ s \in LettingIn /\ s \notin LettingIn' =>
                 granted' \in {granted, granted \ {GrantOf(s)}}
<1> DEFINE O == {GrantOf(t) : t \in LettingIn \ {s}}
<1>1. \A t \in Sessions \ {s} :
         (t \in LettingIn' <=> t \in LettingIn) /\ GrantOf(t)' = GrantOf(t)
  BY DEF OthersStay, LettingIn, GrantOf
<1>2. LettingIn \subseteq Sessions /\ LettingIn' \subseteq Sessions
  BY DEF LettingIn
<1>3. granted = O \cup (IF s \in LettingIn THEN {GrantOf(s)} ELSE {})
  BY <1>2 DEF granted
<1>4. granted' = O \cup (IF s \in LettingIn' THEN {GrantOf(s)'} ELSE {})
  <2>1. granted' = {GrantOf(t)' : t \in LettingIn'}
    BY DEF granted
  <2>2. {GrantOf(t)' : t \in LettingIn' \ {s}} = O
    <3>1. LettingIn' \ {s} = LettingIn \ {s}
      BY <1>1, <1>2
    <3> QED BY <1>1, <1>2, <3>1
  <2> QED BY <2>1, <2>2
<1> HIDE DEF O
<1> QED BY <1>3, <1>4

\* What writing one application does to the applications.
LEMMA AppliedMoves ==
    ASSUME TypeOK, NEW u \in Users, NEW g \in Groups,
           NEW x \in {"none", "waiting", "verified"},
           m_groupVerification_map' = [m_groupVerification_map EXCEPT ![u][g] = x]
    PROVE  applied' = IF x = "none" THEN applied \ {<<u, g>>} ELSE applied \cup {<<u, g>>}
<1>1. \A v \in Users, h \in Groups :
         m_groupVerification_map'[v][h] =
            IF v = u /\ h = g THEN x ELSE m_groupVerification_map[v][h]
  <2>1. m_groupVerification_map \in [Users -> [Groups -> {"none", "waiting", "verified"}]]
    BY DEF TypeOK
  <2> QED BY <2>1, NestedExcept
<1>2. \A q \in Users \X Groups :
         q \in applied' <=> IF q = <<u, g>> THEN x # "none" ELSE q \in applied
  BY <1>1 DEF applied, hasGroupRoomVerification
<1>3. applied \subseteq Users \X Groups /\ applied' \subseteq Users \X Groups
  BY DEF applied
<1>4. <<u, g>> \in Users \X Groups
  OBVIOUS
<1> QED BY <1>2, <1>3, <1>4

\* Every step of a session is a step of Membership or changes nothing it sees.
LEMMA MembershipStep ==
    ASSUME IInv, AdministratorInv, NEW s \in Sessions, Quiet(s) \/ Writes(s)
    PROVE  M!Next \/ UNCHANGED M!vars
<1> DEFINE u == UserOf[s]
           w == who[s]
           g == group[s]
<1>0. /\ TypeOK /\ u \in Users /\ Nobody \notin Users
      /\ pc[s] # "idle" => g \in Groups /\ getAdministrator(g) \in Users
      /\ pc[s] \in {"accept_add", "accept_join", "accept_list",
                    "erase", "erase_admin", "erase_sender"} => w \in Users
      /\ pc[s] \in {"create_set", "accept_mark", "accept_add", "accept_join", "accept_list"}
            => getAdministrator(g) = u
  BY UserFacts DEF IInv, ControlInv, RegistryInv, AdministratorInv
<1>t. ASSUME s \in LettingIn
      PROVE  /\ pc[s] = "create_set" => GrantOf(s) = <<u, u, g>> /\ M!Granted(u, g)
             /\ pc[s] # "create_set" => GrantOf(s) = <<u, w, g>> /\ M!Granted(w, g)
  <2>1. GrantOf(s) \in granted
    BY <1>t DEF granted
  <2>2. getAdministrator(g) = u
    BY <1>0, <1>t DEF LettingIn
  <2> QED BY <2>1, <2>2 DEF GrantOf, M!Granted, getAdministrator
<1>1. CASE Quiet(s)
  <2>1. /\ UNCHANGED <<m_administrator_user_id, m_groupRoom_map, applied, m_user_id_map,
                       m_user_map, m_user_group_set>>
        /\ OthersStay(s)
    BY <1>1 DEF Quiet, registry, members, verifications, applied, hasGroupRoomVerification
  <2>2. s \notin LettingIn'
    BY <1>1 DEF Quiet, LettingIn
  <2>3. CASE s \notin LettingIn
    <3>1. granted' = granted
      BY <2>1, <2>2, <2>3, GrantedMoves
    <3> QED BY <2>1, <3>1 DEF M!vars
  <2>4. CASE s \in LettingIn
    <3>1. pc[s] = "accept_add" /\ ~hasGroupRoom(g)
      BY <1>1, <2>4 DEF Quiet, LettingIn
    <3>2. granted' \in {granted, granted \ {<<u, w, g>>}}
      BY <1>t, <2>1, <2>2, <2>4, <3>1, GrantedMoves
    <3>3. CASE granted' = granted
      BY <2>1, <3>3 DEF M!vars
    <3>4. CASE granted' = granted \ {<<u, w, g>>}
      <4>1. M!Withdraw(w, g)
        BY <1>0, <2>1, <3>1, <3>4 DEF M!Withdraw, hasGroupRoom, getAdministrator
      <4> QED BY <1>0, <3>1, <4>1 DEF M!Next
    <3> QED BY <3>2, <3>3, <3>4
  <2> QED BY <2>3, <2>4
<1>2. CASE CreateGroup(s)
  <2> DEFINE n == m_newPrivateRoomId
  <2>1. /\ OthersStay(s) /\ pc'[s] = "create_set" /\ group'[s] = n
        /\ n \in Groups /\ n \in Int
    BY <1>2, CreateMoves
  <2>2. m_administrator_user_id[n] = Nobody
    <3>1. ~(n < n)
      BY <2>1
    <3>2. getAdministrator(n) \notin Users /\ getAdministrator(n) \in Users \cup {Nobody}
      BY <1>0, <2>1, <3>1 DEF IInv, RegistryInv, TypeOK, getAdministrator
    <3> QED BY <3>2 DEF getAdministrator
  <2>3. granted' = granted \cup {<<u, u, n>>}
    <3>1. s \notin LettingIn /\ s \in LettingIn'
      BY <1>2, <2>1 DEF CreateGroup, LettingIn
    <3>2. GrantOf(s)' = <<u, u, n>>
      BY <2>1 DEF GrantOf
    <3> QED BY <2>1, <3>1, <3>2, GrantedMoves
  <2>4. M!Found(u, n)
    BY <1>2, <2>2, <2>3 DEF M!Found, CreateGroup, verifications, applied,
       hasGroupRoomVerification
  <2> QED BY <1>0, <2>1, <2>4 DEF M!Next
<1>3. CASE ShowsOwn(s)
  <2>1. OthersStay(s) /\ s \in LettingIn /\ s \notin LettingIn' /\ pc[s] = "create_set"
    BY <1>3 DEF ShowsOwn, Ends, LettingIn
  <2>2. granted' \in {granted, granted \ {<<u, u, g>>}}
    BY <1>t, <2>1, GrantedMoves
  <2>3. M!List(u, g)
    BY <1>0, <1>t, <1>3, <2>1, <2>2 DEF M!List, ShowsOwn, registry, verifications, applied,
       hasGroupRoomVerification, getAdministrator
  <2> QED BY <1>0, <2>1, <2>3 DEF M!Next
<1>4. CASE Inserts(s)
  <2>1. OthersStay(s) /\ s \notin LettingIn /\ s \notin LettingIn' /\ pc[s] = "apply_insert"
    BY <1>4 DEF Inserts, Moves, LettingIn
  <2>2. granted' = granted
    BY <2>1, GrantedMoves
  <2>3. applied' = applied \cup {<<u, g>>}
    BY <1>0, <1>4, <2>1, AppliedMoves DEF Inserts
  <2>4. <<u, g>> \notin applied
    BY <1>4 DEF Inserts, applied
  <2>5. M!Apply(u, g)
    BY <1>0, <1>4, <2>1, <2>2, <2>3, <2>4
       DEF M!Apply, Inserts, registry, members, getAdministrator
  <2> QED BY <1>0, <2>1, <2>5 DEF M!Next
<1>5. CASE \/ ListsForSender(s) \/ ListsForAdmin(s)
           \/ UnlistsForAdmin(s) \/ UnlistsForSender(s)
  <2>1. OthersStay(s) /\ s \notin LettingIn /\ s \notin LettingIn'
    BY <1>5 DEF ListsForSender, ListsForAdmin, UnlistsForAdmin, UnlistsForSender, Moves,
       Ends, LettingIn
  <2>2. granted' = granted
    BY <2>1, GrantedMoves
  <2> QED BY <1>5, <2>2 DEF ListsForSender, ListsForAdmin, UnlistsForAdmin,
          UnlistsForSender, M!vars, registry, members, applied, hasGroupRoomVerification
<1>6. CASE Marks(s)
  <2>1. /\ OthersStay(s) /\ s \notin LettingIn /\ s \in LettingIn' /\ pc[s] = "accept_mark"
        /\ w \in Users
    BY <1>6 DEF Marks, Moves, LettingIn, Applied
  <2>2. granted' = granted \cup {<<u, w, g>>}
    <3>1. GrantOf(s)' = <<u, w, g>>
      BY <1>6 DEF GrantOf, Marks, Moves
    <3> QED BY <2>1, <3>1, GrantedMoves
  <2>3. <<w, g>> \in applied
    BY <1>0, <1>6, <2>1 DEF Marks, Applied, applied
  <2>4. applied' = applied
    <3>1. applied' = applied \cup {<<w, g>>}
      BY <1>0, <1>6, <2>1, AppliedMoves DEF Marks
    <3> QED BY <2>3, <3>1
  <2>5. M!Grant(w, g)
    BY <1>0, <1>6, <2>1, <2>2, <2>3, <2>4
       DEF M!Grant, Marks, registry, members, getAdministrator
  <2> QED BY <1>0, <2>1, <2>5 DEF M!Next
<1>7. CASE Admits(s) \/ Joins(s)
  <2>1. /\ OthersStay(s) /\ s \in LettingIn /\ s \in LettingIn'
        /\ pc[s] \in {"accept_add", "accept_join"} /\ GrantOf(s)' = GrantOf(s)
    BY <1>7 DEF Admits, Joins, Moves, LettingIn, GrantOf
  <2>2. granted' = granted /\ M!Granted(w, g)
    BY <1>t, <2>1, GrantedMoves
  <2>3. Admits(s) => M!Admit(w, g)
    BY <2>2 DEF M!Admit, Admits, registry, verifications, applied,
       hasGroupRoomVerification, hasGroupRoom
  <2>4. Joins(s) => M!Reach(w, g)
    BY <2>2 DEF M!Reach, Joins, registry, verifications, applied, hasGroupRoomVerification
  <2> QED BY <1>0, <1>7, <2>1, <2>3, <2>4 DEF M!Next
<1>8. CASE Shows(s)
  <2>1. OthersStay(s) /\ s \in LettingIn /\ s \notin LettingIn' /\ pc[s] = "accept_list"
    BY <1>8 DEF Shows, Moves, LettingIn
  <2>2. granted' \in {granted, granted \ {<<u, w, g>>}}
    BY <1>t, <2>1, GrantedMoves
  <2>3. M!List(w, g)
    BY <1>0, <1>t, <1>8, <2>1, <2>2 DEF M!List, Shows, registry, verifications, applied,
       hasGroupRoomVerification, getAdministrator
  <2> QED BY <1>0, <2>1, <2>3 DEF M!Next
<1>9. CASE Closes(s)
  <2>1. /\ OthersStay(s) /\ s \notin LettingIn /\ s \notin LettingIn' /\ pc[s] = "erase"
    BY <1>9 DEF Closes, Moves, LettingIn
  <2>2. granted' = granted
    BY <2>1, GrantedMoves
  <2>3. <<w, g>> \in applied
    BY <1>0, <1>9, <2>1 DEF Closes, Applied, applied
  <2>4. applied' = applied \ {<<w, g>>}
    BY <1>0, <1>9, <2>1, AppliedMoves DEF Closes
  <2>5. M!Drop(w, g)
    BY <1>9, <2>2, <2>3, <2>4 DEF M!Drop, Closes, registry, members
  <2> QED BY <1>0, <2>1, <2>5 DEF M!Next
<1>10. CASE Removes(s) \/ Leaves(s)
  <2>1. OthersStay(s) /\ s \notin LettingIn /\ s \notin LettingIn' /\ pc[s] # "idle"
    BY <1>10 DEF Removes, Leaves, Moves, Ends, LettingIn
  <2>2. granted' = granted
    BY <2>1, GrantedMoves
  <2>3. Removes(s) => M!Close(g)
    BY <2>2 DEF M!Close, Removes, members, verifications, applied, hasGroupRoomVerification
  <2>4. Leaves(s) => M!Leave(u, g)
    BY <2>2 DEF M!Leave, Leaves, registry, verifications, applied, hasGroupRoomVerification
  <2> QED BY <1>0, <1>10, <2>1, <2>3, <2>4 DEF M!Next
<1> QED BY <1>1, <1>2, <1>3, <1>4, <1>5, <1>6, <1>7, <1>8, <1>9, <1>10 DEF Writes

\* The group commands implement Membership: however commands interleave, nobody
\* gets into a group but its founder and those whose waiting application its
\* administrator accepted, and nobody into a group that has been removed.
THEOREM ImplementsMembership == Spec => MembershipSpec
<1>1. Init => M!Init
  <2> SUFFICES ASSUME Init PROVE M!Init
    OBVIOUS
  <2>1. granted = {} /\ applied = {}
    BY DEF Init, granted, LettingIn, applied, hasGroupRoomVerification
  <2> QED BY <2>1 DEF Init, M!Init
<1>2. IInv /\ AdministratorInv /\ [Next]_vars => [M!Next]_(M!vars)
  <2> SUFFICES ASSUME IInv, AdministratorInv, [Next]_vars
               PROVE  M!Next \/ UNCHANGED M!vars
    BY DEF M!vars
  <2>1. CASE Next
    BY <2>1, NextShape, MembershipStep
  <2>2. CASE UNCHANGED vars
    BY <2>2 DEF vars, registry, members, verifications, locals, M!vars, applied,
       hasGroupRoomVerification, granted, LettingIn, GrantOf
  <2> QED BY <2>1, <2>2
<1> QED BY <1>1, <1>2, Invariance, AdministratorsGrant, PTL DEF Spec, M!Spec, MembershipSpec

=============================================================================
