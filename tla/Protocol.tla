------------------------------ MODULE Protocol ------------------------------
(***************************************************************************)
(* The commands of the protocol as its two ends have them: the functions of *)
(* the server with the parameters each one requires, the server's check of  *)
(* a request, and the requests the client's Session makes.                  *)
(*                                                                         *)
(* A parameter is a pair of name and JSON type.                            *)
(***************************************************************************)

\* The entries of two tables.
Merge(f, g) ==
    [name \in DOMAIN f \cup DOMAIN g |-> IF name \in DOMAIN f THEN f[name] ELSE g[name]]

JInt == "JInt"
JString == "JString"
user_id == <<"user_id", JInt>>
group_id == <<"group_id", JInt>>
email == <<"email", JString>>
password == <<"password", JString>>
device == <<"device", JString>>
message == <<"message", JString>>

-----------------------------------------------------------------------------
(* The server: getOption of every command.                                 *)

AccountOption == [register |-> {email, password}, has_user |-> {user_id},
                  search_user |-> {user_id}]

FriendOption ==
    [add_friend |-> {user_id}, accept_friend_verification |-> {user_id},
     reject_friend_verification |-> {user_id}, get_friend_list |-> {},
     get_friend_verification_list |-> {}, remove_friend |-> {user_id}]

\* Mutant of GroupOption: an application is to be answered by its user only.
GroupOption_UserOnly ==
    [add_group |-> {group_id}, accept_group_verification |-> {user_id, message},
     reject_group_verification |-> {user_id}, get_group_list |-> {},
     get_group_verification_list |-> {}, create_group |-> {},
     remove_group |-> {group_id}, leave_group |-> {group_id}]

GroupOption ==
    [add_group |-> {group_id}, accept_group_verification |-> {group_id, user_id},
     reject_group_verification |-> {group_id, user_id}, get_group_list |-> {},
     get_group_verification_list |-> {}, create_group |-> {},
     remove_group |-> {group_id}, leave_group |-> {group_id}]

MessageOption == [send_friend_message |-> {user_id, message},
                  send_group_message |-> {group_id, message}]

\* JsonMessageProcessCommandList.
FunctionMap == Merge(Merge(AccountOption, FriendOption), Merge(GroupOption, MessageOption))

\* What processJsonMessage makes of a request: login, which reads its parameters
\* without a check, a refusal, or the command.
Verdict(request) ==
    IF request.function = "login"
    THEN IF {user_id, password, device} \subseteq request.parameters
         THEN "login" ELSE "unknown error"
    ELSE IF request.function \in DOMAIN FunctionMap
    THEN IF FunctionMap[request.function] \subseteq request.parameters
         THEN "execute" ELSE "lost a parameter"
    ELSE "no such function"

-----------------------------------------------------------------------------
(* The client: for every function of Session whether it wants a login, and  *)
(* the request it makes.                                                   *)

Call(has_login, function, parameters) ==
    [has_login |-> has_login, function |-> function, parameters |-> parameters]

AccountSession ==
    [registerUser |-> Call(FALSE, "register", {email, password}),
     loginUser |-> Call(FALSE, "login", {user_id, password, device})]

FriendSession ==
    [createFriendApplication |-> Call(TRUE, "add_friend", {user_id}),
     applyFriendApplication |-> Call(TRUE, "accept_friend_verification", {user_id}),
     rejectFriendApplication |-> Call(TRUE, "reject_friend_verification", {user_id})]

GroupSession ==
    [createGroup |-> Call(TRUE, "create_group", {}),
     createGroupApplication |-> Call(TRUE, "add_group", {group_id}),
     applyGroupApplication |-> Call(TRUE, "accept_group_verification", {group_id, user_id}),
     rejectGroupApplication |-> Call(TRUE, "reject_group_verification", {group_id, user_id})]

MessageSession ==
    [sendFriendMessage |-> Call(TRUE, "send_friend_message", {user_id, message}),
     sendGroupMessage |-> Call(TRUE, "send_group_message", {group_id, message}),
     removeFriend |-> Call(TRUE, "remove_friend", {user_id}),
     leaveGroup |-> Call(TRUE, "leave_group", {group_id})]

Session == Merge(Merge(AccountSession, FriendSession), Merge(GroupSession, MessageSession))

-----------------------------------------------------------------------------
(* The commands a user of the client types, with the option every parameter *)
(* is read from and the function of Session that is called.                *)

Command(call, options) == [call |-> call, options |-> options]
UserOption == [userid |-> user_id]
GroupIdOption == [groupid |-> group_id]
BothOptions == [groupid |-> group_id, userid |-> user_id]

AccountCommand ==
    [registerUser |-> Command("registerUser", [email |-> email, password |-> password]),
     loginUser |-> Command("loginUser", [userid |-> user_id, password |-> password])]

FriendCommand ==
    [createFriendApplication |-> Command("createFriendApplication", UserOption),
     acceptFriendApplication |-> Command("applyFriendApplication", UserOption),
     rejectFriendApplication |-> Command("rejectFriendApplication", UserOption)]

GroupCommand ==
    [createGroup |-> Command("createGroup", <<>>),
     createGroupApplication |-> Command("createGroupApplication", GroupIdOption),
     acceptGroupApplication |-> Command("applyGroupApplication", BothOptions),
     rejectGroupApplication |-> Command("rejectGroupApplication", BothOptions)]

MessageCommand ==
    [sendFriendMessage |-> Command("sendFriendMessage", [userid |-> user_id, message |-> message]),
     sendGroupMessage |-> Command("sendGroupMessage", [groupid |-> group_id, message |-> message]),
     removeFriend |-> Command("removeFriend", UserOption),
     leaveGroup |-> Command("leaveGroup", GroupIdOption)]

\* CommandManager.
CommandMap == Merge(Merge(AccountCommand, FriendCommand), Merge(GroupCommand, MessageCommand))
=============================================================================
