-------------------------- MODULE TestClientProofs --------------------------
(***************************************************************************)
(* Proofs about the test client, for any lines, ids and bounds.             *)
(*                                                                         *)
(* The one thing to find is what is on its way between client and server:   *)
(* while main does not wait nothing with an id other than 0 is, and while   *)
(* it waits only its own request or answer is, at most once (FlightInv).    *)
(* Everything about ids, callbacks and futures follows from that; the       *)
(* heartbeats have an invariant of their own about the two timers.          *)
(***************************************************************************)
EXTENDS TestClient, TLAPS, FiniteSetTheorems, SequenceTheorems

-----------------------------------------------------------------------------
(* The invariant.                                                          *)

\* The request or answer of the call main waits for; 0 is no request's.
OwnOrPushed(p) ==
    \/ p.id = 0
    \/ main = "get" /\ future = None /\ p.id = call.id /\ p.request = call.request

\* What is on its way to the client, in the order in which it is handled.
Arriving == 1 .. Len(buffer) + Len(wire)
At(i) == IF i <= Len(buffer) THEN buffer[i] ELSE wire[i - Len(buffer)]

FlightInv ==
    /\ \A i \in Arriving : OwnOrPushed(At(i))
    /\ \A i \in DOMAIN sent : OwnOrPushed(sent[i])
    /\ \A i, j \in Arriving : At(i).id # 0 /\ At(j).id # 0 => i = j
    /\ \A i, j \in DOMAIN sent : sent[i].id # 0 /\ sent[j].id # 0 => i = j
    /\ \A i \in Arriving, j \in DOMAIN sent : At(i).id = 0 \/ sent[j].id = 0

\* A call that has no answer yet has its id, from then on its callback, and no
\* callback is being erased.
CallInv ==
    /\ main # "undefined"
    /\ main = "connect" => call = None
    /\ main \in {"register", "send"} => future = None
    /\ main \in {"register", "send", "get"} /\ future = None =>
          erasing = None /\ call.id \in requestID_set
    /\ main \in {"send", "get"} /\ future = None =>
          /\ call.id \in DOMAIN requestID2Function_map
          /\ requestID2Function_map[call.id] = call.request
    /\ main = "get" /\ future # None => future.request = call.request
    /\ erasing # None => erasing \notin requestID_set

\* The work thread has nothing to do before connect.
StartInv == main = "connect" => net = "idle"

\* The heartbeat of a lost connection ends before the next attempt begins: while
\* the retry timer runs, the heartbeat's expires no later.
HeartInv ==
    /\ net # "reading" => ~is_receiving
    /\ net \in {"idle", "connect", "handshake"} =>
          \A i \in DOMAIN heart_beat : heart_beat[i] = None
    /\ net = "retry" =>
          \A i \in DOMAIN heart_beat : heart_beat[i] \in {None, Writing} \cup (0 .. retry_timer)
    /\ \A i, j \in DOMAIN heart_beat : heart_beat[i] # None /\ heart_beat[j] # None => i = j

\* The request that main makes is one the server has.
Understood(request) == Verdict(request) \in {"login", "execute"}
RequestInv == (call # None => Understood(call)) /\ UnderstoodByServer

IInv ==
    /\ TypeOK /\ StartInv /\ FlightInv /\ CallInv /\ PendingHasCallback /\ HeartInv
    /\ RequestInv
-----------------------------------------------------------------------------
(* The tables.                                                             *)

\* The table t has the entries of f.
PartOf(f, t) == \A x \in DOMAIN f : x \in DOMAIN t /\ t[x] = f[x]

\* The command c makes a call of Session, and the server has its function and
\* asks for no parameter that it does not carry.
CallFits(c) ==
    LET s == Session[CommandMap[c].call]
    IN  /\ CommandMap[c].call \in DOMAIN Session
        /\ \/ s.function = "login" /\ {user_id, password, device} \subseteq s.parameters
           \/ /\ s.function # "login" /\ s.function \in DOMAIN FunctionMap
              /\ FunctionMap[s.function] \subseteq s.parameters

\* Every command of the client makes a request that the server can execute.
LEMMA CommandsFit == \A c \in DOMAIN CommandMap : CallFits(c)
<1>1. /\ PartOf(AccountCommand, CommandMap)
      /\ PartOf(FriendCommand, CommandMap)
      /\ PartOf(GroupCommand, CommandMap)
      /\ PartOf(MessageCommand, CommandMap)
  BY DEF PartOf, Merge, CommandMap, AccountCommand, FriendCommand, GroupCommand, MessageCommand
<1>2. /\ PartOf(AccountSession, Session)
      /\ PartOf(FriendSession, Session)
      /\ PartOf(GroupSession, Session)
      /\ PartOf(MessageSession, Session)
  BY DEF PartOf, Merge, Session, AccountSession, FriendSession, GroupSession, MessageSession
<1>3. /\ PartOf(AccountOption, FunctionMap)
      /\ PartOf(FriendOption, FunctionMap)
      /\ PartOf(GroupOption, FunctionMap)
      /\ PartOf(MessageOption, FunctionMap)
  BY DEF PartOf, Merge, FunctionMap, AccountOption, FriendOption, GroupOption, MessageOption
<1>4. DOMAIN CommandMap =
        {"registerUser", "loginUser", "createFriendApplication", "acceptFriendApplication",
         "rejectFriendApplication", "createGroup", "createGroupApplication",
         "acceptGroupApplication", "rejectGroupApplication", "sendFriendMessage",
         "sendGroupMessage", "removeFriend", "leaveGroup"}
  BY DEF Merge, CommandMap, AccountCommand, FriendCommand, GroupCommand, MessageCommand
<1> USE DEF PartOf, CallFits, Command, Call
<1>5. CallFits("registerUser")
  BY <1>1, <1>2, <1>3 DEF AccountCommand, AccountSession, AccountOption
<1>6. CallFits("loginUser")
  BY <1>1, <1>2, <1>3 DEF AccountCommand, AccountSession, AccountOption
<1>7. CallFits("createFriendApplication")
  BY <1>1, <1>2, <1>3 DEF FriendCommand, FriendSession, FriendOption
<1>8. CallFits("acceptFriendApplication")
  BY <1>1, <1>2, <1>3 DEF FriendCommand, FriendSession, FriendOption
<1>9. CallFits("rejectFriendApplication")
  BY <1>1, <1>2, <1>3 DEF FriendCommand, FriendSession, FriendOption
<1>10. CallFits("createGroup")
  BY <1>1, <1>2, <1>3 DEF GroupCommand, GroupSession, GroupOption
<1>11. CallFits("createGroupApplication")
  BY <1>1, <1>2, <1>3 DEF GroupCommand, GroupSession, GroupOption
<1>12. CallFits("acceptGroupApplication")
  BY <1>1, <1>2, <1>3 DEF GroupCommand, GroupSession, GroupOption
<1>13. CallFits("rejectGroupApplication")
  BY <1>1, <1>2, <1>3 DEF GroupCommand, GroupSession, GroupOption
<1>14. CallFits("sendFriendMessage")
  BY <1>1, <1>2, <1>3 DEF MessageCommand, MessageSession, MessageOption
<1>15. CallFits("sendGroupMessage")
  BY <1>1, <1>2, <1>3 DEF MessageCommand, MessageSession, MessageOption
<1>16. CallFits("removeFriend")
  BY <1>1, <1>2, <1>3 DEF MessageCommand, MessageSession, FriendOption
<1>17. CallFits("leaveGroup")
  BY <1>1, <1>2, <1>3 DEF MessageCommand, MessageSession, GroupOption
<1> HIDE DEF PartOf, CallFits
<1> QED BY <1>4, <1>5, <1>6, <1>7, <1>8, <1>9, <1>10, <1>11, <1>12, <1>13, <1>14, <1>15, <1>16,
           <1>17

-----------------------------------------------------------------------------
(* The parts of TypeOK, and the steps that matter to each part of the       *)
(* invariant.                                                              *)

BoolTypeOK ==
    /\ has_login \in BOOLEAN /\ is_receiving \in BOOLEAN
    /\ can_be_used \in BOOLEAN /\ tcp \in BOOLEAN

MainTypeOK ==
    /\ main \in {"connect", "sleep", "prompt", "register", "send", "get",
                 "undefined", "ended"}
    /\ call \in Requests \cup {None}
    /\ future \in Packages \cup {None}
    /\ requests \in 0 .. MaxRequests
    /\ main \in {"register", "send", "get"} => call # None
    /\ main \in {"sleep", "prompt"} => call = None

NetTypeOK ==
    /\ net \in {"idle", "connect", "handshake", "reading", "retry", "returned"}
    /\ attempt \in 0 .. MaxAttempts
    /\ net = "returned" <=> attempt = MaxAttempts
    /\ retry_timer \in 0 .. RetryDelay
    /\ heart_beat \in [0 .. MaxAttempts - 1 -> {None, Writing} \cup (0 .. HeartBeatDelay)]

IdTypeOK ==
    /\ requestID_set \subseteq Ids
    /\ DOMAIN requestID2Function_map \subseteq Ids
    /\ erasing \in Ids \cup {None}

WireTypeOK == sent \in Seq(Requests) /\ wire \in Seq(Packages) /\ buffer \in Seq(Packages)

\* TypeOK is the conjunction of these parts.
LEMMA TypeParts ==
    TypeOK <=> BoolTypeOK /\ MainTypeOK /\ NetTypeOK /\ IdTypeOK /\ WireTypeOK
BY Zenon DEF TypeOK, BoolTypeOK, MainTypeOK, NetTypeOK, IdTypeOK, WireTypeOK

\* The same in the next state.
LEMMA TypePartsNext ==
    TypeOK' <=> BoolTypeOK' /\ MainTypeOK' /\ NetTypeOK' /\ IdTypeOK' /\ WireTypeOK'
BY Zenon DEF TypeOK, BoolTypeOK, MainTypeOK, NetTypeOK, IdTypeOK, WireTypeOK

\* What main, the ids, the callbacks and what is on its way depend on.
coreVars == <<call, future, requests, idVars, sent, wire, buffer>>

\* The connection loses what it carries.
Drop == sent' = <<>> /\ wire' = <<>> /\ UNCHANGED <<mainVars, idVars, buffer>>

\* The steps that change main, a call, an id, a callback or what is on its way.
LEMMA CoreMoves ==
    ASSUME [Next]_vars
    PROVE  \/ connect \/ End \/ Wake
           \/ \E c \in DOMAIN CommandMap, line \in Lines : Execute(c, line)
           \/ RegisterCallback \/ SendData \/ Get \/ Drop
           \/ \E k \in 1 .. MaxPackages : ReadSome(k)
           \/ EraseCallback \/ Push
           \/ \E state \in {"success", "error"} : Serve(state)
           \/ UNCHANGED <<main, coreVars>>
<1>1. CASE UNCHANGED vars
  BY <1>1 DEF vars, mainVars, idVars, wireVars, coreVars
<1>2. CASE Main
  BY <1>2 DEF Main
<1>3. CASE Work
  BY <1>3 DEF Work, Connected, Handshake, Fail, Retry, HeartBeatWake, HeartBeatWritten, Tick,
              Drop, mainVars, idVars, wireVars, coreVars
<1>4. CASE Outside
  BY <1>4 DEF Outside, Lose, Drop
<1> QED BY <1>1, <1>2, <1>3, <1>4 DEF Next

\* The steps that change the state of the connection or of a heartbeat.
LEMMA NetMoves ==
    ASSUME [Next]_vars
    PROVE  \/ connect \/ Connected \/ Handshake \/ Fail \/ Retry
           \/ \E i \in DOMAIN heart_beat : HeartBeatWake(i) \/ HeartBeatWritten(i)
           \/ Tick
           \/ UNCHANGED <<netVars, heart_beat>>
<1>1. CASE UNCHANGED vars
  BY <1>1 DEF vars
<1>2. CASE Main
  BY <1>2 DEF Main, End, Wake, Execute, RegisterCallback, SendData, Get
<1>3. CASE Work
  BY <1>3 DEF Work, ReadSome, EraseCallback
<1>4. CASE Outside
  BY <1>4 DEF Outside, Lose, Push, Serve
<1> QED BY <1>1, <1>2, <1>3, <1>4 DEF Next

-----------------------------------------------------------------------------
(* The connection and the heartbeats.                                      *)

\* The types of the connection's state.
LEMMA NetTypes ==
    ASSUME NetTypeOK, StartInv, [Next]_vars
    PROVE  NetTypeOK'
<1> USE DEF NetTypeOK, MaxAttempts, RetryDelay, HeartBeatDelay
<1>1. CASE connect
  BY <1>1 DEF connect, StartInv
<1>2. CASE Connected
  BY <1>2 DEF Connected
<1>3. CASE Handshake
  BY <1>3 DEF Handshake
<1>4. CASE Fail
  BY <1>4 DEF Fail
<1>5. CASE Retry
  BY <1>5 DEF Retry, Attempts
<1>6. ASSUME NEW i \in DOMAIN heart_beat, HeartBeatWake(i) PROVE NetTypeOK'
  BY <1>6 DEF HeartBeatWake, netVars
<1>7. ASSUME NEW i \in DOMAIN heart_beat, HeartBeatWritten(i) PROVE NetTypeOK'
  BY <1>7 DEF HeartBeatWritten, netVars
<1>8. CASE Tick
  BY <1>8, MarksAssumption DEF Tick, Count
<1>9. CASE UNCHANGED <<netVars, heart_beat>>
  BY <1>9 DEF netVars
<1> QED BY <1>1, <1>2, <1>3, <1>4, <1>5, <1>6, <1>7, <1>8, <1>9, NetMoves

\* The client does not connect before main asks for it.
LEMMA Starts ==
    ASSUME StartInv, [Next]_vars
    PROVE  StartInv'
<1>1. main' = "connect" => main = "connect" /\ ~connect
  BY CoreMoves DEF connect, End, Wake, Execute, MakeRequest, RegisterCallback, SendData, Get,
     Drop, ReadSome, call_received_stdstring, EraseCallback, Push, Serve, mainVars
<1>2. net = "idle" => connect \/ net' = "idle"
  BY NetMoves DEF Connected, Handshake, Fail, Retry, HeartBeatWake, HeartBeatWritten, Tick, netVars
<1> QED BY <1>1, <1>2 DEF StartInv

\* A heartbeat has ended when the next one starts.
LEMMA Hearts ==
    ASSUME NetTypeOK, StartInv, HeartInv, [Next]_vars
    PROVE  HeartInv'
<1> USE DEF NetTypeOK, HeartInv, MaxAttempts, RetryDelay, HeartBeatDelay
<1>1. CASE connect
  BY <1>1 DEF connect, StartInv
<1>2. CASE Connected
  BY <1>2 DEF Connected
<1>3. CASE Handshake
  BY <1>3 DEF Handshake
<1>4. CASE Fail
  BY <1>4 DEF Fail
<1>5. CASE Retry
  BY <1>5 DEF Retry, Attempts
<1>6. ASSUME NEW i \in DOMAIN heart_beat, HeartBeatWake(i) PROVE HeartInv'
  BY <1>6, MarksAssumption DEF HeartBeatWake, netVars
<1>7. ASSUME NEW i \in DOMAIN heart_beat, HeartBeatWritten(i) PROVE HeartInv'
  BY <1>7, MarksAssumption DEF HeartBeatWritten, netVars
<1>8. CASE Tick
  BY <1>8, MarksAssumption DEF Tick, Count
<1>9. CASE UNCHANGED <<netVars, heart_beat>>
  BY <1>9 DEF netVars
<1> QED BY <1>1, <1>2, <1>3, <1>4, <1>5, <1>6, <1>7, <1>8, <1>9, NetMoves

\* At most one heartbeat, as a number.
LEMMA OneHeart == HeartInv => OneHeartbeat
<1> DEFINE H == {i \in DOMAIN heart_beat : heart_beat[i] # None}
<1> SUFFICES ASSUME HeartInv PROVE Cardinality(H) <= 1
  BY DEF OneHeartbeat
<1>1. \A i, j \in H : i = j
  BY DEF HeartInv
<1> HIDE DEF H
<1>2. CASE H = {}
  BY <1>2, FS_EmptySet
<1>3. CASE H # {}
  <2>1. PICK i \in H : TRUE
    BY <1>3
  <2>2. H = {i}
    BY <1>1, <2>1
  <2>3. Cardinality(H) = 1
    BY <2>2, FS_Singleton, Zenon
  <2> QED BY <2>3
<1> QED BY <1>2, <1>3

-----------------------------------------------------------------------------
(* What a command, a read and an answer of the server do.                  *)

\* An option that a command requires has a value once parse has accepted the line.
LEMMA RequiredAreSet ==
    ASSUME NEW option_types, NEW line, ~ParseThrows(option_types, line),
           NEW o \in DOMAIN option_types, option_types[o] = "OPT_REQUIRED"
    PROVE  o \in DOMAIN ArgsMap(option_types, line)
BY DEF ParseThrows, ArgsMap

\* A command that is executed makes a request with an id no other request has.
LEMMA Executes ==
    ASSUME MainTypeOK, NEW c \in DOMAIN CommandMap, NEW line \in Lines, Execute(c, line)
    PROVE  /\ main = "prompt" /\ main' = "register" /\ erasing = None
           /\ requests < MaxRequests /\ requests' = requests + 1 /\ future' = None
           /\ \E id \in Ids \ requestID_set :
                 /\ requestID_set' = requestID_set \cup {id}
                 /\ call'.id = id /\ call'.request = requests + 1
                 /\ call' \in Requests /\ Understood(call')
           /\ UNCHANGED <<requestID2Function_map, erasing, sent, wire, buffer>>
<1> DEFINE options == CommandMap[c].options
           types == [o \in DOMAIN options |-> "OPT_REQUIRED"]
           s == Session[CommandMap[c].call]
<1>1. /\ main = "prompt" /\ requests < MaxRequests /\ ~ParseThrows(types, line)
      /\ UNCHANGED <<requestID2Function_map, erasing, sent, wire, buffer>>
  BY DEF Execute, wireVars
<1>2. DOMAIN options \subseteq DOMAIN ArgsMap(types, line)
  BY <1>1, RequiredAreSet
<1>3. MakeRequest(s)
  BY <1>2 DEF Execute
<1>4. PICK id \in Ids \ requestID_set :
         /\ requestID_set' = requestID_set \cup {id}
         /\ call' = [function |-> s.function, parameters |-> s.parameters,
                     id |-> id, request |-> requests + 1]
  BY <1>3 DEF MakeRequest
<1>5. /\ main' = "register" /\ erasing = None /\ requests' = requests + 1 /\ future' = None
  BY <1>3 DEF MakeRequest, LocksFree
<1>6. CallFits(c)
  BY CommandsFit
<1>7. requests + 1 \in 1 .. MaxRequests
  BY <1>1, BoundsAssumption DEF MainTypeOK
<1>8. call' \in Requests
  <2>1. CommandMap[c].call \in DOMAIN Session
    BY <1>6 DEF CallFits
  <2>2. /\ s.function \in {Session[x].function : x \in DOMAIN Session}
        /\ s.parameters \in {Session[x].parameters : x \in DOMAIN Session}
    BY <2>1
  <2> HIDE DEF s
  <2> QED BY <1>4, <1>7, <2>2 DEF Requests
<1>9. Understood(call')
  <2> DEFINE f == s.function
             ps == s.parameters
  <2>1. call'.function = f /\ call'.parameters = ps
    BY <1>4
  <2>2. \/ f = "login" /\ {user_id, password, device} \subseteq ps
        \/ f # "login" /\ f \in DOMAIN FunctionMap /\ FunctionMap[f] \subseteq ps
    BY <1>6 DEF CallFits
  <2> HIDE DEF f, ps
  <2>3. CASE f = "login"
    <3>1. call'.function = "login" /\ {user_id, password, device} \subseteq call'.parameters
      BY <2>1, <2>2, <2>3
    <3>2. Verdict(call)' = "login"
      BY <3>1 DEF Verdict
    <3> QED BY <3>2 DEF Understood
  <2>4. CASE f # "login"
    <3>1. Verdict(call)' = "execute"
      BY <2>1, <2>2, <2>4 DEF Verdict
    <3> QED BY <3>1 DEF Understood
  <2> QED BY <2>3, <2>4
<1> QED BY <1>1, <1>4, <1>5, <1>8, <1>9

\* The types of what a package is.
LEMMA PackageTypes ==
    /\ \A p \in Packages : p.id \in Nat /\ (p.id # 0 => p.id \in Ids)
    /\ \A r \in Requests : r.id \in Ids /\ r.id \in Nat /\ r.request \in 1 .. MaxRequests
    /\ Pushed \in Packages /\ Pushed.id = 0
<1>1. ASSUME NEW r \in Requests
      PROVE  r.id \in Ids /\ r.id \in Nat /\ r.request \in 1 .. MaxRequests
  <2> DEFINE F == {Session[x].function : x \in DOMAIN Session}
             P == {Session[x].parameters : x \in DOMAIN Session}
  <2>1. r \in [function : F, parameters : P, id : Ids, request : 1 .. MaxRequests]
    BY DEF Requests
  <2> HIDE DEF F, P
  <2> QED BY <2>1, IdsAssumption
<1>2. Pushed \in Packages /\ Pushed.id = 0
  BY DEF Packages, Pushed, Package
<1>3. ASSUME NEW p \in Packages PROVE p.id \in Nat /\ (p.id # 0 => p.id \in Ids)
  <2>1. CASE p = Pushed
    BY <1>2, <2>1
  <2>2. CASE p \in [id : Ids, request : 1 .. MaxRequests, state : {"success", "error"}]
    <3>1. p.id \in Ids
      BY <2>2, Zenon
    <3> QED BY <3>1, IdsAssumption
  <2> QED BY <2>1, <2>2 DEF Packages
<1> QED BY <1>1, <1>2, <1>3

\* A read handles what arrived first, and the rest moves up.
LEMMA Reads ==
    ASSUME WireTypeOK, NEW k \in 1 .. MaxPackages, ReadSome(k)
    PROVE  /\ 1 \in Arriving /\ At(1) \in Packages /\ call_received_stdstring(At(1))
           /\ \A i \in Arriving' : i + 1 \in Arriving /\ At(i)' = At(i + 1)
           /\ WireTypeOK' /\ UNCHANGED sent
<1> DEFINE read == SubSeq(wire, 1, k)
           package == buffer \o read
<1> USE BoundsAssumption
<1>1. /\ k \in Nat /\ 1 <= k /\ k <= Len(wire)
      /\ call_received_stdstring(Head(package)) /\ buffer' = Tail(package)
      /\ wire' = SubSeq(wire, k + 1, Len(wire)) /\ sent' = sent
  BY DEF ReadSome
<1>2. /\ buffer \in Seq(Packages) /\ wire \in Seq(Packages) /\ sent \in Seq(Requests)
      /\ Len(buffer) \in Nat /\ Len(wire) \in Nat
  BY DEF WireTypeOK
<1>3. /\ read \in Seq(Packages) /\ Len(read) = k /\ \A i \in 1 .. k : read[i] = wire[i]
  BY <1>1, <1>2
<1>4. /\ wire' \in Seq(Packages) /\ Len(wire') = Len(wire) - k
      /\ \A i \in 1 .. Len(wire) - k : wire'[i] = wire[k + i]
  BY <1>1, <1>2
<1> HIDE DEF read
<1>5. /\ package \in Seq(Packages) /\ Len(package) = Len(buffer) + k
      /\ \A i \in 1 .. Len(buffer) : package[i] = buffer[i]
      /\ \A i \in 1 .. k : package[Len(buffer) + i] = wire[i]
  <2>1. package \in Seq(Packages) /\ Len(package) = Len(buffer) + k
    BY <1>2, <1>3, ConcatProperties
  <2>2. \A i \in 1 .. Len(buffer) + k :
           package[i] = IF i <= Len(buffer) THEN buffer[i] ELSE read[i - Len(buffer)]
    BY <1>2, <1>3, ConcatProperties
  <2> QED BY <1>1, <1>2, <1>3, <2>1, <2>2
<1> HIDE DEF package
<1>6. /\ buffer' \in Seq(Packages) /\ Len(buffer') = Len(buffer) + k - 1
      /\ \A i \in 1 .. Len(buffer) + k - 1 : buffer'[i] = package[i + 1]
      /\ Head(package) = package[1] /\ package[1] \in Packages
  <2>1. package # <<>> /\ Len(package) \in Nat /\ Len(package) >= 1
    BY <1>1, <1>2, <1>5
  <2>2. /\ Head(package) = package[1] /\ package[1] \in Packages
        /\ buffer' \in Seq(Packages) /\ Len(buffer') = Len(package) - 1
        /\ \A i \in 1 .. Len(package) - 1 : buffer'[i] = package[i + 1]
    BY <1>1, <1>5, <2>1, HeadTailProperties
  <2> QED BY <1>1, <1>5, <2>2
<1>7. 1 \in Arriving /\ At(1) = package[1]
  BY <1>1, <1>2, <1>5 DEF Arriving, At
<1>8. ASSUME NEW i \in Arriving' PROVE i + 1 \in Arriving /\ At(i)' = At(i + 1)
  <2>1. i \in 1 .. Len(buffer) + Len(wire) - 1
    BY <1>1, <1>2, <1>4, <1>6 DEF Arriving
  <2>2. CASE i <= Len(buffer')
    BY <1>1, <1>2, <1>5, <1>6, <2>1, <2>2 DEF At, Arriving
  <2>3. CASE ~(i <= Len(buffer'))
    <3> DEFINE b == Len(buffer)
               w == Len(wire)
    <3>1. /\ b \in Nat /\ w \in Nat /\ i \in 1 .. b + w - 1 /\ ~(i <= b + k - 1) /\ k >= 1
          /\ Len(buffer') = b + k - 1
      BY <1>1, <1>2, <1>6, <2>1, <2>3
    <3>2. \A n \in 1 .. w - k : wire'[n] = wire[k + n]
      BY <1>4
    <3> HIDE DEF b, w
    <3>3. /\ i - (b + k - 1) \in 1 .. w - k
          /\ k + (i - (b + k - 1)) = (i + 1) - b
          /\ ~(i + 1 <= b) /\ i + 1 \in 1 .. b + w
      BY <3>1
    <3>4. At(i)' = wire'[i - (b + k - 1)]
      BY <2>3, <3>1 DEF At
    <3>5. At(i)' = wire[(i + 1) - b]
      BY <3>2, <3>3, <3>4
    <3>6. At(i + 1) = wire[(i + 1) - b]
      BY <3>3 DEF At, b
    <3> QED BY <3>3, <3>5, <3>6 DEF Arriving, b, w
  <2> QED BY <2>2, <2>3
<1> QED BY <1>1, <1>2, <1>4, <1>6, <1>7, <1>8 DEF WireTypeOK
\* The server's answer to the first request on its way takes that request's place
\* at the end of what arrives.
LEMMA Serves ==
    ASSUME WireTypeOK, NEW state \in {"success", "error"}, Serve(state)
    PROVE  /\ sent # <<>> /\ sent[1] \in Requests /\ sent' = Tail(sent)
           /\ wire' = Append(wire, Package(sent[1].id, sent[1].request, state))
           /\ Package(sent[1].id, sent[1].request, state) \in Packages
           /\ WireTypeOK' /\ UNCHANGED <<main, call, future, requests, idVars, buffer>>
<1>1. /\ sent # <<>> /\ sent \in Seq(Requests) /\ wire \in Seq(Packages)
      /\ buffer \in Seq(Packages)
      /\ sent' = Tail(sent) /\ UNCHANGED <<main, call, future, requests, idVars, buffer>>
      /\ wire' = Append(wire, Package(Head(sent).id, Head(sent).request, state))
  BY DEF Serve, WireTypeOK, mainVars
<1>2. Head(sent) = sent[1] /\ sent[1] \in Requests /\ Tail(sent) \in Seq(Requests)
  BY <1>1
<1>3. Package(sent[1].id, sent[1].request, state) \in Packages
  BY <1>2, PackageTypes DEF Package, Packages
<1>4. WireTypeOK'
  BY <1>1, <1>2, <1>3 DEF WireTypeOK
<1> QED BY <1>1, <1>2, <1>3, <1>4

-----------------------------------------------------------------------------
(* Types.                                                                  *)

\* The Boolean variables.
LEMMA BoolTypes ==
    ASSUME BoolTypeOK, [Next]_vars
    PROVE  BoolTypeOK'
<1> USE DEF BoolTypeOK, mainVars, netVars, wireVars
<1>1. CASE UNCHANGED vars
  BY <1>1 DEF vars
<1>2. CASE Main
  BY <1>2 DEF Main, connect, End, Wake, Execute, RegisterCallback, SendData, Get
<1>3. CASE Work
  BY <1>3 DEF Work, Connected, Handshake, Fail, Retry, ReadSome, call_received_stdstring,
              EraseCallback, HeartBeatWake, HeartBeatWritten, Tick
<1>4. CASE Outside
  BY <1>4 DEF Outside, Push, Lose, Serve
<1> QED BY <1>1, <1>2, <1>3, <1>4 DEF Next

\* The types of main, its call, and the ids.
LEMMA MainTypes ==
    ASSUME MainTypeOK, IdTypeOK, WireTypeOK, CallInv, [Next]_vars
    PROVE  MainTypeOK' /\ IdTypeOK'
<1> USE DEF MainTypeOK, IdTypeOK, mainVars, idVars
<1>1. CASE connect
  BY <1>1 DEF connect, CallInv
<1>2. CASE End
  BY <1>2 DEF End
<1>3. CASE Wake
  BY <1>3 DEF Wake
<1>4. ASSUME NEW c \in DOMAIN CommandMap, NEW line \in Lines, Execute(c, line)
      PROVE  MainTypeOK' /\ IdTypeOK'
  <2>1. call' \in Requests /\ requestID_set' \subseteq Ids
    BY <1>4, Executes
  <2>2. requests' \in 0 .. MaxRequests
    BY <1>4, Executes, BoundsAssumption
  <2> QED BY <1>4, <2>1, <2>2, Executes, MarksAssumption
<1>5. CASE RegisterCallback
  BY <1>5, MarksAssumption, PackageTypes DEF RegisterCallback
<1>6. CASE SendData
  BY <1>6 DEF SendData
<1>7. CASE Get
  BY <1>7 DEF Get
<1>8. CASE Drop
  BY <1>8 DEF Drop
<1>9. ASSUME NEW k \in 1 .. MaxPackages, ReadSome(k)
      PROVE  MainTypeOK' /\ IdTypeOK'
  <2> DEFINE p == At(1)
  <2>1. p \in Packages /\ call_received_stdstring(p)
    BY <1>9, Reads
  <2> HIDE DEF p
  <2>2. p.id \in Nat /\ (p.id # 0 => p.id \in Ids)
    BY <2>1, PackageTypes
  <2>3. CASE ~Answers(p)
    BY <2>1, <2>3 DEF call_received_stdstring
  <2>4. CASE Answers(p)
    BY <2>1, <2>2, <2>4 DEF call_received_stdstring, TakeId
  <2> QED BY <2>3, <2>4
<1>10. CASE EraseCallback
  BY <1>10 DEF EraseCallback
<1>11. CASE Push
  BY <1>11 DEF Push
<1>12. ASSUME NEW state \in {"success", "error"}, Serve(state)
       PROVE  MainTypeOK' /\ IdTypeOK'
  BY <1>12 DEF Serve
<1>13. CASE UNCHANGED <<main, coreVars>>
  BY <1>13 DEF coreVars
<1> QED BY <1>1, <1>2, <1>3, <1>4, <1>5, <1>6, <1>7, <1>8, <1>9, <1>10, <1>11, <1>12, <1>13,
           CoreMoves

\* The types of what is on its way.
LEMMA WireTypes ==
    ASSUME MainTypeOK, WireTypeOK, [Next]_vars
    PROVE  WireTypeOK'
<1>1. CASE UNCHANGED <<sent, wire, buffer>>
  BY <1>1 DEF WireTypeOK
<1>2. CASE SendData
  <2>1. call \in Requests
    BY <1>2 DEF SendData, MainTypeOK
  <2>2. sent' \in {sent, Append(sent, call)} /\ UNCHANGED <<wire, buffer>>
    BY <1>2 DEF SendData
  <2> QED BY <2>1, <2>2 DEF WireTypeOK
<1>3. CASE Drop
  BY <1>3 DEF Drop, WireTypeOK
<1>4. CASE \E k \in 1 .. MaxPackages : ReadSome(k)
  BY <1>4, Reads
<1>5. CASE Push
  BY <1>5, PackageTypes DEF Push, WireTypeOK
<1>6. CASE \E state \in {"success", "error"} : Serve(state)
  BY <1>6, Serves
<1> QED BY <1>1, <1>2, <1>3, <1>4, <1>5, <1>6, CoreMoves
        DEF connect, End, Wake, Execute, RegisterCallback, Get, EraseCallback, wireVars, coreVars
-----------------------------------------------------------------------------
(* Calls, ids and callbacks.                                               *)

\* What a read handles is nobody's, or the answer to the call main waits for.
LEMMA Handles ==
    ASSUME WireTypeOK, IdTypeOK, MainTypeOK, FlightInv, CallInv,
           NEW k \in 1 .. MaxPackages, ReadSome(k)
    PROVE  \/ At(1).id = 0 /\ UNCHANGED <<main, call, future, requests, idVars>>
           \/ /\ main = "get" /\ future = None /\ erasing = None
              /\ call # None /\ At(1).id = call.id /\ call.id # 0
              /\ future' = At(1) /\ At(1) # None /\ At(1).request = call.request
              /\ erasing' = call.id /\ requestID_set' = requestID_set \ {call.id}
              /\ UNCHANGED <<main, call, requests, requestID2Function_map>>
<1> DEFINE p == At(1)
<1>1. p \in Packages /\ call_received_stdstring(p) /\ OwnOrPushed(p) /\ p # None
  BY Reads, MarksAssumption DEF FlightInv
<1> HIDE DEF p
<1>2. CASE p.id = 0
  BY <1>1, <1>2 DEF call_received_stdstring, Answers, mainVars, idVars, p
<1>3. CASE p.id # 0
  <2>1. /\ main = "get" /\ future = None /\ p.id = call.id /\ p.request = call.request
    BY <1>1, <1>3 DEF OwnOrPushed
  <2>2. /\ erasing = None /\ call.id \in requestID_set /\ call # None
        /\ call.id \in DOMAIN requestID2Function_map
        /\ requestID2Function_map[call.id] = call.request
    BY <2>1 DEF CallInv, MainTypeOK
  <2>3. Answers(p)
    BY <1>3, <2>1, <2>2 DEF Answers
  <2>4. /\ requestID_set' = requestID_set \ {call.id} /\ erasing' = call.id /\ future' = p
        /\ UNCHANGED <<main, call, requests, requestID2Function_map>>
    BY <1>1, <2>1, <2>2, <2>3 DEF call_received_stdstring, TakeId
  <2> QED BY <1>1, <1>3, <2>1, <2>2, <2>4 DEF p
<1> QED BY <1>2, <1>3

\* Calls, ids, callbacks and the answer of the future.
LEMMA Calls ==
    ASSUME MainTypeOK, IdTypeOK, WireTypeOK, FlightInv, CallInv, PendingHasCallback, [Next]_vars
    PROVE  CallInv' /\ PendingHasCallback'
<1> USE DEF CallInv, PendingHasCallback, mainVars, idVars
<1>1. CASE connect
  BY <1>1 DEF connect
<1>2. CASE End
  BY <1>2 DEF End
<1>3. CASE Wake
  BY <1>3 DEF Wake
<1>4. ASSUME NEW c \in DOMAIN CommandMap, NEW line \in Lines, Execute(c, line)
      PROVE  CallInv' /\ PendingHasCallback'
  BY <1>4, Executes
<1>5. CASE RegisterCallback
  BY <1>5 DEF RegisterCallback
<1>6. CASE SendData
  BY <1>6 DEF SendData
<1>7. CASE Get
  BY <1>7 DEF Get
<1>8. CASE Drop
  BY <1>8 DEF Drop
<1>9. ASSUME NEW k \in 1 .. MaxPackages, ReadSome(k)
      PROVE  CallInv' /\ PendingHasCallback'
  <2> DEFINE p == At(1)
             Answered ==
                /\ main = "get" /\ future = None /\ erasing = None
                /\ future' = p /\ p # None /\ p.request = call.request
                /\ erasing' = call.id /\ requestID_set' = requestID_set \ {call.id}
                /\ UNCHANGED <<main, call, requests, requestID2Function_map>>
  <2>1. UNCHANGED <<main, call, future, requests, idVars>> \/ Answered
    BY <1>9, Handles
  <2> HIDE DEF p
  <2>2. CASE UNCHANGED <<main, call, future, requests, idVars>>
    BY <2>2
  <2>3. CASE Answered
    <3>1. CallInv'
      BY <2>3
    <3>2. /\ requestID_set \subseteq DOMAIN requestID2Function_map
          /\ DOMAIN requestID2Function_map \subseteq requestID_set
      BY <2>3, IdsAssumption, MarksAssumption DEF IdTypeOK
    <3> HIDE DEF CallInv
    <3>3. PendingHasCallback'
      BY <2>3, <3>2
    <3> QED BY <3>1, <3>3
  <2> QED BY <2>1, <2>2, <2>3
<1>10. CASE EraseCallback
  BY <1>10 DEF EraseCallback
<1>11. CASE Push
  BY <1>11 DEF Push
<1>12. ASSUME NEW state \in {"success", "error"}, Serve(state)
       PROVE  CallInv' /\ PendingHasCallback'
  BY <1>12 DEF Serve
<1>13. CASE UNCHANGED <<main, coreVars>>
  BY <1>13 DEF coreVars
<1> QED BY <1>1, <1>2, <1>3, <1>4, <1>5, <1>6, <1>7, <1>8, <1>9, <1>10, <1>11, <1>12, <1>13,
           CoreMoves
-----------------------------------------------------------------------------
(* What is on its way.                                                     *)

\* Nothing is on its way with an id other than 0 unless main waits without an answer.
LEMMA NothingElse ==
    ASSUME FlightInv, main # "get" \/ future # None
    PROVE  /\ \A i \in Arriving : At(i).id = 0
           /\ \A i \in DOMAIN sent : sent[i].id = 0
BY DEF FlightInv, OwnOrPushed

\* At most the own request or the own answer is on its way.
LEMMA Flight ==
    ASSUME MainTypeOK, IdTypeOK, WireTypeOK, FlightInv, CallInv, [Next]_vars
    PROVE  FlightInv'
<1>0. sent \in Seq(Requests) /\ wire \in Seq(Packages) /\ buffer \in Seq(Packages)
  BY DEF WireTypeOK
<1>1. ASSUME UNCHANGED <<sent, wire, buffer>>, main # "get" \/ future # None
      PROVE  FlightInv'
  <2>1. /\ \A i \in Arriving : At(i).id = 0
        /\ \A i \in DOMAIN sent : sent[i].id = 0
    BY <1>1, NothingElse
  <2> QED BY <1>1, <2>1 DEF FlightInv, OwnOrPushed, Arriving, At
<1>2. ASSUME UNCHANGED <<main, call, future, sent, wire, buffer>>
      PROVE  FlightInv'
  BY <1>2 DEF FlightInv, OwnOrPushed, Arriving, At
<1>3. CASE SendData
  <2>1. main = "send" /\ future = None /\ UNCHANGED <<wire, buffer, future>>
    BY <1>3 DEF SendData, CallInv
  <2>2. /\ \A i \in Arriving : At(i).id = 0
        /\ \A i \in DOMAIN sent : sent[i].id = 0
    BY <2>1, NothingElse
  <2>3. Arriving' = Arriving /\ \A i \in Arriving : At(i)' = At(i)
    BY <2>1 DEF Arriving, At
  <2>4. CASE sent' = sent
    BY <2>2, <2>3, <2>4 DEF FlightInv, OwnOrPushed
  <2>5. CASE sent' # sent
    <3>1. main' = "get" /\ call' = call /\ sent' = Append(sent, call)
      BY <1>3, <2>5 DEF SendData
    <3>2. /\ DOMAIN sent' = 1 .. Len(sent) + 1 /\ DOMAIN sent = 1 .. Len(sent)
          /\ sent'[Len(sent) + 1] = call /\ \A i \in DOMAIN sent : sent'[i] = sent[i]
          /\ Len(sent) \in Nat
      BY <1>0, <3>1
    <3>3. \A i \in DOMAIN sent' : sent'[i].id = 0 \/ i = Len(sent) + 1
      BY <2>2, <3>2
    <3>4. OwnOrPushed(call)'
      BY <2>1, <3>1 DEF OwnOrPushed
    <3>5. \A i \in DOMAIN sent' : OwnOrPushed(sent[i])'
      BY <3>1, <3>2, <3>3, <3>4 DEF OwnOrPushed
    <3> QED BY <2>2, <2>3, <3>3, <3>5 DEF FlightInv, OwnOrPushed
  <2> QED BY <2>4, <2>5
<1>4. CASE Drop
  <2>1. /\ sent' = <<>> /\ wire' = <<>> /\ buffer' = buffer
        /\ UNCHANGED <<main, call, future>>
    BY <1>4 DEF Drop, mainVars
  <2>2. /\ Arriving' = 1 .. Len(buffer) /\ Len(buffer) \in Nat /\ Len(wire) \in Nat
        /\ DOMAIN sent' = {}
    BY <1>0, <2>1 DEF Arriving
  <2>3. \A i \in Arriving' : i \in Arriving /\ At(i)' = At(i)
    BY <1>0, <2>1, <2>2 DEF Arriving, At
  <2> QED BY <2>1, <2>2, <2>3 DEF FlightInv, OwnOrPushed
<1>5. ASSUME NEW k \in 1 .. MaxPackages, ReadSome(k)
      PROVE  FlightInv'
  <2>1. /\ 1 \in Arriving /\ \A i \in Arriving' : i + 1 \in Arriving /\ At(i)' = At(i + 1)
        /\ UNCHANGED sent
    BY <1>5, Reads
  <2>2. Arriving' \subseteq Nat \ {0}
    BY <1>0, <1>5, Reads DEF Arriving, WireTypeOK
  <2>3. CASE At(1).id = 0 /\ UNCHANGED <<main, call, future>>
    <3>1. \A i \in Arriving' : OwnOrPushed(At(i))'
      BY <2>1, <2>3 DEF FlightInv, OwnOrPushed
    <3>2. \A i \in DOMAIN sent' : OwnOrPushed(sent[i])'
      BY <2>1, <2>3 DEF FlightInv, OwnOrPushed
    <3>3. \A i, j \in Arriving' : At(i)'.id # 0 /\ At(j)'.id # 0 => i = j
      BY <2>1, <2>2 DEF FlightInv
    <3>4. /\ \A i, j \in DOMAIN sent' : sent'[i].id # 0 /\ sent'[j].id # 0 => i = j
          /\ \A i \in Arriving', j \in DOMAIN sent' : At(i)'.id = 0 \/ sent'[j].id = 0
      BY <2>1 DEF FlightInv
    <3> QED BY <3>1, <3>2, <3>3, <3>4 DEF FlightInv
  <2>4. CASE At(1).id # 0
    <3>1. \A i \in Arriving' : At(i)'.id = 0
      BY <2>1, <2>2, <2>4 DEF FlightInv
    <3>2. \A i \in DOMAIN sent' : sent'[i].id = 0
      BY <2>1, <2>4 DEF FlightInv
    <3> QED BY <3>1, <3>2 DEF FlightInv, OwnOrPushed
  <2> QED BY <1>5, <2>3, <2>4, Handles
<1>6. CASE Push
  <2>1. /\ wire' = Append(wire, Pushed) /\ UNCHANGED <<main, call, future, sent, buffer>>
    BY <1>6 DEF Push, mainVars
  <2> PICK n \in Nat : n = Len(buffer) + Len(wire)
    BY <1>0
  <2>2. Arriving = 1 .. n /\ Arriving' = 1 .. n + 1
    BY <1>0, <2>1, PackageTypes DEF Arriving
  <2>3. At(n + 1)' = Pushed /\ \A i \in 1 .. n : At(i)' = At(i)
    BY <1>0, <2>1, PackageTypes DEF At
  <2>4. \A i \in Arriving' : At(i)'.id = 0 \/ (i \in Arriving /\ At(i)' = At(i))
    BY <2>2, <2>3, PackageTypes
  <2> QED BY <2>1, <2>4 DEF FlightInv, OwnOrPushed
<1>7. ASSUME NEW state \in {"success", "error"}, Serve(state)
      PROVE  FlightInv'
  <2> PICK n \in Nat : n = Len(buffer) + Len(wire)
    BY <1>0
  <2> DEFINE p == Package(sent[1].id, sent[1].request, state)
  <2>1. /\ sent # <<>> /\ sent' = Tail(sent) /\ wire' = Append(wire, p) /\ p \in Packages
        /\ UNCHANGED <<main, call, future, buffer>>
    BY <1>7, Serves
  <2>2. p.id = sent[1].id /\ p.request = sent[1].request
    BY DEF Package
  <2> HIDE DEF p
  <2>3. Arriving = 1 .. n /\ Arriving' = 1 .. n + 1
    BY <1>0, <2>1 DEF Arriving
  <2>4. At(n + 1)' = p /\ \A i \in 1 .. n : At(i)' = At(i)
    BY <1>0, <2>1 DEF At
  <2>5. 1 \in DOMAIN sent /\ \A j \in DOMAIN sent' : j + 1 \in DOMAIN sent /\ sent'[j] = sent[j + 1]
    BY <1>0, <2>1
  <2>6. DOMAIN sent' \subseteq Nat \ {0}
    BY <1>0, <2>1
  <2>7. ASSUME NEW i \in Arriving'
        PROVE  (i \in Arriving /\ At(i)' = At(i)) \/ (i = n + 1 /\ At(i)' = p)
    <3>1. CASE i = n + 1
      BY <2>4, <3>1
    <3>2. CASE i # n + 1
      BY <2>3, <2>4, <3>2
    <3> QED BY <3>1, <3>2
  <2>8. \A i \in Arriving' : OwnOrPushed(At(i))'
    BY <2>1, <2>2, <2>5, <2>7 DEF FlightInv, OwnOrPushed
  <2>9. \A j \in DOMAIN sent' : OwnOrPushed(sent[j])'
    BY <2>1, <2>5 DEF FlightInv, OwnOrPushed
  <2>10. \A i, j \in Arriving' : At(i)'.id # 0 /\ At(j)'.id # 0 => i = j
    BY <2>2, <2>5, <2>7 DEF FlightInv
  <2>11. \A i, j \in DOMAIN sent' : sent'[i].id # 0 /\ sent'[j].id # 0 => i = j
    BY <2>5, <2>6 DEF FlightInv
  <2>12. \A i \in Arriving', j \in DOMAIN sent' : At(i)'.id = 0 \/ sent'[j].id = 0
    BY <2>2, <2>5, <2>6, <2>7 DEF FlightInv
  <2> QED BY <2>8, <2>9, <2>10, <2>11, <2>12 DEF FlightInv
<1>8. CASE connect \/ End \/ Wake \/ RegisterCallback \/ Get
  BY <1>1, <1>8 DEF connect, End, Wake, RegisterCallback, Get, wireVars
<1>9. ASSUME NEW c \in DOMAIN CommandMap, NEW line \in Lines, Execute(c, line)
      PROVE  FlightInv'
  BY <1>1, <1>9, Executes
<1>10. CASE EraseCallback \/ UNCHANGED <<main, coreVars>>
  BY <1>2, <1>10 DEF EraseCallback, mainVars, wireVars, coreVars
<1> QED BY <1>3, <1>4, <1>5, <1>6, <1>7, <1>8, <1>9, <1>10, CoreMoves
-----------------------------------------------------------------------------
(* The requests.                                                           *)

\* The server understands the call and what is on its way to it.
LEMMA RequestsFit ==
    ASSUME MainTypeOK, WireTypeOK, RequestInv, [Next]_vars
    PROVE  RequestInv'
<1>0. sent \in Seq(Requests)
  BY DEF WireTypeOK
<1>1. ASSUME call' \in {call, None}, sent' = sent PROVE RequestInv'
  BY <1>1 DEF RequestInv, UnderstoodByServer, Understood, Verdict
<1>2. ASSUME NEW c \in DOMAIN CommandMap, NEW line \in Lines, Execute(c, line)
      PROVE  RequestInv'
  <2>1. Understood(call)' /\ sent' = sent
    BY <1>2, Executes
  <2> QED BY <2>1 DEF RequestInv, UnderstoodByServer, Understood, Verdict
<1>3. CASE SendData
  <2>1. call # None /\ call' \in {call, None} /\ sent' \in {sent, Append(sent, call)}
    BY <1>3 DEF SendData, MainTypeOK
  <2>2. CASE sent' = sent
    BY <1>1, <2>1, <2>2
  <2>3. CASE sent' = Append(sent, call)
    <3>1. ASSUME NEW j \in DOMAIN sent'
          PROVE  sent'[j] = call \/ (j \in DOMAIN sent /\ sent'[j] = sent[j])
      BY <1>0, <2>1, <2>3, <3>1 DEF MainTypeOK
    <3> QED BY <2>1, <3>1 DEF RequestInv, UnderstoodByServer, Understood, Verdict
  <2> QED BY <2>1, <2>2, <2>3
<1>4. CASE Drop
  <2>1. call' = call /\ DOMAIN sent' = {}
    BY <1>4 DEF Drop, mainVars
  <2> QED BY <2>1 DEF RequestInv, UnderstoodByServer, Understood, Verdict
<1>5. ASSUME NEW k \in 1 .. MaxPackages, ReadSome(k) PROVE RequestInv'
  BY <1>1, <1>5 DEF ReadSome, call_received_stdstring, mainVars
<1>6. ASSUME NEW state \in {"success", "error"}, Serve(state) PROVE RequestInv'
  <2>1. call' = call /\ sent # <<>> /\ sent' = Tail(sent)
    BY <1>6 DEF Serve, mainVars
  <2>2. \A j \in DOMAIN sent' : j + 1 \in DOMAIN sent /\ sent'[j] = sent[j + 1]
    BY <1>0, <2>1
  <2> QED BY <2>1, <2>2 DEF RequestInv, UnderstoodByServer, Understood, Verdict
<1>7. CASE connect \/ End \/ Wake \/ RegisterCallback \/ Get \/ EraseCallback \/ Push
           \/ UNCHANGED <<main, coreVars>>
  BY <1>1, <1>7 DEF connect, End, Wake, RegisterCallback, Get, EraseCallback, Push, mainVars,
     wireVars, coreVars
<1> QED BY <1>2, <1>3, <1>4, <1>5, <1>6, <1>7, CoreMoves

-----------------------------------------------------------------------------
(* The theorems.                                                           *)

\* The invariant holds at the start: nothing is on its way and nobody waits.
LEMMA Starting == Init => IInv
<1> SUFFICES ASSUME Init PROVE IInv
  OBVIOUS
<1>1. BoolTypeOK /\ MainTypeOK
  <2>1. BoolTypeOK
    BY DEF Init, BoolTypeOK
  <2>2. main = "connect" /\ call = None /\ future = None /\ requests = 0
    BY DEF Init
  <2> QED BY <2>1, <2>2, BoundsAssumption DEF MainTypeOK
<1>2. NetTypeOK /\ HeartInv /\ StartInv
  BY DEF Init, NetTypeOK, HeartInv, StartInv, MaxAttempts, RetryDelay, HeartBeatDelay
<1>3. IdTypeOK /\ WireTypeOK
  BY DEF Init, IdTypeOK, WireTypeOK
<1>4. FlightInv
  <2>1. Arriving = {} /\ DOMAIN sent = {}
    BY DEF Init, Arriving
  <2> QED BY <2>1 DEF FlightInv
<1>5. CallInv /\ PendingHasCallback
  BY DEF Init, CallInv, PendingHasCallback
<1>6. RequestInv
  BY DEF Init, RequestInv, UnderstoodByServer
<1> QED BY <1>1, <1>2, <1>3, <1>4, <1>5, <1>6, TypeParts DEF IInv

\* The invariant holds always: the reason for the theorems below.
THEOREM Invariance == Spec => []IInv
<1>1. ASSUME IInv, [Next]_vars PROVE IInv'
  <2>1. /\ BoolTypeOK /\ MainTypeOK /\ NetTypeOK /\ IdTypeOK /\ WireTypeOK
        /\ StartInv /\ FlightInv /\ CallInv /\ PendingHasCallback /\ HeartInv /\ RequestInv
    BY <1>1, TypeParts DEF IInv
  <2>2. BoolTypeOK' /\ NetTypeOK' /\ StartInv' /\ HeartInv'
    BY <1>1, <2>1, BoolTypes, NetTypes, Starts, Hearts
  <2>3. MainTypeOK' /\ IdTypeOK' /\ WireTypeOK'
    BY <1>1, <2>1, MainTypes, WireTypes
  <2>4. FlightInv' /\ CallInv' /\ PendingHasCallback' /\ RequestInv'
    BY <1>1, <2>1, Flight, Calls, RequestsFit
  <2> QED BY <2>2, <2>3, <2>4, TypePartsNext DEF IInv
<1> QED BY <1>1, Starting, PTL DEF Spec

\* The types of the client's state.
THEOREM TypeCorrect == Spec => []TypeOK
<1>1. IInv => TypeOK
  BY DEF IInv
<1> QED BY <1>1, Invariance, PTL

\* Whatever line is typed and whichever ids are drawn, every request on its way to
\* the server names a function that the server has and carries its parameters.
THEOREM AlwaysUnderstoodByServer == Spec => []UnderstoodByServer
<1>1. IInv => UnderstoodByServer
  BY DEF IInv, RequestInv
<1> QED BY <1>1, Invariance, PTL

\* No command reads an option that has no value, no callback is erased that is not
\* there, and the map of callbacks is not written while one is erased.
THEOREM NeverUndefined == Spec => []NothingUndefined
<1>1. IInv => NothingUndefined
  BY DEF IInv, CallInv, NothingUndefined
<1> QED BY <1>1, Invariance, PTL

\* There is one heartbeat at a time, over all attempts to connect.
THEOREM AlwaysOneHeartbeat == Spec => []OneHeartbeat
<1>1. IInv => OneHeartbeat
  BY OneHeart DEF IInv
<1> QED BY <1>1, Invariance, PTL

\* An id is pending exactly as long as its callback is there to be called.
THEOREM PendingAlwaysHasCallback == Spec => []PendingHasCallback
<1>1. IInv => PendingHasCallback
  BY DEF IInv
<1> QED BY <1>1, Invariance, PTL

\* A command returns with the answer to its own request.
THEOREM AlwaysOwnAnswer == Spec => OwnAnswer
<1>1. ASSUME IInv, [Next]_vars, main = "get", main' = "prompt"
      PROVE  future.request = call.request
  <2>1. Get
    <3>1. ASSUME NEW c \in DOMAIN CommandMap, NEW line \in Lines, Execute(c, line) PROVE FALSE
      BY <1>1, <3>1 DEF Execute
    <3> QED BY <1>1, <3>1, CoreMoves
            DEF connect, End, Wake, RegisterCallback, SendData, Drop, ReadSome,
                call_received_stdstring, EraseCallback, Push, Serve, mainVars
  <2>2. future # None
    BY <2>1 DEF Get
  <2> QED BY <1>1, <2>2 DEF IInv, CallInv
<1>2. IInv /\ [Next]_vars =>
         [main = "get" /\ main' = "prompt" => future.request = call.request]_vars
  BY <1>1
<1> QED BY <1>2, Invariance, PTL DEF Spec, OwnAnswer

=============================================================================
