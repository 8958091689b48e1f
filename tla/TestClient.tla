----------------------------- MODULE TestClient -----------------------------
(***************************************************************************)
(* The test client: main reads commands and waits for the answer of each;   *)
(* the work thread connects, keeps the connection alive, and hands every    *)
(* package it reads to the request that waits for it.                       *)
(*                                                                         *)
(* The work thread runs coroutines: what it does from one wait to the next  *)
(* is one action, except that the answer of a request is visible to main    *)
(* before its callback is erased (erasing).  Ids are drawn under the locks  *)
(* that the work thread holds until then; the callback of a new request is  *)
(* put into requestID2Function_map without them.                            *)
(*                                                                         *)
(* Left out: pieces of a package (Framing), the bytes of a partial package  *)
(* that stay in the buffer when a connection dies, the timeouts of connect, *)
(* handshake and read (operator|| waits for one success, so they end        *)
(* nothing), what the console shows.                                       *)
(***************************************************************************)
EXTENDS Options, Protocol, FiniteSets

CONSTANTS
    None,         \* nothing
    Writing,      \* the state of a heartbeat that is being written
    Lines,        \* the argument lists that may follow a command
    Ids,          \* the request ids the generator may draw
    MaxRequests,  \* bound: requests made in a behaviour
    MaxPackages   \* bound: packages on their way to main

ASSUME IdsAssumption == Ids \subseteq Nat
ASSUME BoundsAssumption == MaxRequests \in Nat /\ MaxPackages \in Nat

VARIABLES
    main,          \* where main is
    call,          \* the request main is making or waiting for
    future,        \* the answer its future holds
    has_login,
    requests,      \* history: how many requests were made
    net,           \* where start_connect is
    attempt,       \* its i
    is_receiving,
    can_be_used,
    retry_timer,   \* time left until it connects again
    heart_beat,    \* the heartbeat coroutine each attempt started
    requestID_set,
    requestID2Function_map, \* for every id the number of the request it belongs to
    erasing,       \* the id whose callback was called and is not yet erased
    tcp,           \* whether the connection carries data
    sent,          \* requests on their way to the server
    wire,          \* packages on their way to the client
    buffer         \* package: packages read from the socket and not handled

mainVars == <<main, call, future, has_login, requests>>
netVars == <<net, attempt, is_receiving, can_be_used, retry_timer>>
idVars == <<requestID_set, requestID2Function_map, erasing>>
wireVars == <<tcp, sent, wire, buffer>>
vars == <<mainVars, netVars, heart_beat, idVars, wireVars>>

MaxAttempts == 3

\* Delays in units of five seconds.
HeartBeatDelay == 2

\* Mutant of RetryDelay: the client connects again at once.
RetryDelay_Short == 1

RetryDelay == 2

\* What travels to the client: the answer to a request, or a message of another
\* user, which has the id 0 and belongs to no request.
Package(id, request, state) == [id |-> id, request |-> request, state |-> state]
Pushed == Package(0, 0, "pushed")
Packages ==
    {Pushed} \cup [id : Ids, request : 1 .. MaxRequests, state : {"success", "error"}]

Requests ==
    [function : {Session[s].function : s \in DOMAIN Session},
     parameters : {Session[s].parameters : s \in DOMAIN Session},
     id : Ids, request : 1 .. MaxRequests]

ASSUME MarksAssumption ==
    /\ None \notin Requests \cup Packages \cup Nat
    /\ Writing \notin Nat \cup {None}

\* Types; i counts to three, and every pending request has its own id.
TypeOK ==
    /\ main \in {"connect", "sleep", "prompt", "register", "send", "get",
                 "undefined", "ended"}
    /\ call \in Requests \cup {None}
    /\ future \in Packages \cup {None}
    /\ has_login \in BOOLEAN /\ is_receiving \in BOOLEAN
    /\ can_be_used \in BOOLEAN /\ tcp \in BOOLEAN
    /\ requests \in 0 .. MaxRequests
    /\ net \in {"idle", "connect", "handshake", "reading", "retry", "returned"}
    /\ attempt \in 0 .. MaxAttempts
    /\ net = "returned" <=> attempt = MaxAttempts
    /\ retry_timer \in 0 .. RetryDelay
    /\ heart_beat \in [0 .. MaxAttempts - 1 -> {None, Writing} \cup (0 .. HeartBeatDelay)]
    /\ requestID_set \subseteq Ids
    /\ DOMAIN requestID2Function_map \subseteq Ids
    /\ erasing \in Ids \cup {None}
    /\ sent \in Seq(Requests) /\ wire \in Seq(Packages) /\ buffer \in Seq(Packages)
    /\ main \in {"register", "send", "get"} => call # None
    /\ main \in {"sleep", "prompt"} => call = None

Init ==
    /\ main = "connect" /\ call = None /\ future = None
    /\ has_login = FALSE /\ requests = 0
    /\ net = "idle" /\ attempt = 0
    /\ is_receiving = FALSE /\ can_be_used = FALSE /\ retry_timer = 0
    /\ heart_beat = [i \in 0 .. MaxAttempts - 1 |-> None]
    /\ requestID_set = {} /\ requestID2Function_map = <<>>
    /\ erasing = None
    /\ tcp = FALSE /\ sent = <<>> /\ wire = <<>> /\ buffer = <<>>

-----------------------------------------------------------------------------
(* main.                                                                   *)

\* Network::connect: the endpoints are there, and the work thread goes on.
connect ==
    /\ main = "connect"
    /\ main' = "sleep" /\ net' = "connect"
    /\ UNCHANGED <<call, future, has_login, requests, attempt, is_receiving, can_be_used,
                   retry_timer, heart_beat, idVars, wireVars>>

\* The name cannot be resolved, or the user ends the client.  (stop comes before
\* the destructor, which then leaves a thread that was not joined.)
End ==
    /\ main \in {"connect", "prompt"}
    /\ main' = "ended" /\ call' = None
    /\ UNCHANGED <<future, has_login, requests, netVars, heart_beat, idVars, wireVars>>

Wake ==
    /\ main = "sleep" /\ can_be_used
    /\ main' = "prompt"
    /\ UNCHANGED <<call, future, has_login, requests, netVars, heart_beat, idVars, wireVars>>

\* The locks of requestID_set and requestID2Function_map are free.
LocksFree == erasing = None

\* send_data_with_result_n_option, until the id is drawn: an id no request has.
MakeRequest(s) ==
    /\ s.has_login => has_login
    /\ LocksFree
    /\ is_receiving
    /\ \E id \in Ids \ requestID_set :
          /\ requestID_set' = requestID_set \cup {id}
          /\ call' = [function |-> s.function, parameters |-> s.parameters,
                      id |-> id, request |-> requests + 1]
    /\ requests' = requests + 1
    /\ future' = None
    /\ main' = "register"

\* A line is parsed and the command executed.  Lines that end in an exception,
\* or in a function that wants a login, leave everything as it is.  A get of
\* an option that has no value dereferences the end of a map.
Execute(c, args) ==
    LET options == CommandMap[c].options
        option_types == [o \in DOMAIN options |-> "OPT_REQUIRED"]
        args_map == ArgsMap(option_types, args)
    IN  /\ main = "prompt" /\ requests < MaxRequests
        /\ ~ParseThrows(option_types, args)
        /\ IF DOMAIN options \subseteq DOMAIN args_map
           THEN /\ \A o \in DOMAIN options :
                      options[o][2] = JInt => ~GetIntThrows(args_map, o)
                /\ MakeRequest(Session[CommandMap[c].call])
           ELSE main' = "undefined" /\ UNCHANGED <<call, future, requests, requestID_set>>
        /\ UNCHANGED <<has_login, netVars, heart_beat, requestID2Function_map, erasing, wireVars>>

\* The callback goes into the map, without a lock.
RegisterCallback ==
    /\ main = "register"
    /\ main' = "send"
    /\ requestID2Function_map' =
          [id \in DOMAIN requestID2Function_map \cup {call.id} |->
              IF id = call.id THEN call.request ELSE requestID2Function_map[id]]
    /\ UNCHANGED <<call, future, has_login, requests, netVars, heart_beat, requestID_set,
                   erasing, wireVars>>

\* send_data: it throws when the connection went down meanwhile, and the id and
\* the callback stay; a write to a connection that is dead is lost in silence.
SendData ==
    /\ main = "send"
    /\ IF is_receiving
       THEN /\ main' = "get" /\ UNCHANGED call
            /\ sent' = IF tcp THEN Append(sent, call) ELSE sent
       ELSE main' = "prompt" /\ call' = None /\ UNCHANGED sent
    /\ UNCHANGED <<future, has_login, requests, netVars, heart_beat, idVars, tcp, wire, buffer>>

\* The future of the request is ready.
Get ==
    /\ main = "get" /\ future # None
    /\ main' = "prompt" /\ call' = None /\ future' = None
    /\ has_login' = (has_login \/ (call.function = "login" /\ future.state = "success"))
    /\ UNCHANGED <<requests, netVars, heart_beat, idVars, wireVars>>

-----------------------------------------------------------------------------
(* The work thread: start_connect.  Its actions wait while a callback is    *)
(* being erased.                                                           *)

Connected ==
    /\ erasing = None /\ net = "connect"
    /\ net' = "handshake" /\ tcp' = TRUE
    /\ UNCHANGED <<mainVars, attempt, is_receiving, can_be_used, retry_timer, heart_beat,
                   idVars, sent, wire, buffer>>

\* The handshake succeeds, call_connected tells main, a heartbeat is started.
\* (A second handshake on the same stream may succeed and carry nothing: that
\* is Lose, right after.)
Handshake ==
    /\ erasing = None /\ net = "handshake" /\ tcp
    /\ net' = "reading" /\ is_receiving' = TRUE /\ can_be_used' = TRUE
    /\ heart_beat' = [heart_beat EXCEPT ![attempt] = HeartBeatDelay]
    /\ UNCHANGED <<mainVars, attempt, retry_timer, idVars, wireVars>>

\* connect, handshake or read fail: shutdown, and a timer before the next attempt.
\* What was read and not handled stays in the buffer.
Fail ==
    /\ erasing = None
    /\ net \in {"connect", "handshake"} \/ (net = "reading" /\ ~tcp)
    /\ is_receiving' = FALSE
    /\ net' = "retry" /\ retry_timer' = RetryDelay
    /\ tcp' = FALSE /\ sent' = <<>> /\ wire' = <<>>
    /\ UNCHANGED <<mainVars, attempt, can_be_used, heart_beat, idVars, buffer>>

\* Mutant of Attempts: one attempt too many.
Attempts_TooMany(i) == i <= MaxAttempts

Attempts(i) == i < MaxAttempts

\* Expired timers are handled in the order they expire; on a tie the heartbeat's
\* was armed first.  async_connect closes the socket, which ends a write.
Retry ==
    /\ erasing = None /\ net = "retry" /\ retry_timer = 0
    /\ \A i \in DOMAIN heart_beat : heart_beat[i] # 0
    /\ attempt' = attempt + 1
    /\ IF Attempts(attempt + 1)
       THEN /\ net' = "connect"
            /\ heart_beat' = [i \in DOMAIN heart_beat |->
                                IF heart_beat[i] = Writing THEN None ELSE heart_beat[i]]
       ELSE net' = "returned" /\ UNCHANGED heart_beat
    /\ UNCHANGED <<mainVars, is_receiving, can_be_used, retry_timer, idVars, wireVars>>

\* Mutant of Answers: every id that has a callback is answered, 0 as well.
Answers_AnyId(p) == p.id \in DOMAIN requestID2Function_map

\* Mutant of Answers: the id of a package is never found.
Answers_Never(p) == FALSE

Answers(p) == p.id # 0 /\ p.id \in requestID_set

\* Mutant of TakeId: the id stays in the set.
TakeId_Keeps(id) == requestID_set

TakeId(id) == requestID_set \ {id}

\* call_received_stdstring: an answer goes to the promise of its request, all
\* else to the received callback, which shows it.  Erasing a callback that is
\* not there is undefined.
call_received_stdstring(p) ==
    IF ~Answers(p) THEN UNCHANGED <<mainVars, requestID_set, requestID2Function_map, erasing>>
    ELSE /\ requestID_set' = TakeId(p.id)
         /\ UNCHANGED <<call, has_login, requests, requestID2Function_map>>
         /\ IF p.id \in DOMAIN requestID2Function_map
            THEN /\ erasing' = p.id
                 /\ future' = IF call # None /\ requestID2Function_map[p.id] = call.request
                              THEN p ELSE future
                 /\ UNCHANGED main
            ELSE main' = "undefined" /\ UNCHANGED <<erasing, future>>

\* One read brings k packages, and the first one of the buffer is handled.
ReadSome(k) ==
    /\ erasing = None /\ net = "reading" /\ tcp /\ k <= Len(wire)
    /\ LET package == buffer \o SubSeq(wire, 1, k)
       IN  call_received_stdstring(Head(package)) /\ buffer' = Tail(package)
    /\ wire' = SubSeq(wire, k + 1, Len(wire))
    /\ UNCHANGED <<netVars, heart_beat, tcp, sent>>

EraseCallback ==
    /\ erasing # None
    /\ requestID2Function_map' =
          [id \in DOMAIN requestID2Function_map \ {erasing} |-> requestID2Function_map[id]]
    /\ erasing' = None
    /\ UNCHANGED <<mainVars, netVars, heart_beat, requestID_set, wireVars>>

-----------------------------------------------------------------------------
(* The work thread: heart_beat_write.                                      *)

HeartBeatWake(i) ==
    /\ erasing = None /\ heart_beat[i] = 0
    /\ heart_beat' = [heart_beat EXCEPT ![i] = Writing]
    /\ UNCHANGED <<mainVars, netVars, idVars, wireVars>>

\* The write ends; on a dead connection it may fail, which ends the coroutine.
HeartBeatWritten(i) ==
    /\ erasing = None /\ heart_beat[i] = Writing
    /\ \/ heart_beat' = [heart_beat EXCEPT ![i] = IF is_receiving THEN HeartBeatDelay ELSE None]
       \/ ~tcp /\ heart_beat' = [heart_beat EXCEPT ![i] = None]
    /\ UNCHANGED <<mainVars, netVars, idVars, wireVars>>

Count(t) == IF t \in {None, Writing, 0} THEN t ELSE t - 1

\* Five seconds pass; a timer that has expired is handled first.
Tick ==
    /\ ~(net = "retry" /\ retry_timer = 0)
    /\ \A i \in DOMAIN heart_beat : heart_beat[i] # 0
    /\ retry_timer' = Count(retry_timer)
    /\ heart_beat' = [i \in DOMAIN heart_beat |-> Count(heart_beat[i])]
    /\ UNCHANGED <<mainVars, net, attempt, is_receiving, can_be_used, idVars, wireVars>>

-----------------------------------------------------------------------------
(* The server and the network between, as the client sees them.            *)

\* The server answers what it can execute with success or not, and refuses the rest.
Serve(state) ==
    /\ tcp /\ sent # <<>> /\ Len(wire) + Len(buffer) < MaxPackages
    /\ state = "success" => Verdict(Head(sent)) \in {"login", "execute"}
    /\ wire' = Append(wire, Package(Head(sent).id, Head(sent).request, state))
    /\ sent' = Tail(sent)
    /\ UNCHANGED <<mainVars, netVars, heart_beat, idVars, tcp, buffer>>

\* A message of another user.
Push ==
    /\ tcp /\ net = "reading" /\ Len(wire) + Len(buffer) < MaxPackages - 1
    /\ wire' = Append(wire, Pushed)
    /\ UNCHANGED <<mainVars, netVars, heart_beat, idVars, tcp, sent, buffer>>

\* The connection dies, before the client notices.
Lose ==
    /\ tcp
    /\ tcp' = FALSE /\ sent' = <<>> /\ wire' = <<>>
    /\ UNCHANGED <<mainVars, netVars, heart_beat, idVars, buffer>>

-----------------------------------------------------------------------------
Main ==
    \/ connect \/ End \/ Wake
    \/ \E c \in DOMAIN CommandMap, args \in Lines : Execute(c, args)
    \/ RegisterCallback \/ SendData \/ Get

Work ==
    \/ Connected \/ Handshake \/ Fail \/ Retry
    \/ \E k \in 1 .. MaxPackages : ReadSome(k)
    \/ EraseCallback
    \/ \E i \in DOMAIN heart_beat : HeartBeatWake(i) \/ HeartBeatWritten(i)
    \/ Tick

Outside == Push \/ Lose \/ \E state \in {"success", "error"} : Serve(state)

Next == main \notin {"undefined", "ended"} /\ (Main \/ Work \/ Outside)

Spec == Init /\ [][Next]_vars

Running == main \notin {"undefined", "ended"}

\* The two threads run, reads go on, and the server answers (Framing).
FairSpec ==
    /\ Spec
    /\ WF_vars(Running /\ RegisterCallback)
    /\ WF_vars(Running /\ SendData)
    /\ WF_vars(Running /\ Get)
    /\ WF_vars(Running /\ EraseCallback)
    /\ WF_vars(Running /\ \E k \in 1 .. MaxPackages : ReadSome(k))
    /\ WF_vars(Running /\ \E state \in {"success", "error"} : Serve(state))

-----------------------------------------------------------------------------
\* Every request that reaches the server names a function the server has, with all
\* the parameters its processJsonMessage asks for: the tables of the client's
\* commands, of Session and of the server's commands agree.
UnderstoodByServer ==
    \A j \in DOMAIN sent : Verdict(sent[j]) \in {"login", "execute"}

\* Nothing the language leaves undefined happens: once parse has accepted a line no
\* command reads an option that has no value (get_string and get_int dereference
\* what find returns without a look), no callback is erased that is not there, and
\* the write of a callback into the map, which takes no lock, never meets the work
\* thread erasing one.
NothingUndefined ==
    /\ main # "undefined"
    /\ ~(main = "register" /\ erasing # None)

\* A future gets the answer of its own request and nothing else, whatever else the
\* server sends, whichever ids are drawn, and what an earlier connection left
\* in the buffer.
OwnAnswer ==
    [][main = "get" /\ main' = "prompt" => future.request = call.request]_vars

\* There is one heartbeat at a time: the one of the last connection has ended when
\* the next connection starts its own.  (The server drops a client whose
\* heartbeats come too often.)
OneHeartbeat == Cardinality({i \in DOMAIN heart_beat : heart_beat[i] # None}) <= 1

\* An id is in requestID_set exactly as long as its callback is still to be called:
\* every id of the set has a callback or is being registered, and a callback whose
\* id is not in the set is being erased.
PendingHasCallback ==
    /\ \A id \in requestID_set :
          id \in DOMAIN requestID2Function_map \/ (main = "register" /\ call.id = id)
    /\ \A id \in DOMAIN requestID2Function_map : id \in requestID_set \/ id = erasing

\* The answer is in the buffer, and nothing else arrives: only the next read
\* handles it.
AnswerStuck ==
    wire = <<>> /\ \E j \in DOMAIN buffer : buffer[j].request = call.request

\* A command whose request was sent gets its answer, unless the connection is lost, its
\* id is 0 (the answer is then taken for a message), or its answer stays behind
\* another package in the buffer.
CallReturns ==
    (main = "get" /\ sent # <<>>) ~>
        (main # "get" \/ ~tcp \/ call.id = 0 \/ AnswerStuck)
=============================================================================
