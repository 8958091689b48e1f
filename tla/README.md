# A TLA+ model of QChatServer

QChatServer is a chat server in C++20. It accepts TLS connections, speaks a
JSON command protocol, and keeps users, friendships, private rooms and group
rooms in memory. Every accepted socket has a coroutine; commands run on a
thread pool, and the shared containers are protected one by one by mutexes.
The server has no global lock, so a command is a sequence of critical sections,
and the commands of different connections interleave at every unlock. That is
what this project is about.

## 1. The system

| Part | State | Operations | Talks to |
|---|---|---|---|
| `Network` (`server/network/network.cpp`) | acceptor, TLS context, thread pool | `listener`, `process` (one coroutine per socket), `run`, `stop` | `RateLimiter`, `Manager`, `SocketService` |
| `RateLimiter` (`server/network/rateLimiter.hpp`) | two atomics for the global tokens, a bucket per address under a spin lock | `allow_connection`, `auto_clean` | called by `Network::process` |
| `Package`, `DataPackage` (`utils/network/`) | receive buffer; header of a package | `write`, `canRead`, `read`; `makePackage`, `stringToPackage` | `Network`, `SocketService`, test client |
| `SocketService` (`server/socketFunctions`) | connection, one `JsonMessageProcess` | `process`: one package to one answer | `JsonMessageProcess`, the socket |
| `JsonMessageProcess` and its commands (`server/jsonMessageProcess`) | `m_user_id` of the connection; table of commands | `processJsonMessage`, `login`, one class per command | `Manager`, `User`, `VerificationManager` |
| `Manager` (`server/manager/manager.cpp`) | user, connection, private room and group room maps, the pair index, three id counters | add, get, has, remove of each; register, modify, remove of a connection | everything |
| `VerificationManager` | friend requests and group applications | apply, accept, reject, remove, has | `Manager`, `User` |
| `User` (`server/user/user.cpp`) | friend set, group set, the two lists of requests, password, connections | `addFriend` ... `leaveGroup`, `notifyAll` | `Manager`, `VerificationManager` |
| `PrivateRoom`, `GroupRoom`, `TCPRoom` (`server/room`) | members, message store, operators, mutes | join, leave, send, tip, history, moderation, cleaning coroutine | `User::notifyAll` |
| `GroupPermission`, `UserLevel` | permissions and levels | set, compare, increase, decrease | `GroupRoom` |
| `Logger` (`utils/logger.hpp`) | queue, mutex, condition variable, worker thread, `m_isRunning` | `print` and its five levels, `workFunction`, `join` | everything |
| `DataManager`, `SQLProcess` | none in effect (the statements are commented out) | | |
| `Opt` (`utils/option.hpp`) | option types, values of a parsed line | `parse`, `get_int`, `get_string` | commands of the client |
| test client (`testclient/`) | commands, `Session` (one function per request), `Network`: request ids, callbacks, connection, receive buffer, heartbeat | `Command::execute`, `send_data_with_result_n_option`, `start_connect`, `heart_beat_write`, `call_received_stdstring` | the server |
| console input, start-up, hashing | configuration | | |

### What is hard here

* A command is up to nine critical sections under different locks. Accepting a
  friend request sets a flag, creates a room, updates two lists and removes the
  request, each on its own; a second session of the same user, or the other
  user, may act between any two of them.
* A check and its use are never under one lock (`hasGroupRoom` then
  `getGroupRoom`; `userHasFriend` then `getPrivateRoomId`).
* The same fact is stored more than once (request in `VerificationManager` and
  in two users' lists; member in `m_user_id_map`, in `m_user_map` and in the
  user's group set; the user of a connection in `Manager`, in `User` and in
  `JsonMessageProcess`) and the copies are written one after the other.
* A connection may die at every suspension point.
* Messages are pushed to connections from other connections' threads.
* The cleaning coroutine of a room holds no pointer that keeps the room alive.
* Two threads of the client share its ids and callbacks, partly without a lock,
  over a connection that dies and is made again.

`PROJECT.json` lists these one by one under `hazards`, each at its line.

### What makes each part correct

* Friends: a friend in a list has a private room of exactly the two users; a
  message to a friend finds it; no request stays half accepted; a friendship
  comes only from a request that the other user granted.
* Groups: a member sees the group in the own list; an application to an existing
  group is listed where it can be answered; an accepted application is finished;
  a group id never comes to mean another group; commands end.
* Connections: both maps agree; no dead connection stays registered; a command
  acts for the user the connection belongs to; login needs the password.
* Framing: every package written is read back once, in order, however the bytes
  are split; every request is answered under its id.
* Rate limiting: in any period an address, and the server as a whole, get no more
  connections than bucket and refill allow, whatever threads do at the same time and
  whenever idle addresses are forgotten.
* Message store: a message is in the history until it is a week old, messages are
  listed in their order, old ones are erased at last; a coroutine should not go on
  in a room that is gone, which is not so.
* Logger: every line printed before `join` is in the file when `join` returns, in
  the order of printing; `join` returns.
* Test client: what it sends is what the server asks for; a call gets the answer
  of its own request, and gets one; ids and callbacks stay in step.

## 2. The modules

| Module | Models | State and actions |
|---|---|---|
| `Friends` | friend commands: `AddFriendCommand`, `AcceptFriendVerificationCommand`, `RejectFriendVerificationCommand`, `RemoveFriendCommand`, `SendFriendMessageCommand`, the two list commands, with the functions of `User`, `VerificationManager`, `Manager` and `PrivateRoom` they call | variables carry the members' names; one action per critical section; `pc[s]` is the point between two locks where session `s` is |
| `Friendship` | what the friend commands promise | `Ask`, `Grant`, `Drop`, `Open`, `Befriend`, `Unfriend` |
| `FriendsProofs` | theorems about `Friends` | |
| `Groups` | group commands: create, add, accept, reject, remove, leave, send, the two lists | as `Friends`; membership is kept for every id ever handed out, because a removed room lives on while a command holds its `shared_ptr` |
| `Membership` | what the group commands promise | `Found`, `Close`, `Apply`, `Drop`, `Grant`, `Admit`, `Reach`, `List`, `Withdraw`, `Leave` |
| `GroupsProofs` | theorems about `Groups` | |
| `Connections` | `Network::process`, `SocketService::process`, `login`, `register`, the connection maps, `notifyAll` | one process per socket; an action is a critical section or the completion of an asynchronous operation |
| `ConnectionsProofs` | theorems about `Connections` | |
| `Framing` | `DataPackage`, `Package`, the read loop of `Network::process` with its heartbeat count, the answer of `SocketService::process` | `wire` is what TCP holds, `m_buffer` what `Package` has; `ReadSome` is all the code between two waits for the socket; `sent` is the history of what the peer sent and the loop has not taken |
| `FramingProofs` | theorems about `Framing` | |
| `Channel` | what framing promises: a queue of packages | `Send`, `Deliver`, `Reject`, `Abort` |
| `RateLimiter` | `allow_connection`, `auto_clean` | an action per access to an atomic, one for the section under the spin lock; `window`, `passed`, `admitted` and `raced` are history |
| `RateLimiterProofs` | theorems about `RateLimiter` | |
| `MessageStore` | `sendMessage`, `getMessage`, `auto_clean` and the destruction of `GroupRoom` and `PrivateRoom` | `m_message_map` by time; `cleaner` is where the coroutine is; the room is alive while the `Manager` or a command has a `shared_ptr` |
| `MessageStoreProofs` | theorems about `MessageStore` | |
| `Logger` | `print`, `workFunction`, `join` | the wait of the worker is split as a condition variable splits it: predicate, release and block, wake, lock again |
| `LoggerProofs` | theorems about `Logger` | |
| `Options` | `Opt::parse` and the getters | operators: what a list of arguments leaves in the map and when it throws |
| `Protocol` | the tables: functions and parameters the server asks for, requests `Session` makes, options of the client's commands | constant operators; `Verdict` is what `processJsonMessage` does with a request |
| `TestClient` | `main`, `Command::execute`, `Session`, the client's `Network` | thread `main` and the work thread with its coroutines; server and network are `Outside` |
| `TestClientProofs` | theorems about `TestClient` and the tables of `Protocol` | |
| `MC...` | the constants, symmetries and views of the runs | |

`Friends` and `Groups` start from sessions that have logged in; `Connections`
shows what that means (`CommandsRunAsOwner`) and leaves what a command does to
the other two; `Framing` is the inside of its "read" step, with the bytes.
`RateLimiter` is the inside of its free choice to refuse a connection, and
`MessageStore` the inside of `SendToRoom` in `Groups` and of the last step of a
message in `Friends`. `TestClient` extends `Options` and `Protocol`: a typed line goes
through the parser into a request, and the server's table judges the request; it
takes whole packages, which is what `Framing` shows. A user never disappears, so the
two halves of the user state (friends, groups) do not meet: no friend command reads
a group container or the other way round.

Naming follows the source with one trap kept as it is: private room ids come from
the counter `m_newGroupRoomId` and group ids from `m_newPrivateRoomId`
(`Manager::addPrivateRoom`, `Manager::addGroupRoom`). Both start at 10000, and
private rooms and groups live in different maps, so it does no harm.

Abstracted in every module: texts of answers (an answer is `success`, `error`,
or `unknown` for a command that ended in an exception), logging, notification
payloads. `emplace` and `insert` keep what is already there, and `Friends` models
that. `Verdict` (`Protocol`) and `ValueAt` (`Options`) test their conditions one after
the other, in the order of the code's `if`s, which matters where several hold.

Two lines of the models that a reader may not expect:

* *Timers.* A handshake or read is awaited together with a timer through asio's
  `operator||`, which waits for the first of the two to *succeed*. The timer
  coroutine ends only by throwing, so an expired timer changes nothing and
  `Connections` has no timeout.
* *The login gate.* `processJsonMessage` masks the command type with
  `NormalType`, which is 0. The condition is never true for a known command, so
  `ReceiveCommand` has no guard on the login, although
  `JsonMsgProcessCommand.h` says of `LoginType` "Use it if the function need to
  login". Without a login `getUser(-1)` throws and the answer is "Unknown error
  occured!".

## 3. The runs

Run with `tlc -config <cfg> <module>`.

| Run | Instance | Shows |
|---|---|---|
| `friends` | 2 users, 3 sessions (one user has two), an unknown id, 2 rooms | `FriendsHaveRoom`, `SendReachesRoom`, `VerifiedIsBeingAccepted`, `RoomsPermanent`, and that `Friends` implements `Friendship` |
| `groups` | 2 users, 3 sessions, 1 group | `MembersSeeGroup`, `VerifiedIsBeingAccepted`, and that `Groups` implements `Membership` |
| `groups_pair` | 2 users, 2 sessions, 1 group, 2 entries, an unknown id | `ApplicationIsListed`, which needs an applicant who applies again while an earlier answer is still removing its entries; `EveryCommandAnswered` under weak fairness |
| `connections` | 2 connections, 2 users | `MapsAgree`, `RegisteredWhileRunning`, `CommandsRunAsOwner`, `OnlyWithPassword`; `HangupIsNoticed` under weak fairness |
| `connections_writes` | 2 connections, 1 user, 2 pushes | violated: two writes under way on one socket |
| `framing` | 2 request ids, data of 0 or 1 byte, malformed lengths, 13 bytes on their way | `RequestsAccountedFor`, and that `Framing` implements `Channel`; `AnsweredWhileBytesArrive` under weak fairness |
| `framing_stall` | 2 request ids, no malformed lengths | violated: a request that arrives together with a heartbeat is not answered until the peer sends more |
| `rate_limiter` | 2 threads, 2 addresses, a bucket of one connection, 6 ticks | `AddressLimit` for every period; `GlobalLimit` as long as no two threads met in the part without a lock |
| `logger` | 2 printing threads, 3 lines | `FlushedWhenJoined`; `PrintedIsWritten` under weak fairness |
| `logger_join` | same | violated: the notification of `join` falls between the worker's predicate and its wait, and `join` never returns |
| `client` | 3 requests, ids 0 and 1, 3 packages under way, lines of at most 2 arguments | `UnderstoodByServer`, `NothingUndefined`, `OneHeartbeat`, `PendingHasCallback`, `OwnAnswer`; `CallReturns` under weak fairness |
| `store` | 2 threads, 5 messages, 5 ticks, a message kept for 2 | `RecentKept`, `HistoryInOrder`; `OldForgotten` under weak fairness |

The runs that end in a violation are findings: they state what the protocol
document, a comment or an answer's text says and TLC shows a behaviour of the
code that does otherwise. `PROJECT.json` quotes the lines.

Smaller disagreements that the models show as well and that have no run of their
own:

* `remove_friend` is said to delete a friend (`doc/JsonMessageMap.md:230`), but
  `User::removeFriend` (`user.cpp:347`) passes the friend's own id to the friend's
  half of the removal, so the other user keeps the friendship
  (`Friends`, `RemovePeer`; `Friendship!Unfriend` is one-sided for this reason).
* A friend request rejected between its insertion and the updates of the two lists
  (`verificationManager.cpp:138`) stays listed although it does not exist any more
  (the lists are documented at `doc/JsonMessageMap.md:198`).
* `leave_group` is for those who do not own the group
  (`doc/JsonMessageMap.md:509`, "非群组主人使用"), but `leaveGroup` (`user.cpp:518`)
  removes the owner as a member before it compares with the administrator and
  answers that it failed.
* `accept_friend_verification` answers success when there was nothing to accept
  (`AcceptCheckVerification`).
* After two users have asked each other, one of the requests is not listed as
  received, because `emplace` keeps the older entry (`addFriendVerification`).
* A group that has been left stays in the group list, and a message to it is
  answered with success and dropped (`LeaveRoom`, `SendToRoom`).
* The global rate limit has no bound once two threads meet in it: a thread that
  loaded a full count and stores it late gives back what the others took.
* A private room drops the second message of one clock tick from its history
  (`StoreInPrivate`), where a group moves it to a free time; and the private
  `sendMessage` stores it as a tip message.
* A coroutine that is past its wait, or not yet in it, when a room is destroyed goes
  on in freed memory: the destructor, and the destruction of the timer with `m_impl`,
  end a wait and nothing else, and the coroutine holds no `shared_ptr`. The state
  `cleaner = "undefined"` of `MessageStore` is reached (`Clean`, `Arm`). Nothing in the
  repository says otherwise of the coroutine, so there is no statement for a run to refute.
* The count of heartbeats is compared with its limit only by a heartbeat that comes after
  the interval: the count has no bound before that, and eleven heartbeats close the
  connection however long they took (`CountHeartBeat`).
* Three examples of the document name another function than the command they are for:
  `remove_friend` is shown as `get_friend_verification_list`
  (`doc/JsonMessageMap.md:234`), `get_group_list` as `reject_group_verification` (`:344`)
  and `leave_group` as `remove_group` (`:513`). Server and client agree with each other
  (`Protocol`).
* In the client an answer under request id 0 is taken for a pushed message, and
  `has_login` stays true over a new connection, on which the server knows no login.
  After three attempts the client gives up for good: the `io_context` is not
  restarted, and the work thread spins. If it never was connected, `main` sleeps for
  ever. `stop` sets `has_stopped`, which makes the destructor return early with a
  thread that is still joinable: the client ends in `std::terminate` (`End`).

### Bounds

* *Users.* All friend state is per pair of users, and a command touches one
  pair; two users with three sessions contain every race of a user with
  itself and with the other. The theorems remove the bound.
* *Sessions.* Three: the other user, and one user twice, so that the same answer
  can be given twice at once.
* `MaxRooms = 2`: two rooms for one pair are what racing acceptances can make.
* `MaxGroups = 1`: a command names one group and every container is per group.
  The set of groups a client may name also has one that does not exist.
* `MaxEntries`: how many entries one application may leave in a list
  (`std::multimap`). One suffices for membership; applying again needs
  two.
* `MaxUsers = 2`, two connections: a connection that changes its user while
  another of either user comes and goes. The theorems are about any number.
  `MaxPushes`: one pending push is enough for all but the run about two writes.
* `MaxBytes = 13`: three packages, or two and the start of a third, so that a read
  can end inside every field and span a boundary. `buffer_lenth` is smaller than
  that, and `max_heart_beat_num = 1` lets the check fail and pass.
  `MaxHeartBeats = 3`: the count goes on beyond the limit, and by then a check is due. In `Framing` the
  length has 2 bytes (4 in the code), type and request id have 1 each.
* `RateLimiter`: one tick refills one unit and a connection costs two, so that counts
  between zero and one token occur; the clock runs past `CleanAge`. `MaxDebt` ends
  the growth of a count below zero by refused attempts, each of which costs a token too.
  `MaxStall` is an assumption about the code's environment and not only a bound: a
  thread has the spin lock soon after it has read the clock. The module assumes
  `CleanAge` (a minute) to be longer than the refill of a bucket, a token and that
  delay twice together; a thread delayed by more than a minute could find its bucket
  erased meanwhile. The instance lies on the edge of that assumption.
* `MaxLines = 3`: a line before, during and after the worker's look at the queue.
* Client: ids 0 and 1, so that the id 0 occurs and ids run out and are drawn again;
  three requests, so that one can be left without an answer before the next. All
  commands of the client are tried, with options they have and have not, with and
  without values, of both types. Delays are in units of five seconds.
* `store`: five messages in five ticks run ahead of the clock, are caught up with,
  and are cleaned, in one behaviour. `Keep = 2` stands for the week.

Views and symmetry: sessions of one user are interchangeable, so are the threads
and the addresses of the rate limiter (`MCSymmetry`), and
the `groups` run hides `reply`, which no action and none of its properties
reads. The runs with a liveness property use neither.

Deadlock is checked in `friends` and `groups`. In `connections` all sockets may be
closed, and in `framing` the one may be; a closed one never opens again, so
`CHECK_DEADLOCK FALSE` is set; so it is in `logger` (after `join`), `client` (the user
ends it) and `store` (the bounds are used up and the room is gone).

### Fairness

The `io_context` is run by a pool of threads and runs every handler that is
ready: a posted command goes on until it answers, and a completed read or write
is delivered. So each session's (or connection's) own next step is weakly fair,
and nothing is assumed of the peer: whether it ever sends a command, or goes
away, is its choice. In `Groups` the wait for the group set lock needs no more than
weak fairness because `createGroup` can hold it only a bounded number of times.
In `Logger` the worker, the printing threads and `join` go on whenever they can,
and nothing makes anybody print or call `join`. In `TestClient` the two threads go on,
what has arrived is read, and the server answers what it has received; neither the user nor
the network owes anything, and a lost connection excuses a call. In `MessageStore`
the executor runs the coroutine and timers expire; no message is ever due.
`AnsweredWhileBytesArrive` says in the property what it needs of the peer, that
bytes keep arriving; `framing_stall` shows that it is needed.

### Assumptions about the environment

* `MessageStore`: `utc_clock` does not go back.
* `TestClient`: timers that have expired are handled in the order in which they expire.
  Two writes at once on the client's socket (a heartbeat and a request) may corrupt
  the stream; this shows as the loss of the connection (`Lose`), like a second TLS
  handshake on the old stream that succeeds and carries nothing. The bytes of a partial
  package that stay in the buffer over a new connection are left out; whole packages that
  stay are modelled.
* The client registers a callback after drawing its id and before sending, without a
  lock. It is safe for one calling thread, because the draw needs the locks that the
  work thread holds until it has erased the callback of the answer before
  (`NothingUndefined`); for two it would not be.

## 4. The proofs

`FriendsProofs` proves, for any sets of users and sessions and any `MaxRooms`:
`TypeCorrect`, `FriendsHaveRoomAlways`, `SendReachesRoomAlways`,
`VerifiedIsBeingAcceptedAlways`, `RoomsArePermanent` and
`ImplementsFriendship`.

`FriendsHaveRoom` is not inductive: when a session adds a friend to a list,
nothing in the property says the room was made. `IInv` therefore adds that a command
in progress names a registered user other than its own (`PeerInv`), that the
pair index names an existing room of that pair (`IndexInv`), that a session past
the creation of the room has one (`AcceptInv`), and that friends are in the index
(`FriendIndexInv`). Rooms are never removed, which is what makes the last two stable
under the steps of the others; `RoomsArePermanent` states it. The refinement is
proved by showing for every action which abstract step it is; the grant is
visible only while a session carries it out, and two sessions may carry out the
same one, which is why `Friendship!Open` may leave the grant in place.

`ConnectionsProofs` proves for any number of connections and users:
`TypeCorrect`, `MapsAlwaysAgree`, `RegisteredOnlyWhileRunning`,
`CommandsAlwaysRunAsOwner`, `LoginOnlyWithPassword`. Its invariant adds that the
connection's own user id equals the user in `Manager`'s map except between
`modifyUserOfConnection` and the write of `m_user_id` (`ActingInv`), and that a
login past the password check names a user with a password (`LoginInv`).

`RateLimiterProofs` proves for any number of threads and addresses, any capacities and
any times: `TypeCorrect`, `AddressLimitAlways`, `GlobalLimitAlways`. Assumptions are
those of the module: positive capacities, and `CleanAge` as above. `BucketInv` says
that what was granted in the period and the tokens that are left are paid for by the
bucket at its start and the refill (`Paid`), unless the bucket was erased, and then
long enough has passed to earn a full one (`Renewed`). It is here that the wait
for the lock counts twice: a thread with an old time may move `last_update` back by it,
so that the bucket is erased earlier, and a second one may use the new bucket with an
old time. `GlobalInv` says the same of the global tokens at each place where a thread
that is alone in the global part may be.

`GroupsProofs` proves for any number of users, sessions and groups: `TypeCorrect`,
`MembersAlwaysSeeGroup`, `VerifiedAlwaysBeingAccepted`, `ApplicationAlwaysListed`,
`GroupIdsAlwaysFresh`, `AdministratorsGrant` and `ImplementsMembership`. Its invariant
adds that a command in progress names a group that was created and, from the lookup on,
a registered user (`ControlInv`), that exactly the ids below the counter have been
handed out (`RegistryInv`), and that nobody has applied to a later one (`FreshInv`).
`ApplicationIsListed` needs counting. The lists are multimaps, an answer erases one entry,
and several answers and a new application may be at work on the same list; so `ListInv`
says that a list has at least as many entries as there are open applications and
erasures still to come, less those that an `add_group` has still to write. The sets of
sessions that are counted must be finite (`SessionsAssumption`). Every action is either
`Quiet` (it moves nothing that these counts speak of) or one of a few `Writes`, and the
preservation lemmas are about the two kinds. For the refinement, a session past the
administrator check acts for the administrator (`AdministratorInv`), since a group never
changes hands; `granted` is read off the sessions that are letting somebody in.
`GroupIdsFresh` is a theorem without a run: it follows from `Membership`, where a group
is founded once, and the run checks that.

`FramingProofs` proves for any sizes, bounds and ids: `TypeCorrect`,
`RequestsAlwaysAccountedFor`, `ImplementsChannel`. That the buffer followed by the wire are the
bytes of the packages in `sent` would be a recursive statement and need induction over
sequences; `FrameInv` says instead that there are places (`ends`), one behind each
package, such that at each place the header of the next one is found and the last place is
the end. A package sent adds a place (`FramesSend`), a package taken removes the first
(`FramesTake`), and what the loop reads at the front is the first one (`FirstRead`).
`IdInv` says that unanswered requests have different ids.

`LoggerProofs` proves for any number of threads and lines `TypeCorrect` and
`AlwaysFlushedWhenJoined`: the file followed by the queue is what was printed
(`QueueInv`), and a worker that has ended had written all that was due (`StopInv`).

`MessageStoreProofs` proves for any period of cleaning, and any number of threads
and messages: `TypeCorrect`, `RecentAlwaysKept`, `HistoryAlwaysInOrder`. The order rests on `AheadInv`: in a group the times from the clock
to the latest message are all taken, so the first free time is later than all the others.
A private room never stores ahead of the clock (`BehindInv`). `HistoryInOrder` is about
what `getMessage` returns, and follows from the order of the map (`OrderInv`).

`TestClientProofs` proves for any ids and any bounds: `TypeCorrect`,
`AlwaysUnderstoodByServer`, `NeverUndefined`, `AlwaysOneHeartbeat`,
`PendingAlwaysHasCallback`, `AlwaysOwnAnswer`. Of the packages on their way at most one is
an answer, and it belongs to the call under way (`FlightInv`); a call without an answer has
its id and its callback, and no callback is being erased (`CallInv`); while the retry timer
runs, the heartbeat of the lost connection ends no later (`HeartInv`), which is how two are
excluded. `AlwaysUnderstoodByServer` goes through the tables: every row of the client's
commands is a call of `Session` with the options it reads, and every call has the parameters
the server asks for (`CommandsFit`).

Assumptions on the constants, each in the module that declares it:

* `IdsAssumption`, `UserOfAssumption` (`Friends`, `Groups`): users are ids, `Nobody` is
  not, a session has a user, which `Connections` shows of the sessions it makes.
* `SessionsAssumption` (`Groups`): finitely many sessions. Every one is a connection.
* `ThreadsAssumption` (`Logger`): no printing thread is called as the mark of the free
  mutex or as the worker. `MarksAssumption` (`TestClient`): the marks for "nothing" and
  "writing" are not values. Both are about names the models chose.
* `KeepAssumption` (`MessageStore`): a positive period. In the code it is a week.
* `DataSizesAssumption`, `RequestIDsAssumption`, `MalformedLengthsAssumption` (`Framing`):
  data fit the length field, as `makePackage` is given them; a request id is not 0;
  a malformed length is 0 or that of the length field alone, both shorter than a header.
* Of `RateLimiter`, see above. All others say that bounds are numbers.

Only model-checked: the properties that hold under fairness, which the prover does not reach:
`EveryCommandAnswered`, `HangupIsNoticed`, `AnsweredWhileBytesArrive`, `PrintedIsWritten`,
`CallReturns`, `OldForgotten`; and the findings, where TLC's counterexample is the proof.
Every other property of a run is a theorem.

## 5. Not modelled, and the plan

Left to prove: the safety half of the liveness properties, where one can be stated (a group
set lock has a holder that will release it; a printed line has a notification or a worker
that is awake); an abstract specification of the connection table, as `Friendship` and
`Membership` are of the commands.

Not modelled:

* *Moderation* (`GroupPermission`, `UserLevel`, mute, kick, operators): no command of
  the protocol calls these functions. `muteUser`, `unmuteUser` and `kickUser` call
  `sendTipMessage` with the lock it takes, so the first call of a single thread ends
  there, and `UserLevel::decrease` checks the sum where it subtracts. Both show in
  one sequential call; a model would add no interleaving to them.
* `DataManager` and `SQLProcess`: without effect at this commit, the statements are
  commented out. `KCPRoom`: nothing makes an object of it.
* Console input, start-up and configuration, regular expressions, hashing, error
  codes, the timer wrapper: sequential, without shared state. TLS and sockets are
  libraries.
* Of the modelled parts: the text and level of a log line beyond whether it is
  printed, and the file's name; the getters and functions nothing calls
  (`get_bool`, `get_double`, `show`, the client's `disconnect`, the setters of the rate limiter).
