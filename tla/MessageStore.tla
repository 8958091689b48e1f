---------------------------- MODULE MessageStore ----------------------------
(***************************************************************************)
(* The messages a room keeps: GroupRoom and PrivateRoom store every message *)
(* under its time, a coroutine of the room erases the old ones, and the     *)
(* room is destroyed with its last shared_ptr.                              *)
(*                                                                         *)
(* A time is a number of ticks of utc_clock, which is assumed not to go     *)
(* back.  The timer of the coroutine may expire at any time.  The map is    *)
(* read and written under m_message_map_mutex, in one step each.            *)
(*                                                                         *)
(* Left out: who is a member (Groups, Friends), muting, which no command    *)
(* reaches, and m_can_be_used, which stays true since nothing calls         *)
(* removeThisRoom.  Only a group is ever removed from the Manager.          *)
(***************************************************************************)
EXTENDS Integers, Sequences, FiniteSets

CONSTANTS
    Threads,      \* threads that send messages
    Keep,         \* how long a message is kept: a week
    MaxMessages,  \* bound: messages sent in a behaviour
    MaxClock      \* bound: ticks in a behaviour

ASSUME KeepAssumption == Keep \in Nat \ {0}
ASSUME BoundsAssumption == MaxMessages \in Nat /\ MaxClock \in Nat

VARIABLES
    kind,           \* "group" or "private"
    clock,          \* utc_clock
    m_message_map,  \* for every time the number of the message it has
    at,             \* history: the time of every message
    owner,          \* whether the Manager has the room
    sender,         \* where each thread is in sendMessage; it holds a shared_ptr
    cleaner         \* where auto_clean is

vars == <<kind, clock, m_message_map, at, owner, sender, cleaner>>

Times == 0 .. (MaxClock + MaxMessages)
Senders == {"idle", "store", "push"}

\* The room exists as long as somebody has a shared_ptr to it.
Alive(o, s) == o \/ \E t \in Threads : s[t] # "idle"
alive == Alive(owner, sender)

\* Types; only numbers of messages that were sent are in the map.
TypeOK ==
    /\ kind \in {"group", "private"}
    /\ clock \in 0 .. MaxClock
    /\ DOMAIN m_message_map \subseteq Times
    /\ \A t \in DOMAIN m_message_map : m_message_map[t] \in DOMAIN at
    /\ at \in Seq(Times)
    /\ owner \in BOOLEAN
    /\ sender \in [Threads -> Senders]
    /\ cleaner \in {"arming", "armed", "fired", "cancelled", "ended", "undefined"}

\* The constructor: auto_clean is spawned.
Init ==
    /\ kind \in {"group", "private"}
    /\ clock = 0
    /\ m_message_map = [t \in {} |-> 0] /\ at = <<>>
    /\ owner = TRUE
    /\ sender = [t \in Threads |-> "idle"]
    /\ cleaner = "arming"

-----------------------------------------------------------------------------
(* Sending a message.                                                      *)

\* getGroupRoom, getPrivateRoom: the command takes a shared_ptr.
getRoom(t) ==
    /\ owner /\ sender[t] = "idle"
    /\ sender' = [sender EXCEPT ![t] = "store"]
    /\ UNCHANGED <<kind, clock, m_message_map, at, owner, cleaner>>

\* Mutant of FreeTime: the time is moved back until it is free.
FreeTime_Back ==
    CHOOSE t \in -MaxMessages .. clock :
        /\ t \notin DOMAIN m_message_map
        /\ \A later \in t + 1 .. clock : later \in DOMAIN m_message_map

\* Mutant of FreeTime: the time is moved in steps of two ticks.
FreeTime_Coarse ==
    CHOOSE t \in {clock + 2 * n : n \in 0 .. MaxMessages} :
        /\ t \notin DOMAIN m_message_map
        /\ \A n \in 0 .. MaxMessages :
              clock + 2 * n < t => clock + 2 * n \in DOMAIN m_message_map

\* GroupRoom moves the time forward until it is free.
FreeTime ==
    CHOOSE t \in clock .. clock + MaxMessages :
        /\ t \notin DOMAIN m_message_map
        /\ \A earlier \in clock .. t - 1 : earlier \in DOMAIN m_message_map

\* Insert: a time that is there keeps its message.
Insert(time, message) ==
    [t \in DOMAIN m_message_map \cup {time} |->
        IF t \in DOMAIN m_message_map THEN m_message_map[t] ELSE message]

\* sendMessage of a group stores the message under a time of its own.
StoreInGroup(t) ==
    /\ kind = "group" /\ sender[t] = "store" /\ Len(at) < MaxMessages
    /\ m_message_map' = Insert(FreeTime, Len(at) + 1)
    /\ at' = Append(at, FreeTime)
    /\ sender' = [sender EXCEPT ![t] = "push"]
    /\ UNCHANGED <<kind, clock, owner, cleaner>>

\* sendMessage of a private room: the second message of a tick is not stored.
StoreInPrivate(t) ==
    /\ kind = "private" /\ sender[t] = "store" /\ Len(at) < MaxMessages
    /\ m_message_map' = Insert(clock, Len(at) + 1)
    /\ at' = Append(at, clock)
    /\ sender' = [sender EXCEPT ![t] = "push"]
    /\ UNCHANGED <<kind, clock, owner, cleaner>>

\* The destructor cancels the timer, and the end of m_impl, which has the timer,
\* does so again: a wait is ended.  A coroutine whose wait is over, or has not
\* begun, is not stopped.
stop_cleaning == IF cleaner = "armed" THEN "cancelled" ELSE cleaner

\* A shared_ptr goes away, and the room with the last one.
Release(o, s) ==
    /\ owner' = o /\ sender' = s
    /\ cleaner' = IF alive /\ ~Alive(o, s) THEN stop_cleaning ELSE cleaner

\* sendData to the users of the room, and the end of sendMessage.
Push(t) ==
    /\ sender[t] = "push"
    /\ Release(owner, [sender EXCEPT ![t] = "idle"])
    /\ UNCHANGED <<kind, clock, m_message_map, at>>

\* removeGroupRoom.
removeGroupRoom ==
    /\ kind = "group" /\ owner
    /\ Release(FALSE, sender)
    /\ UNCHANGED <<kind, clock, m_message_map, at>>

-----------------------------------------------------------------------------
(* auto_clean.  It has no shared_ptr: when it goes on with a room that is   *)
(* gone, what it does is undefined.                                        *)

Arm ==
    /\ cleaner = "arming"
    /\ cleaner' = IF alive THEN "armed" ELSE "undefined"
    /\ UNCHANGED <<kind, clock, m_message_map, at, owner, sender>>

Fire ==
    /\ cleaner = "armed"
    /\ cleaner' = "fired"
    /\ UNCHANGED <<kind, clock, m_message_map, at, owner, sender>>

\* Mutant of Old: the week is left out.
Old_Now(t) == t <= clock

Old(t) == t <= clock - Keep

\* Mutant of Loop: the coroutine cleans once.
Loop_Once == "ended"

Loop == "arming"

Clean ==
    /\ cleaner = "fired"
    /\ \/ /\ alive
          /\ m_message_map' =
                [t \in {t \in DOMAIN m_message_map : ~Old(t)} |-> m_message_map[t]]
          /\ cleaner' = Loop
       \/ ~alive /\ cleaner' = "undefined" /\ UNCHANGED m_message_map
    /\ UNCHANGED <<kind, clock, at, owner, sender>>

\* async_wait throws, and the coroutine returns.
Cancelled ==
    /\ cleaner = "cancelled"
    /\ cleaner' = "ended"
    /\ UNCHANGED <<kind, clock, m_message_map, at, owner, sender>>

Tick ==
    /\ clock < MaxClock
    /\ clock' = clock + 1
    /\ UNCHANGED <<kind, m_message_map, at, owner, sender, cleaner>>

-----------------------------------------------------------------------------
Next ==
    \/ \E t \in Threads : getRoom(t) \/ StoreInGroup(t) \/ StoreInPrivate(t) \/ Push(t)
    \/ removeGroupRoom
    \/ Arm \/ Fire \/ Clean \/ Cancelled
    \/ Tick

Spec == Init /\ [][Next]_vars

\* The executor of the server runs the coroutine, and timers expire.
FairSpec == Spec /\ WF_vars(Arm) /\ WF_vars(Fire) /\ WF_vars(Clean) /\ WF_vars(Cancelled)

-----------------------------------------------------------------------------
\* The i-th time an iterator over a map with these times meets.
NthTime(times, i) ==
    CHOOSE t \in times : Cardinality({earlier \in times : earlier <= t}) = i

\* getMessage: the messages from one time to another, by their time.
getMessage(from, to) ==
    LET times == {t \in DOMAIN m_message_map : from <= t /\ t <= to}
    IN  [i \in 1 .. Cardinality(times) |-> m_message_map[NthTime(times, i)]]

\* A room's history lists messages in the order they were stored, also when a burst
\* of messages runs ahead of the clock and the clock then catches up with it.
HistoryInOrder ==
    LET all == getMessage(0, MaxClock + MaxMessages)
    IN  \A i, j \in DOMAIN all : i < j => all[i] < all[j]

\* A message that is younger than a week is in the history of a group, however many
\* are sent in one tick and whenever the cleaning runs.  A private room has at
\* least the first message of that tick.
RecentKept ==
    alive => \A n \in DOMAIN at :
        \/ at[n] <= clock - Keep
        \/ /\ at[n] \in DOMAIN m_message_map
           /\ IF kind = "group" THEN m_message_map[at[n]] = n
              ELSE m_message_map[at[n]] <= n

\* A message that is older than a week is erased at last, unless the room goes away.
OldForgotten ==
    \A t \in 0 .. MaxClock :
        (t \in DOMAIN m_message_map /\ t <= clock - Keep) ~> (t \notin DOMAIN m_message_map \/ ~alive)
=============================================================================
