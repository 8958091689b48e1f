------------------------- MODULE MessageStoreProofs -------------------------
(***************************************************************************)
(* Proofs about MessageStore, for every number of threads and messages and  *)
(* every time a message is kept.                                           *)
(*                                                                         *)
(* A burst of messages runs ahead of the clock.  The properties hold        *)
(* because the times that are taken never leave a gap between the clock and *)
(* the last of them, so that the first free time is later than all others.  *)
(***************************************************************************)
EXTENDS MessageStore, TLAPS, SequenceTheorems, FiniteSetTheorems

\* In a group the times from the clock up to some time are taken, and none from
\* there on; messages sent move that time at most one tick each.
AheadInv ==
    kind = "group" =>
        \E h \in clock .. (clock + Len(at)) :
            /\ \A t \in clock .. (h - 1) : t \in DOMAIN m_message_map
            /\ \A t \in DOMAIN m_message_map : t < h

\* In a private room no time is ahead of the clock.
BehindInv == kind = "private" => \A t \in DOMAIN m_message_map : t <= clock

\* Later times have later messages.
OrderInv ==
    \A t1, t2 \in DOMAIN m_message_map : t1 < t2 => m_message_map[t1] < m_message_map[t2]

\* RecentKept, whether the room is alive or not.
KeptInv ==
    \A n \in DOMAIN at :
        \/ at[n] <= clock - Keep
        \/ /\ at[n] \in DOMAIN m_message_map
           /\ kind = "group" => m_message_map[at[n]] = n
           /\ kind = "private" => m_message_map[at[n]] <= n

IInv ==
    /\ TypeOK
    /\ Len(at) <= MaxMessages
    /\ AheadInv
    /\ BehindInv
    /\ OrderInv
    /\ KeptInv

-----------------------------------------------------------------------------
\* The bounds and the types of the state the proofs compute with.
LEMMA Numbers ==
    ASSUME IInv
    PROVE  /\ MaxMessages \in Nat /\ MaxClock \in Nat /\ Keep \in Nat \ {0}
           /\ clock \in Nat /\ clock <= MaxClock
           /\ at \in Seq(Times) /\ Len(at) \in Nat /\ DOMAIN at = 1 .. Len(at)
           /\ Len(at) <= MaxMessages
           /\ \A t \in DOMAIN m_message_map : t \in Nat /\ t \in Times
           /\ \A n \in DOMAIN at : at[n] \in Nat /\ n \in Nat
           /\ \A t \in DOMAIN m_message_map : m_message_map[t] \in 1 .. Len(at)
<1>1. MaxMessages \in Nat /\ MaxClock \in Nat /\ Keep \in Nat \ {0}
  BY BoundsAssumption, KeepAssumption
<1>2. clock \in Nat /\ clock <= MaxClock
  BY <1>1 DEF IInv, TypeOK
<1>3. at \in Seq(Times) /\ Len(at) \in Nat /\ DOMAIN at = 1 .. Len(at) /\ Len(at) <= MaxMessages
  BY LenProperties DEF IInv, TypeOK
<1>4. Times \subseteq Nat
  BY <1>1 DEF Times
<1>5. \A n \in DOMAIN at : at[n] \in Times /\ n \in Nat
  BY <1>3, ElementOfSeq
<1> QED BY <1>1, <1>2, <1>3, <1>4, <1>5 DEF IInv, TypeOK

\* Init satisfies the invariant.
LEMMA InitIInv == Init => IInv
<1> SUFFICES ASSUME Init PROVE IInv
  OBVIOUS
<1>1. TypeOK
  BY BoundsAssumption DEF Init, TypeOK, Senders
<1>2. Len(at) <= MaxMessages /\ Len(at) = 0 /\ DOMAIN at = {}
  BY BoundsAssumption DEF Init
<1>3. AheadInv
  BY <1>2 DEF Init, AheadInv
<1>4. BehindInv /\ OrderInv
  BY DEF Init, BehindInv, OrderInv
<1>5. KeptInv
  BY <1>2 DEF KeptInv
<1> QED BY <1>1, <1>2, <1>3, <1>4, <1>5 DEF IInv

\* The first free time of a group is later than every time that is taken.
LEMMA FreeTimeIsLast ==
    ASSUME IInv, kind = "group", Len(at) < MaxMessages
    PROVE  /\ FreeTime \in clock .. (clock + Len(at))
           /\ \A t \in clock .. (FreeTime - 1) : t \in DOMAIN m_message_map
           /\ \A t \in DOMAIN m_message_map : t < FreeTime
<1>0. /\ MaxMessages \in Nat /\ clock \in Nat /\ Len(at) \in Nat
      /\ \A t \in DOMAIN m_message_map : t \in Nat
  BY Numbers
<1>1. PICK h \in clock .. (clock + Len(at)) :
         /\ \A t \in clock .. (h - 1) : t \in DOMAIN m_message_map
         /\ \A t \in DOMAIN m_message_map : t < h
  BY DEF IInv, AheadInv
<1> DEFINE P(t) == /\ t \notin DOMAIN m_message_map
                   /\ \A earlier \in clock .. t - 1 : earlier \in DOMAIN m_message_map
<1>2. h \in clock .. clock + MaxMessages /\ P(h)
  BY <1>0, <1>1
<1>3. FreeTime \in clock .. clock + MaxMessages /\ P(FreeTime)
  BY <1>2 DEF FreeTime
<1>4. FreeTime = h
  BY <1>0, <1>1, <1>3
<1> QED BY <1>1, <1>4

-----------------------------------------------------------------------------
(* The parts of TypeOK that the steps of the threads and the coroutine and  *)
(* those of the map keep.                                                  *)

MapTypeOK ==
    /\ DOMAIN m_message_map \subseteq Times
    /\ \A t \in DOMAIN m_message_map : m_message_map[t] \in DOMAIN at
    /\ at \in Seq(Times)
ControlTypeOK ==
    /\ kind \in {"group", "private"}
    /\ clock \in 0 .. MaxClock
    /\ sender \in [Threads -> Senders]
    /\ cleaner \in {"arming", "armed", "fired", "cancelled", "ended", "undefined"}

\* The three parts of TypeOK.
LEMMA TypeParts == TypeOK <=> MapTypeOK /\ ControlTypeOK /\ owner \in BOOLEAN
BY DEF TypeOK, MapTypeOK, ControlTypeOK

\* Every step keeps the types of the control.
LEMMA ControlStep == ControlTypeOK /\ [Next]_vars => ControlTypeOK'
<1> SUFFICES ASSUME ControlTypeOK, [Next]_vars PROVE ControlTypeOK'
  OBVIOUS
<1> USE DEF ControlTypeOK, Senders
<1>1. ASSUME NEW t \in Threads, getRoom(t) PROVE ControlTypeOK'
  BY <1>1 DEF getRoom
<1>2. ASSUME NEW t \in Threads, StoreInGroup(t) \/ StoreInPrivate(t) PROVE ControlTypeOK'
  BY <1>2 DEF StoreInGroup, StoreInPrivate
<1>3. ASSUME NEW t \in Threads, Push(t) PROVE ControlTypeOK'
  BY <1>3 DEF Push, Release, stop_cleaning
<1>4. CASE removeGroupRoom
  BY <1>4 DEF removeGroupRoom, Release, stop_cleaning
<1>5. CASE Arm \/ Fire \/ Cancelled
  BY <1>5 DEF Arm, Fire, Cancelled
<1>6. CASE Clean
  BY <1>6 DEF Clean, Loop
<1>7. CASE Tick
  BY <1>7, BoundsAssumption DEF Tick
<1>8. CASE UNCHANGED vars
  BY <1>8 DEF vars
<1> QED BY <1>1, <1>2, <1>3, <1>4, <1>5, <1>6, <1>7, <1>8 DEF Next

\* owner stays a Boolean.
LEMMA OwnerStep == owner \in BOOLEAN /\ [Next]_vars => owner' \in BOOLEAN
BY DEF Next, getRoom, StoreInGroup, StoreInPrivate, Push, removeGroupRoom, Release, Arm,
       Fire, Clean, Cancelled, Tick, vars

-----------------------------------------------------------------------------
(* The steps that concern the messages: storing, cleaning, and the clock.  *)

\* Only storing, cleaning and the clock move the map, the clock or the history.
LEMMA MapMoves ==
    ASSUME [Next]_vars
    PROVE  \/ \E t \in Threads : StoreInGroup(t) \/ StoreInPrivate(t)
           \/ Clean /\ UNCHANGED <<kind, clock, at>>
           \/ Tick
           \/ UNCHANGED <<kind, clock, m_message_map, at>>
BY DEF Next, getRoom, Push, removeGroupRoom, Arm, Fire, Cancelled, Clean, vars

MessageInv ==
    MapTypeOK /\ Len(at) <= MaxMessages /\ AheadInv /\ BehindInv /\ OrderInv /\ KeptInv

\* What storing the next message under time x does.
LEMMA Stores ==
    ASSUME IInv, Len(at) < MaxMessages, NEW x \in clock .. (clock + Len(at)),
           m_message_map' = Insert(x, Len(at) + 1), at' = Append(at, x)
    PROVE  /\ MapTypeOK' /\ Len(at') = Len(at) + 1 /\ Len(at') <= MaxMessages
           /\ DOMAIN m_message_map' = DOMAIN m_message_map \cup {x}
           /\ \A t \in DOMAIN m_message_map : m_message_map'[t] = m_message_map[t]
           /\ x \notin DOMAIN m_message_map => m_message_map'[x] = Len(at) + 1
           /\ DOMAIN at' = 1 .. Len(at) + 1
           /\ \A n \in DOMAIN at : at'[n] = at[n]
           /\ at'[Len(at) + 1] = x
<1>0. /\ MaxMessages \in Nat /\ MaxClock \in Nat
      /\ clock \in Nat /\ clock <= MaxClock
      /\ at \in Seq(Times) /\ Len(at) \in Nat /\ DOMAIN at = 1 .. Len(at)
  BY Numbers
<1>1. x \in Times
  BY <1>0 DEF Times
<1>2. /\ at' \in Seq(Times) /\ Len(at') = Len(at) + 1
      /\ \A n \in 1 .. Len(at) : at'[n] = at[n]
      /\ at'[Len(at) + 1] = x
  BY <1>0, <1>1, AppendProperties
<1>3. DOMAIN at' = 1 .. Len(at) + 1
  BY <1>2, LenProperties
<1>4. /\ DOMAIN m_message_map' = DOMAIN m_message_map \cup {x}
      /\ \A t \in DOMAIN m_message_map : m_message_map'[t] = m_message_map[t]
      /\ x \notin DOMAIN m_message_map => m_message_map'[x] = Len(at) + 1
  BY DEF Insert
<1>5. MapTypeOK'
  <2>1. DOMAIN m_message_map' \subseteq Times
    BY <1>1, <1>4 DEF IInv, TypeOK
  <2>2. ASSUME NEW t \in DOMAIN m_message_map' PROVE m_message_map'[t] \in DOMAIN at'
    <3>1. CASE t \in DOMAIN m_message_map
      <4>1. m_message_map[t] \in 1 .. Len(at)
        BY <3>1, Numbers
      <4> QED BY <1>0, <1>3, <1>4, <3>1, <4>1
    <3>2. CASE t \notin DOMAIN m_message_map
      <4>1. m_message_map'[t] = Len(at) + 1
        BY <1>4, <3>2
      <4> QED BY <1>0, <1>3, <4>1
    <3> QED BY <3>1, <3>2
  <2> QED BY <1>2, <2>1, <2>2 DEF MapTypeOK
<1> QED BY <1>0, <1>2, <1>3, <1>4, <1>5

\* A message of a group gets a time of its own, later than all others.
LEMMA GroupStep ==
    ASSUME IInv, NEW th \in Threads, StoreInGroup(th)
    PROVE  MessageInv'
<1>0. /\ MaxMessages \in Nat /\ clock \in Nat /\ Len(at) \in Nat
      /\ DOMAIN at = 1 .. Len(at)
      /\ \A t \in DOMAIN m_message_map : t \in Nat
      /\ \A t \in DOMAIN m_message_map : m_message_map[t] \in 1 .. Len(at)
      /\ \A n \in DOMAIN at : at[n] \in Nat
  BY Numbers
<1>1. /\ kind = "group" /\ kind' = "group" /\ clock' = clock /\ Len(at) < MaxMessages
      /\ m_message_map' = Insert(FreeTime, Len(at) + 1) /\ at' = Append(at, FreeTime)
  BY DEF StoreInGroup
<1>2. PICK x \in clock .. (clock + Len(at)) :
         /\ x = FreeTime
         /\ \A t \in clock .. (x - 1) : t \in DOMAIN m_message_map
         /\ \A t \in DOMAIN m_message_map : t < x
  BY <1>1, FreeTimeIsLast
<1>3. /\ MapTypeOK' /\ Len(at') = Len(at) + 1 /\ Len(at') <= MaxMessages
      /\ DOMAIN m_message_map' = DOMAIN m_message_map \cup {x}
      /\ \A t \in DOMAIN m_message_map : m_message_map'[t] = m_message_map[t]
      /\ x \notin DOMAIN m_message_map => m_message_map'[x] = Len(at) + 1
      /\ DOMAIN at' = 1 .. Len(at) + 1
      /\ \A n \in DOMAIN at : at'[n] = at[n]
      /\ at'[Len(at) + 1] = x
  BY <1>1, <1>2, Stores
<1>4. x \in Nat /\ x \notin DOMAIN m_message_map /\ m_message_map'[x] = Len(at) + 1
  BY <1>0, <1>2, <1>3
<1>5. AheadInv'
  <2>1. x + 1 \in clock' .. (clock' + Len(at'))
    BY <1>0, <1>1, <1>2, <1>3
  <2>2. ASSUME NEW t \in clock' .. ((x + 1) - 1) PROVE t \in DOMAIN m_message_map'
    BY <1>0, <1>1, <1>2, <1>3, <1>4, <2>2
  <2>3. ASSUME NEW t \in DOMAIN m_message_map' PROVE t < x + 1
    BY <1>0, <1>2, <1>3, <1>4, <2>3
  <2> QED BY <2>1, <2>2, <2>3 DEF AheadInv
<1>6. BehindInv'
  BY <1>1 DEF BehindInv
<1>7. OrderInv'
  BY <1>0, <1>2, <1>3, <1>4 DEF OrderInv, IInv
<1>8. KeptInv'
  <2> SUFFICES ASSUME NEW n \in DOMAIN at', ~(at'[n] <= clock - Keep)
               PROVE  at'[n] \in DOMAIN m_message_map' /\ m_message_map'[at'[n]] = n
    BY <1>1 DEF KeptInv
  <2>1. CASE n = Len(at) + 1
    BY <1>3, <1>4, <2>1
  <2>2. CASE n # Len(at) + 1
    <3>1. n \in DOMAIN at /\ at'[n] = at[n]
      BY <1>0, <1>3, <2>2
    <3>2. at[n] \in DOMAIN m_message_map /\ m_message_map[at[n]] = n
      BY <1>1, <3>1 DEF IInv, KeptInv
    <3> QED BY <1>3, <3>1, <3>2
  <2> QED BY <2>1, <2>2
<1> QED BY <1>3, <1>5, <1>6, <1>7, <1>8 DEF MessageInv

\* A message of a private room is stored under the clock, if that is free.
LEMMA PrivateStep ==
    ASSUME IInv, NEW th \in Threads, StoreInPrivate(th)
    PROVE  MessageInv'
<1>0. /\ MaxMessages \in Nat /\ clock \in Nat /\ Len(at) \in Nat
      /\ DOMAIN at = 1 .. Len(at)
      /\ \A t \in DOMAIN m_message_map : t \in Nat
      /\ \A t \in DOMAIN m_message_map : m_message_map[t] \in 1 .. Len(at)
      /\ \A n \in DOMAIN at : at[n] \in Nat
  BY Numbers
<1>1. /\ kind = "private" /\ kind' = "private" /\ clock' = clock /\ Len(at) < MaxMessages
      /\ m_message_map' = Insert(clock, Len(at) + 1) /\ at' = Append(at, clock)
  BY DEF StoreInPrivate
<1>2. clock \in clock .. (clock + Len(at))
  BY <1>0
<1>3. /\ MapTypeOK' /\ Len(at') = Len(at) + 1 /\ Len(at') <= MaxMessages
      /\ DOMAIN m_message_map' = DOMAIN m_message_map \cup {clock}
      /\ \A t \in DOMAIN m_message_map : m_message_map'[t] = m_message_map[t]
      /\ clock \notin DOMAIN m_message_map => m_message_map'[clock] = Len(at) + 1
      /\ DOMAIN at' = 1 .. Len(at) + 1
      /\ \A n \in DOMAIN at : at'[n] = at[n]
      /\ at'[Len(at) + 1] = clock
  BY <1>1, <1>2, Stores
<1>4. \A t \in DOMAIN m_message_map : t <= clock
  BY <1>1 DEF IInv, BehindInv
<1>5. AheadInv'
  BY <1>1 DEF AheadInv
<1>6. BehindInv'
  BY <1>0, <1>1, <1>3, <1>4 DEF BehindInv
<1>7. OrderInv'
  <2> SUFFICES ASSUME NEW t1 \in DOMAIN m_message_map', NEW t2 \in DOMAIN m_message_map',
                      t1 < t2
               PROVE  m_message_map'[t1] < m_message_map'[t2]
    BY DEF OrderInv
  <2>1. t1 \in DOMAIN m_message_map
    BY <1>0, <1>3, <1>4
  <2>2. CASE t2 \in DOMAIN m_message_map
    BY <1>3, <2>1, <2>2 DEF IInv, OrderInv
  <2>3. CASE t2 \notin DOMAIN m_message_map
    BY <1>0, <1>3, <2>1, <2>3
  <2> QED BY <2>2, <2>3
<1>8. KeptInv'
  <2> SUFFICES ASSUME NEW n \in DOMAIN at', ~(at'[n] <= clock - Keep)
               PROVE  at'[n] \in DOMAIN m_message_map' /\ m_message_map'[at'[n]] <= n
    BY <1>1 DEF KeptInv
  <2>1. CASE n = Len(at) + 1
    BY <1>0, <1>3, <2>1
  <2>2. CASE n # Len(at) + 1
    <3>1. n \in DOMAIN at /\ at'[n] = at[n]
      BY <1>0, <1>3, <2>2
    <3>2. at[n] \in DOMAIN m_message_map /\ m_message_map[at[n]] <= n
      BY <1>1, <3>1 DEF IInv, KeptInv
    <3> QED BY <1>3, <3>1, <3>2
  <2> QED BY <2>1, <2>2
<1> QED BY <1>3, <1>5, <1>6, <1>7, <1>8 DEF MessageInv

\* Cleaning erases what is older than Keep, which is behind the clock.
LEMMA CleanStep ==
    ASSUME IInv, Clean, UNCHANGED <<kind, clock, at>>
    PROVE  MessageInv'
<1>0. /\ clock \in Nat /\ Keep \in Nat \ {0} /\ Len(at) \in Nat
      /\ \A t \in DOMAIN m_message_map : t \in Nat
      /\ \A n \in DOMAIN at : at[n] \in Nat
  BY Numbers
<1>1. /\ DOMAIN m_message_map' \subseteq DOMAIN m_message_map
      /\ \A t \in DOMAIN m_message_map' : m_message_map'[t] = m_message_map[t]
      /\ \A t \in DOMAIN m_message_map : ~(t <= clock - Keep) => t \in DOMAIN m_message_map'
  BY DEF Clean, Old
<1>2. \A t \in DOMAIN m_message_map : t >= clock => t \in DOMAIN m_message_map'
  BY <1>0, <1>1
<1>3. MapTypeOK' /\ Len(at') <= MaxMessages
  BY <1>1 DEF MapTypeOK, IInv, TypeOK
<1>4. AheadInv'
  BY <1>0, <1>1, <1>2 DEF AheadInv, IInv
<1>5. BehindInv' /\ OrderInv'
  BY <1>1 DEF BehindInv, OrderInv, IInv
<1>6. KeptInv'
  BY <1>1 DEF KeptInv, IInv
<1> QED BY <1>3, <1>4, <1>5, <1>6 DEF MessageInv

\* The clock moves into what a burst took ahead of it, or past everything.
LEMMA TickStep ==
    ASSUME IInv, Tick
    PROVE  MessageInv'
<1>0. /\ clock \in Nat /\ Keep \in Nat \ {0} /\ Len(at) \in Nat
      /\ \A t \in DOMAIN m_message_map : t \in Nat
      /\ \A n \in DOMAIN at : at[n] \in Nat
  BY Numbers
<1>1. clock' = clock + 1 /\ UNCHANGED <<kind, m_message_map, at>>
  BY DEF Tick
<1>2. MapTypeOK' /\ Len(at') <= MaxMessages
  BY <1>1 DEF MapTypeOK, IInv, TypeOK
<1>3. AheadInv'
  <2> SUFFICES ASSUME kind = "group"
               PROVE  \E h \in clock' .. (clock' + Len(at)) :
                        /\ \A t \in clock' .. (h - 1) : t \in DOMAIN m_message_map
                        /\ \A t \in DOMAIN m_message_map : t < h
    BY <1>1 DEF AheadInv
  <2>1. PICK h \in clock .. (clock + Len(at)) :
           /\ \A t \in clock .. (h - 1) : t \in DOMAIN m_message_map
           /\ \A t \in DOMAIN m_message_map : t < h
    BY DEF IInv, AheadInv
  <2>2. CASE h = clock
    <3>1. clock + 1 \in clock' .. (clock' + Len(at))
      BY <1>0, <1>1
    <3>2. \A t \in clock' .. ((clock + 1) - 1) : t \in DOMAIN m_message_map
      BY <1>0, <1>1
    <3>3. \A t \in DOMAIN m_message_map : t < clock + 1
      BY <1>0, <2>1, <2>2
    <3> QED BY <3>1, <3>2, <3>3
  <2>3. CASE h # clock
    <3>1. h \in clock' .. (clock' + Len(at))
      BY <1>0, <1>1, <2>3
    <3>2. \A t \in clock' .. (h - 1) : t \in DOMAIN m_message_map
      BY <1>0, <1>1, <2>1
    <3> QED BY <2>1, <3>1, <3>2
  <2> QED BY <2>2, <2>3
<1>4. BehindInv'
  BY <1>0, <1>1 DEF BehindInv, IInv
<1>5. OrderInv'
  BY <1>1 DEF OrderInv, IInv
<1>6. KeptInv'
  BY <1>0, <1>1 DEF KeptInv, IInv
<1> QED BY <1>2, <1>3, <1>4, <1>5, <1>6 DEF MessageInv

\* Every step keeps the invariant.
LEMMA NextIInv == IInv /\ [Next]_vars => IInv'
<1> SUFFICES ASSUME IInv, [Next]_vars PROVE IInv'
  OBVIOUS
<1>1. MessageInv'
  <2>1. CASE UNCHANGED <<kind, clock, m_message_map, at>>
    BY <2>1 DEF IInv, MessageInv, TypeOK, MapTypeOK, AheadInv, BehindInv, OrderInv, KeptInv
  <2> QED BY <2>1, MapMoves, GroupStep, PrivateStep, CleanStep, TickStep
<1>2. ControlTypeOK' /\ owner' \in BOOLEAN
  BY TypeParts, ControlStep, OwnerStep DEF IInv
<1>3. TypeOK'
  BY <1>1, <1>2 DEF MessageInv, TypeOK, MapTypeOK, ControlTypeOK
<1> QED BY <1>1, <1>3 DEF IInv, MessageInv

-----------------------------------------------------------------------------
\* IInv is an invariant of MessageStore.
THEOREM Invariance == Spec => []IInv
BY InitIInv, NextIInv, PTL DEF Spec

\* Type correctness: the map never names a message that was not sent, and no
\* time runs further ahead of the clock than the number of messages.
THEOREM TypeCorrect == Spec => []TypeOK
<1>1. IInv => TypeOK
  BY DEF IInv
<1> QED BY <1>1, Invariance, PTL

\* A message younger than Keep is in the history, for every burst of messages
\* and whenever the cleaning runs.
THEOREM RecentAlwaysKept == Spec => []RecentKept
<1>1. IInv => RecentKept
  BY DEF IInv, TypeOK, KeptInv, RecentKept
<1> QED BY <1>1, Invariance, PTL

\* How many of a finite set of times are not later than one of them.
Rank(T, t) == Cardinality({earlier \in T : earlier <= t})

\* The times of a finite set have different ranks, from 1 to their number, and a
\* later time has a larger one.
LEMMA Ranks ==
    ASSUME NEW T, T \subseteq Nat, IsFiniteSet(T)
    PROVE  /\ Cardinality(T) \in Nat
           /\ \A t \in T : Rank(T, t) \in 1 .. Cardinality(T)
           /\ \A t, v \in T : t < v => Rank(T, t) < Rank(T, v)
<1> DEFINE E(t) == {earlier \in T : earlier <= t}
<1>1. Cardinality(T) \in Nat
  BY FS_CardinalityType
<1>2. ASSUME NEW t \in T
      PROVE  /\ IsFiniteSet(E(t)) /\ Cardinality(E(t)) \in Nat
             /\ Cardinality(E(t)) <= Cardinality(T) /\ Cardinality(E(t)) # 0
  <2>1. E(t) \in SUBSET T /\ t \in E(t)
    OBVIOUS
  <2>2. IsFiniteSet(E(t)) /\ Cardinality(E(t)) <= Cardinality(T)
    BY <2>1, FS_Subset
  <2>3. E(t) # {}
    BY <2>1
  <2>4. Cardinality(E(t)) \in Nat
    BY <2>2, FS_CardinalityType
  <2>5. Cardinality(E(t)) # 0
    BY <2>2, <2>3, FS_EmptySet, Zenon
  <2> QED BY <2>2, <2>4, <2>5
<1>3. ASSUME NEW t \in T, NEW v \in T, t < v
      PROVE  Cardinality(E(t)) < Cardinality(E(v))
  <2>0. /\ \A e \in T : e <= t => e <= v
        /\ v <= v /\ ~(v <= t)
    BY <1>3
  <2>1. E(t) \in SUBSET E(v) /\ v \in E(v) /\ v \notin E(t)
    <3> HIDE <1>3
    <3> QED BY <2>0, Zenon
  <2>2. E(t) # E(v)
    BY <2>1
  <2>3. /\ IsFiniteSet(E(v)) /\ Cardinality(E(v)) \in Nat /\ Cardinality(E(t)) \in Nat
    BY <1>2
  <2> HIDE DEF E
  <2>4. Cardinality(E(t)) <= Cardinality(E(v)) /\ Cardinality(E(v)) # Cardinality(E(t))
    BY <2>1, <2>2, <2>3, FS_Subset
  <2> QED BY <2>3, <2>4
<1> QED BY <1>1, <1>2, <1>3 DEF Rank

\* So the i-th time exists for every i, and the i-th times ascend.
LEMMA TimesAscend ==
    ASSUME NEW T, T \subseteq Nat, IsFiniteSet(T)
    PROVE  /\ Cardinality(T) \in Nat
           /\ \A i \in 1 .. Cardinality(T) : NthTime(T, i) \in T
           /\ \A i, j \in 1 .. Cardinality(T) : i < j => NthTime(T, i) < NthTime(T, j)
<1> DEFINE N == Cardinality(T)
           f == [t \in T |-> Rank(T, t)]
<1>1. /\ N \in Nat
      /\ \A t \in T : Rank(T, t) \in 1 .. N
      /\ \A t, v \in T : t < v => Rank(T, t) < Rank(T, v)
  BY Ranks
<1>2. f \in Surjection(T, 1 .. N)
  <2>1. f \in [T -> 1 .. N]
    BY <1>1
  <2>2. ASSUME NEW t \in T, NEW v \in T, f[t] = f[v] PROVE t = v
    <3>1. t \in Nat /\ v \in Nat /\ Rank(T, t) \in 1 .. N /\ Rank(T, v) \in 1 .. N
          /\ Rank(T, t) = Rank(T, v)
      BY <1>1, <2>2
    <3>2. ~(t < v) /\ ~(v < t)
      BY <1>1, <3>1
    <3> QED BY <3>1, <3>2
  <2>3. f \in Injection(T, 1 .. N)
    BY <2>1, <2>2 DEF Injection, IsInjective
  <2>4. IsFiniteSet(1 .. N) /\ Cardinality(1 .. N) = N
    BY <1>1, FS_Interval
  <2> HIDE DEF f, N
  <2> QED BY <2>3, <2>4, FS_Injection DEF N
<1>3. ASSUME NEW i \in 1 .. N
      PROVE  NthTime(T, i) \in T /\ Rank(T, NthTime(T, i)) = i
  <2>1. \E t \in T : Rank(T, t) = i
    BY <1>2 DEF Surjection
  <2> QED BY <2>1 DEF NthTime, Rank
<1>4. ASSUME NEW i \in 1 .. N, NEW j \in 1 .. N, i < j
      PROVE  NthTime(T, i) < NthTime(T, j)
  <2> DEFINE t == NthTime(T, i)
             v == NthTime(T, j)
  <2>1. t \in T /\ v \in T /\ Rank(T, t) = i /\ Rank(T, v) = j
    BY <1>3
  <2> HIDE DEF t, v
  <2>2. t \in Nat /\ v \in Nat
    BY <2>1
  <2>3. t # v /\ ~(v < t)
    BY <1>1, <1>4, <2>1
  <2>4. t < v
    BY <2>2, <2>3
  <2> QED BY <2>4 DEF t, v
<1> QED BY <1>1, <1>3, <1>4

\* getMessage returns the messages in the order they were stored.
THEOREM HistoryAlwaysInOrder == Spec => []HistoryInOrder
<1>1. ASSUME IInv PROVE HistoryInOrder
  <2> DEFINE from == 0
             to == MaxClock + MaxMessages
             T == {t \in DOMAIN m_message_map : from <= t /\ t <= to}
             all == getMessage(0, MaxClock + MaxMessages)
  <2>1. T \subseteq DOMAIN m_message_map /\ T \subseteq Nat /\ T \subseteq 0 .. to /\ to \in Int
    BY <1>1, Numbers DEF Times
  <2>2. IsFiniteSet(T)
    <3> HIDE DEF T, to
    <3>1. IsFiniteSet(0 .. to)
      BY <2>1, FS_Interval
    <3> QED BY <2>1, <3>1, FS_Subset
  <2>3. all = [i \in 1 .. Cardinality(T) |-> m_message_map[NthTime(T, i)]]
    BY DEF getMessage
  <2> SUFFICES ASSUME NEW i \in DOMAIN all, NEW j \in DOMAIN all, i < j
               PROVE  all[i] < all[j]
    BY DEF HistoryInOrder
  <2> HIDE DEF T, all
  <2>4. i \in 1 .. Cardinality(T) /\ j \in 1 .. Cardinality(T)
    BY <2>3
  <2>5. NthTime(T, i) \in T /\ NthTime(T, j) \in T /\ NthTime(T, i) < NthTime(T, j)
    BY <2>1, <2>2, <2>4, TimesAscend
  <2>6. m_message_map[NthTime(T, i)] < m_message_map[NthTime(T, j)]
    BY <1>1, <2>1, <2>5 DEF IInv, OrderInv
  <2> QED BY <2>3, <2>4, <2>6
<1> QED BY <1>1, Invariance, PTL

=============================================================================
