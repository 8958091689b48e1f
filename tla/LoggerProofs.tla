---------------------------- MODULE LoggerProofs ----------------------------
(***************************************************************************)
(* Proofs about Logger, for every set of threads and number of lines.      *)
(*                                                                         *)
(* FlushedWhenJoined looks at the moment join returns.  What makes it true  *)
(* is kept up all the time: the file and the queue together are the lines   *)
(* that were printed, and a worker that has ended had seen the flag and     *)
(* then an empty queue, when no more lines could fall due.                  *)
(***************************************************************************)
EXTENDS Logger, TLAPS, SequenceTheorems

\* No line is lost, repeated or overtaken between print and the file.
QueueInv ==
    /\ m_file \o m_msgQueue = printed
    /\ due <= Len(printed) /\ Len(printed) <= MaxLines

\* The flag is cleared by join only, and the worker ends only after that, when
\* all that is due has been written; join returns only after that.
StopInv ==
    /\ joiner = "running" <=> m_isRunning = TRUE
    /\ worker = "ended" => joiner # "running" /\ Len(m_file) >= due
    /\ joiner = "returned" => worker = "ended"

IInv == TypeOK /\ QueueInv /\ StopInv

-----------------------------------------------------------------------------
\* A line moves from the front of the queue to the end of the file, and enters
\* at the end of the queue.
LEMMA QueueMoves ==
    ASSUME NEW S, NEW f \in Seq(S), NEW q \in Seq(S), NEW e \in S
    PROVE  /\ f \o Append(q, e) = Append(f \o q, e)
           /\ q # <<>> => Append(f, Head(q)) \o Tail(q) = f \o q
<1>1. <<e>> \in Seq(S) /\ f \o q \in Seq(S)
  BY ConcatProperties
<1>2. f \o Append(q, e) = Append(f \o q, e)
  <2>1. Append(q, e) = q \o <<e>> /\ Append(f \o q, e) = (f \o q) \o <<e>>
    BY <1>1, AppendIsConcat
  <2>2. (f \o q) \o <<e>> = f \o (q \o <<e>>)
    BY <1>1, ConcatAssociative
  <2> QED BY <2>1, <2>2
<1>3. ASSUME q # <<>> PROVE Append(f, Head(q)) \o Tail(q) = f \o q
  <2>1. Head(q) \in S /\ Tail(q) \in Seq(S) /\ <<Head(q)>> \in Seq(S)
    BY <1>3, HeadTailProperties
  <2>2. Append(f, Head(q)) = f \o <<Head(q)>>
    BY <2>1, AppendIsConcat
  <2>3. (f \o <<Head(q)>>) \o Tail(q) = f \o (<<Head(q)>> \o Tail(q))
    BY <2>1, ConcatAssociative
  <2>4. Len(q) \in Nat \ {0}
    BY <1>3, EmptySeq
  <2>5. <<Head(q)>> \o Tail(q) = q
    <3>1. Len(q) \in 1 .. Len(q) /\ 1 \in 1 .. Len(q)
      BY <2>4
    <3>2. SubSeq(q, 1, Len(q)) = <<q[1]>> \o SubSeq(q, 1 + 1, Len(q))
      BY <3>1, SubSeqRecursiveFirst
    <3>3. SubSeq(q, 1, Len(q)) = q /\ Tail(q) = SubSeq(q, 2, Len(q))
      BY <1>3, SubSeqFull, TailIsSubSeq
    <3>4. q[1] = Head(q) /\ 1 + 1 = 2
      OBVIOUS
    <3> QED BY <3>2, <3>3, <3>4
  <2> QED BY <2>2, <2>3, <2>5
<1> QED BY <1>2, <1>3

\* The constructor establishes the invariant.
LEMMA InitIInv == Init => IInv
<1> SUFFICES ASSUME Init PROVE IInv
  OBVIOUS
<1>1. TypeOK
  BY ThreadsAssumption, MaxLinesAssumption DEF Init, TypeOK, Free, Worker
<1>2. QueueInv
  BY MaxLinesAssumption, ConcatEmptySeq DEF Init, QueueInv
<1>3. StopInv
  BY DEF Init, StopInv
<1> QED BY <1>1, <1>2, <1>3 DEF IInv

\* The types of what the mutex protects, and who holds the mutex.
DataTypeOK ==
    /\ m_msgQueue \in Seq(LogMode) /\ m_file \in Seq(LogMode) /\ printed \in Seq(LogMode)
    /\ due \in 0 .. MaxLines
ControlTypeOK ==
    /\ m_mutex \in Threads \cup {Free, Worker}
    /\ worker \in {"loop", "check", "block", "waiting", "relock", "test", "ended"}
    /\ printer \in [Threads -> {"idle", "unlock", "notify"}]
    /\ joiner \in {"running", "notify", "join", "returned"}
    /\ m_mutex = Worker <=> worker \in {"check", "block", "test"}
    /\ \A t \in Threads : m_mutex = t <=> printer[t] = "unlock"

\* TypeOK is these two and the flag.
LEMMA TypeParts == TypeOK <=> DataTypeOK /\ ControlTypeOK /\ m_isRunning \in BOOLEAN
BY DEF TypeOK, DataTypeOK, ControlTypeOK

\* Whoever enters a section under the mutex found it free: every step keeps the
\* mutex with the one thread that is in its section.
LEMMA ControlStep == ControlTypeOK /\ [Next]_vars => ControlTypeOK'
<1> SUFFICES ASSUME ControlTypeOK, [Next]_vars PROVE ControlTypeOK'
  OBVIOUS
<1> USE ThreadsAssumption DEF ControlTypeOK, Free, Worker
<1>1. ASSUME NEW t \in Threads, NEW mode \in LogMode, Emplace(t, mode) PROVE ControlTypeOK'
  BY <1>1 DEF Emplace
<1>2. ASSUME NEW t \in Threads, Unlock(t) PROVE ControlTypeOK'
  BY <1>2 DEF Unlock
<1>3. ASSUME NEW t \in Threads, Notify(t) PROVE ControlTypeOK'
  BY <1>3 DEF Notify, notify_all
<1>4. CASE Stop
  BY <1>4 DEF Stop
<1>5. CASE NotifyStop
  BY <1>5 DEF NotifyStop, notify_all
<1>6. CASE Join
  BY <1>6 DEF Join
<1>7. CASE Lock
  BY <1>7 DEF Lock
<1>8. CASE Check
  BY <1>8 DEF Check
<1>9. CASE Block
  BY <1>9 DEF Block
<1>10. CASE SpuriousWakeup
  BY <1>10 DEF SpuriousWakeup
<1>11. CASE Return
  BY <1>11 DEF Return
<1>12. CASE Invoke
  BY <1>12 DEF Invoke
<1>13. CASE UNCHANGED vars
  BY <1>13 DEF vars
<1> QED BY <1>1, <1>2, <1>3, <1>4, <1>5, <1>6, <1>7, <1>8, <1>9, <1>10, <1>11, <1>12, <1>13
           DEF Next, WorkFunction, join

\* The steps that touch the lines are those of print and of the worker.
LEMMA LinesMove ==
    ASSUME [Next]_vars
    PROVE  \/ \E t \in Threads, mode \in LogMode : Emplace(t, mode)
           \/ Invoke
           \/ UNCHANGED <<m_msgQueue, m_file, printed, due>>
BY DEF Next, WorkFunction, join, Unlock, Notify, Stop, NotifyStop, Join, Lock, Check,
       Block, SpuriousWakeup, Return, vars

\* Every step keeps the file and the queue together what was printed.
LEMMA LinesStep == DataTypeOK /\ QueueInv /\ [Next]_vars => DataTypeOK' /\ QueueInv'
<1> SUFFICES ASSUME DataTypeOK, QueueInv, [Next]_vars PROVE DataTypeOK' /\ QueueInv'
  OBVIOUS
<1>n. MaxLines \in Nat
  BY MaxLinesAssumption
<1>1. ASSUME NEW t \in Threads, NEW mode \in LogMode, Emplace(t, mode)
      PROVE  DataTypeOK' /\ QueueInv'
  <2>1. /\ Len(printed) < MaxLines /\ UNCHANGED m_file
        /\ m_msgQueue' = Append(m_msgQueue, mode) /\ printed' = Append(printed, mode)
        /\ due' = due + 1 \/ due' = due
    BY <1>1 DEF Emplace
  <2>2. /\ m_msgQueue' \in Seq(LogMode) /\ m_file' \in Seq(LogMode)
        /\ printed' \in Seq(LogMode)
        /\ Len(printed') = Len(printed) + 1 /\ Len(printed) \in Nat
    BY <2>1, AppendProperties, LenProperties DEF DataTypeOK
  <2>3. m_file' \o m_msgQueue' = printed'
    BY <2>1, QueueMoves DEF DataTypeOK, QueueInv
  <2>4. due' \in 0 .. MaxLines /\ due' <= Len(printed') /\ Len(printed') <= MaxLines
    BY <1>n, <2>1, <2>2 DEF DataTypeOK, QueueInv
  <2> QED BY <2>2, <2>3, <2>4 DEF DataTypeOK, QueueInv
<1>2. CASE Invoke
  <2>1. /\ m_msgQueue # <<>> /\ UNCHANGED <<printed, due>>
        /\ m_file' = Append(m_file, Head(m_msgQueue)) /\ m_msgQueue' = Tail(m_msgQueue)
    BY <1>2 DEF Invoke, PrintTask
  <2>2. Head(m_msgQueue) \in LogMode /\ m_msgQueue' \in Seq(LogMode)
    BY <2>1, HeadTailProperties DEF DataTypeOK
  <2>3. m_file' \in Seq(LogMode)
    BY <2>1, <2>2, AppendProperties DEF DataTypeOK
  <2>4. m_file' \o m_msgQueue' = printed'
    BY <2>1, <2>2, QueueMoves DEF DataTypeOK, QueueInv
  <2> QED BY <2>1, <2>2, <2>3, <2>4 DEF DataTypeOK, QueueInv
<1>3. CASE UNCHANGED <<m_msgQueue, m_file, printed, due>>
  BY <1>3 DEF DataTypeOK, QueueInv
<1> QED BY <1>1, <1>2, <1>3, LinesMove

\* Every step keeps what is known of the end: the queue the worker saw empty
\* held all that was due, and nothing falls due after the flag is cleared.
LEMMA StopStep == IInv /\ [Next]_vars => StopInv'
<1> SUFFICES ASSUME IInv, [Next]_vars PROVE StopInv'
  OBVIOUS
<1>0. StopInv
  BY DEF IInv
<1>1. ASSUME NEW t \in Threads, NEW mode \in LogMode, Emplace(t, mode) PROVE StopInv'
  BY <1>0, <1>1 DEF Emplace, StopInv
<1>2. ASSUME NEW t \in Threads, Unlock(t) \/ Notify(t) PROVE StopInv'
  BY <1>0, <1>2 DEF Unlock, Notify, notify_all, StopInv
<1>3. CASE Stop
  BY <1>0, <1>3 DEF Stop, StopInv
<1>4. CASE NotifyStop
  BY <1>0, <1>4 DEF NotifyStop, notify_all, StopInv
<1>5. CASE Join
  BY <1>0, <1>5 DEF Join, StopInv
<1>6. CASE Lock \/ Check \/ Block \/ SpuriousWakeup
  BY <1>0, <1>6 DEF Lock, Check, Block, SpuriousWakeup, StopInv
<1>7. CASE Return
  <2>1. m_file = printed
    BY <1>7, ConcatEmptySeq DEF Return, Done, IInv, QueueInv, TypeOK
  <2>2. Len(m_file) >= due /\ Len(m_file') >= due'
    BY <1>7, <2>1, LenProperties DEF Return, IInv, QueueInv, TypeOK
  <2> QED BY <1>0, <1>7, <2>2 DEF Return, Done, StopInv
<1>8. CASE Invoke
  <2>1. worker = "test" /\ worker' = "loop" /\ UNCHANGED <<m_isRunning, joiner>>
    BY <1>8 DEF Invoke
  <2> QED BY <1>0, <2>1 DEF StopInv
<1>9. CASE UNCHANGED vars
  BY <1>0, <1>9 DEF vars, StopInv
<1> QED BY <1>1, <1>2, <1>3, <1>4, <1>5, <1>6, <1>7, <1>8, <1>9 DEF Next, WorkFunction, join

\* The flag stays a Boolean.
LEMMA FlagStep == m_isRunning \in BOOLEAN /\ [Next]_vars => m_isRunning' \in BOOLEAN
BY DEF Next, WorkFunction, join, Emplace, Unlock, Notify, Stop, NotifyStop, Join, Lock,
       Check, Block, SpuriousWakeup, Return, Invoke, vars

\* IInv is an invariant of Logger.
THEOREM Invariance == Spec => []IInv
<1>1. IInv /\ [Next]_vars => IInv'
  BY TypeParts, ControlStep, LinesStep, StopStep, FlagStep
     DEF IInv, TypeOK, DataTypeOK, ControlTypeOK
<1> QED BY <1>1, InitIInv, PTL DEF Spec

\* Type correctness, with mutual exclusion: the mutex belongs to the one thread
\* that is in a section under it.
THEOREM TypeCorrect == Spec => []TypeOK
<1>1. IInv => TypeOK
  BY DEF IInv
<1> QED BY <1>1, Invariance, PTL

\* When join returns, the file holds the lines printed before it was called, in
\* their order, for every number of threads and lines.
THEOREM AlwaysFlushedWhenJoined == Spec => []FlushedWhenJoined
<1>1. ASSUME IInv PROVE FlushedWhenJoined
  <2>1. m_file \in Seq(LogMode) /\ m_msgQueue \in Seq(LogMode) /\ printed \in Seq(LogMode)
        /\ m_file \o m_msgQueue = printed
    BY <1>1 DEF IInv, TypeOK, QueueInv
  <2>2. /\ Len(printed) = Len(m_file) + Len(m_msgQueue)
        /\ Len(m_file) \in Nat /\ Len(m_msgQueue) \in Nat
    BY <2>1, ConcatProperties, LenProperties
  <2>3. SubSeq(printed, 1, Len(m_file)) = SubSeq(m_file, 1, Len(m_file))
    <3>1. CASE Len(m_file) = 0
      BY <3>1, SubSeqEmpty
    <3>2. CASE Len(m_file) # 0
      <4>1. 1 \in 1 .. Len(m_file) /\ Len(m_file) \in 1 .. Len(m_file)
        BY <2>2, <3>2
      <4> QED BY <2>1, <4>1, SubSeqOfConcat1
    <3> QED BY <3>1, <3>2
  <2>4. IsPrefix(m_file, printed)
    BY <2>2, <2>3 DEF IsPrefix
  <2>5. joiner = "returned" => Len(m_file) >= due
    BY <1>1 DEF IInv, StopInv
  <2> QED BY <2>4, <2>5 DEF FlushedWhenJoined
<1> QED BY <1>1, Invariance, PTL

=============================================================================
