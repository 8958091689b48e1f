------------------------------- MODULE Logger -------------------------------
(***************************************************************************)
(* Logger: threads queue lines, a worker writes them, join ends the worker. *)
(*                                                                         *)
(* The queue is protected by m_mutex, which the worker keeps while it       *)
(* writes.  m_isRunning is an atomic that join sets without the mutex.      *)
(* The wait of the worker is the condition variable's own: the predicate is *)
(* evaluated under the mutex, then the mutex is released and the thread     *)
(* blocked in one step, and only a thread that is blocked by then is woken. *)
(*                                                                         *)
(* Left out: the text of a line (time, level, arguments), the console, the  *)
(* name of the file, the memory pool.                                      *)
(***************************************************************************)
EXTENDS Naturals, Sequences, SequencesExt

CONSTANTS
    Threads,    \* threads that print
    Debug,      \* whether _DEBUG is defined
    MaxLines    \* bound: lines printed in a behaviour

ASSUME ThreadsAssumption == Threads \cap {"free", "worker"} = {}
ASSUME DebugAssumption == Debug \in BOOLEAN
ASSUME MaxLinesAssumption == MaxLines \in Nat

VARIABLES
    m_msgQueue,   \* lines to write
    m_isRunning,
    m_mutex,      \* its owner, or Free
    m_file,       \* lines written
    worker,       \* where workFunction is
    printer,      \* where the print of each thread is
    joiner,       \* where join is
    printed,      \* history: lines in the order they were queued
    due           \* history: how many of them before join was called

vars == <<m_msgQueue, m_isRunning, m_mutex, m_file, worker, printer, joiner, printed, due>>

Free == "free"
Worker == "worker"
LogMode == {"INFO", "WARNING", "ERROR", "CRITICAL", "DEBUG"}

\* Types; the mutex belongs to the thread that is in a section under it.
TypeOK ==
    /\ m_msgQueue \in Seq(LogMode) /\ m_file \in Seq(LogMode) /\ printed \in Seq(LogMode)
    /\ m_isRunning \in BOOLEAN
    /\ m_mutex \in Threads \cup {Free, Worker}
    /\ worker \in {"loop", "check", "block", "waiting", "relock", "test", "ended"}
    /\ printer \in [Threads -> {"idle", "unlock", "notify"}]
    /\ joiner \in {"running", "notify", "join", "returned"}
    /\ due \in 0 .. MaxLines
    /\ m_mutex = Worker <=> worker \in {"check", "block", "test"}
    /\ \A t \in Threads : m_mutex = t <=> printer[t] = "unlock"

\* The constructor: the worker is started.
Init ==
    /\ m_msgQueue = <<>> /\ m_file = <<>> /\ printed = <<>>
    /\ m_isRunning = TRUE
    /\ m_mutex = Free
    /\ worker = "loop"
    /\ printer = [t \in Threads |-> "idle"]
    /\ joiner = "running"
    /\ due = 0

-----------------------------------------------------------------------------
\* notify_all wakes the worker if it is blocked, and is lost otherwise.
notify_all == worker' = IF worker = "waiting" THEN "relock" ELSE worker

\* info, warning, error, critical and debug; the last only with _DEBUG.
Logs(mode) == mode = "DEBUG" => Debug

\* Mutant of Emplace: the queue is written without the mutex.
Emplace_NoLock(t, mode) ==
    /\ Logs(mode)
    /\ Len(printed) < MaxLines /\ joiner # "returned"
    /\ printer[t] = "idle"
    /\ m_msgQueue' = Append(m_msgQueue, mode)
    /\ printed' = Append(printed, mode)
    /\ due' = IF joiner = "running" THEN due + 1 ELSE due
    /\ printer' = [printer EXCEPT ![t] = "unlock"]
    /\ UNCHANGED <<m_isRunning, m_mutex, m_file, worker, joiner>>

\* print: the line goes into the queue under the mutex.
Emplace(t, mode) ==
    /\ Logs(mode)
    /\ Len(printed) < MaxLines /\ joiner # "returned"
    /\ printer[t] = "idle" /\ m_mutex = Free
    /\ m_mutex' = t
    /\ m_msgQueue' = Append(m_msgQueue, mode)
    /\ printed' = Append(printed, mode)
    /\ due' = IF joiner = "running" THEN due + 1 ELSE due
    /\ printer' = [printer EXCEPT ![t] = "unlock"]
    /\ UNCHANGED <<m_isRunning, m_file, worker, joiner>>

Unlock(t) ==
    /\ printer[t] = "unlock"
    /\ m_mutex' = Free
    /\ printer' = [printer EXCEPT ![t] = "notify"]
    /\ UNCHANGED <<m_msgQueue, m_isRunning, m_file, worker, joiner, printed, due>>

\* Mutant of Notify: print does not wake the worker.
Notify_Missing(t) ==
    /\ printer[t] = "notify"
    /\ printer' = [printer EXCEPT ![t] = "idle"]
    /\ UNCHANGED <<m_msgQueue, m_isRunning, m_mutex, m_file, worker, joiner, printed, due>>

Notify(t) ==
    /\ printer[t] = "notify"
    /\ notify_all
    /\ printer' = [printer EXCEPT ![t] = "idle"]
    /\ UNCHANGED <<m_msgQueue, m_isRunning, m_mutex, m_file, joiner, printed, due>>

-----------------------------------------------------------------------------
(* join, called by the destructor.                                         *)

Stop ==
    /\ joiner = "running"
    /\ m_isRunning' = FALSE
    /\ joiner' = "notify"
    /\ UNCHANGED <<m_msgQueue, m_mutex, m_file, worker, printer, printed, due>>

NotifyStop ==
    /\ joiner = "notify"
    /\ notify_all
    /\ joiner' = "join"
    /\ UNCHANGED <<m_msgQueue, m_isRunning, m_mutex, m_file, printer, printed, due>>

Join ==
    /\ joiner = "join" /\ worker = "ended"
    /\ joiner' = "returned"
    /\ UNCHANGED <<m_msgQueue, m_isRunning, m_mutex, m_file, worker, printer, printed, due>>

-----------------------------------------------------------------------------
(* workFunction.                                                           *)

Lock ==
    /\ worker \in {"loop", "relock"} /\ m_mutex = Free
    /\ m_mutex' = Worker
    /\ worker' = "check"
    /\ UNCHANGED <<m_msgQueue, m_isRunning, m_file, printer, joiner, printed, due>>

Ready == m_msgQueue # <<>> \/ ~m_isRunning

Check ==
    /\ worker = "check"
    /\ worker' = IF Ready THEN "test" ELSE "block"
    /\ UNCHANGED <<m_msgQueue, m_isRunning, m_mutex, m_file, printer, joiner, printed, due>>

Block ==
    /\ worker = "block"
    /\ m_mutex' = Free
    /\ worker' = "waiting"
    /\ UNCHANGED <<m_msgQueue, m_isRunning, m_file, printer, joiner, printed, due>>

\* A wake-up nobody asked for, which a condition variable may have.
SpuriousWakeup ==
    /\ worker = "waiting"
    /\ worker' = "relock"
    /\ UNCHANGED <<m_msgQueue, m_isRunning, m_mutex, m_file, printer, joiner, printed, due>>

\* Mutant of Done: a worker that is told to stop stops at once.
Done_AtOnce == ~m_isRunning

Done == ~m_isRunning /\ m_msgQueue = <<>>

Return ==
    /\ worker = "test" /\ Done
    /\ worker' = "ended"
    /\ m_mutex' = Free
    /\ UNCHANGED <<m_msgQueue, m_isRunning, m_file, printer, joiner, printed, due>>

\* The line is written to the file and flushed.
PrintTask(line) == m_file' = Append(m_file, line)

\* The front line is taken and written before the mutex is released.
Invoke ==
    /\ worker = "test" /\ ~Done /\ m_msgQueue # <<>>
    /\ PrintTask(Head(m_msgQueue))
    /\ m_msgQueue' = Tail(m_msgQueue)
    /\ worker' = "loop"
    /\ m_mutex' = Free
    /\ UNCHANGED <<m_isRunning, printer, joiner, printed, due>>

WorkFunction == Lock \/ Check \/ Block \/ Return \/ Invoke
join == Stop \/ NotifyStop \/ Join

Next ==
    \/ WorkFunction \/ SpuriousWakeup \/ join
    \/ \E t \in Threads : Unlock(t) \/ Notify(t) \/ \E mode \in LogMode : Emplace(t, mode)

\* Threads run: the worker, a print under way and a join under way go on.
\* Nobody has to print or to end the program, and no wake-up has to happen by
\* itself.
Fairness ==
    /\ WF_vars(WorkFunction)
    /\ WF_vars(NotifyStop \/ Join)
    /\ \A t \in Threads : WF_vars(Unlock(t) \/ Notify(t))

Spec == Init /\ [][Next]_vars /\ Fairness

-----------------------------------------------------------------------------
\* When join returns, every line printed before it was called is in the file, in
\* the order of the queue: the worker empties the queue before it ends, although
\* the flag may change between its two looks at it.
FlushedWhenJoined ==
    joiner = "returned" => /\ Len(m_file) >= due
                           /\ IsPrefix(m_file, printed)

\* Every line printed before the end is written, join or not: a print between
\* the worker's look at the queue and its wait is not missed.
PrintedIsWritten == \A n \in 1 .. MaxLines : due >= n ~> Len(m_file) >= n

\* The comment of the destructor: "Stops the logging thread and closes the log
\* file."  The flag may be set and notified between the worker's look at it and
\* its wait; the worker then waits, and join for the worker.
JoinReturns == joiner = "notify" ~> joiner = "returned"
=============================================================================
