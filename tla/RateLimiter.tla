---------------------------- MODULE RateLimiter ----------------------------
(***************************************************************************)
(* RateLimiter: the token bucket of every address, the global tokens, and  *)
(* the coroutine that forgets idle addresses.                              *)
(*                                                                         *)
(* Threads of the pool call allow_connection.  The clock is read first, the *)
(* bucket is updated under the spin lock, and the global tokens are loaded  *)
(* and stored atomically one by one, without a lock.                       *)
(*                                                                         *)
(* Time and tokens are integers: a connection costs Cost units, and one     *)
(* tick of the clock gives a bucket one unit.  The code refills             *)
(* single_capacity tokens a second, so a second is Capacity * Cost ticks.   *)
(***************************************************************************)
EXTENDS Integers

CONSTANTS
    Threads,        \* threads that accept connections
    Addrs,          \* addresses that connect
    Capacity,       \* m_single_capacity
    GlobalFactor,   \* m_global_capacity / m_single_capacity
    Cost,           \* units in a token
    CleanAge,       \* default_clean_time_min, in ticks
    MaxStall,       \* ticks between reading the clock and having the lock
    MaxTime,        \* bound: the clock
    MaxDebt         \* bound: how far refused attempts drive a count below zero

ASSUME CapacityAssumption ==
    /\ Capacity \in Nat \ {0} /\ Cost \in Nat \ {0} /\ GlobalFactor \in Nat \ {0}
    /\ MaxTime \in Nat /\ MaxDebt \in Nat /\ MaxStall \in Nat /\ CleanAge \in Nat
    /\ Capacity * Cost \in Nat /\ GlobalFactor * (Capacity * Cost) \in Nat

\* A minute is longer than a second, the price of a connection, and twice the
\* wait of a thread for the spin lock together.
ASSUME CleanAgeAssumption == CleanAge + 1 >= Capacity * Cost + Cost + 2 * MaxStall

VARIABLES
    clock,            \* steady_clock
    m_token_buckets,  \* the bucket of each address
    m_global_token,
    m_last_update,    \* of the global tokens
    pc, addr, now,    \* the calls of allow_connection in progress; an idle
    token,            \* thread's locals are 0; token: local_global_token
    window,           \* history: the start of an arbitrary period, fixed
    passed,           \* history: units granted to an address in that period
    admitted,         \* history: units of connections allowed in that period
    raced             \* history: two threads were in the global part at once

global == <<m_global_token, m_last_update>>
local == <<pc, addr, now, token>>
history == <<window, passed, admitted, raced>>
vars == <<clock, m_token_buckets, global, local, history>>

Full == Capacity * Cost
GlobalFull == GlobalFactor * Full

\* The default TokenBucket.  operator[] makes one where an address has none,
\* so that an erased bucket and a new one are the same.
NewBucket == [tokens |-> 0, last_update |-> 0]

Labels == {"idle", "bucket", "load_token", "load_update", "store_token", "store_update"}
InGlobal(t) == pc[t] \in {"load_update", "store_token", "store_update"}

\* Types; no bucket holds more than its capacity.
TypeOK ==
    /\ clock \in Nat /\ window \in Nat
    /\ m_token_buckets \in [Addrs -> [tokens : Int, last_update : Nat]]
    /\ \A a \in Addrs : m_token_buckets[a].tokens <= Full
    /\ m_global_token \in Int /\ m_last_update \in Nat
    /\ pc \in [Threads -> Labels]
    /\ addr \in [Threads -> Addrs]
    /\ now \in [Threads -> Nat]
    /\ token \in [Threads -> Int]
    /\ passed \in [Addrs -> Nat] /\ admitted \in Nat
    /\ raced \in BOOLEAN

Init ==
    /\ clock = 0
    /\ m_token_buckets = [a \in Addrs |-> NewBucket]
    /\ m_global_token = 0
    /\ m_last_update = 0
    /\ pc = [t \in Threads |-> "idle"]
    /\ addr \in [Threads -> Addrs]
    /\ now = [t \in Threads |-> 0]
    /\ token = [t \in Threads |-> 0]
    /\ window \in 0 .. MaxTime
    /\ passed = [a \in Addrs |-> 0]
    /\ admitted = 0
    /\ raced = FALSE

Goto(t, from, to) ==
    /\ pc[t] = from
    /\ pc' = [pc EXCEPT ![t] = to]

AtMost(limit, n) == IF n > limit THEN limit ELSE n

-----------------------------------------------------------------------------
\* Time passes; a thread that waits for the lock waits MaxStall ticks at most.
Tick ==
    /\ clock < MaxTime
    /\ \A t \in Threads : pc[t] = "bucket" => clock < now[t] + MaxStall
    /\ clock' = clock + 1
    /\ UNCHANGED <<m_token_buckets, global, local, history>>

\* Network::process calls allow_connection, which reads the clock.
Attempt(t, a) ==
    /\ m_token_buckets[a].tokens > -MaxDebt /\ m_global_token > -MaxDebt
    /\ Goto(t, "idle", "bucket")
    /\ addr' = [addr EXCEPT ![t] = a]
    /\ now' = [now EXCEPT ![t] = clock]
    /\ UNCHANGED <<clock, m_token_buckets, global, token, history>>

\* Mutant of Refill: the elapsed time is added without the limit.
Refill_NoLimit(bucket, t) == bucket.tokens + (now[t] - bucket.last_update)

\* The tokens of a bucket at the time the thread has read.  Another thread may
\* have read a later time and come first: the elapsed time is negative then.
Refill(bucket, t) == AtMost(Full, bucket.tokens + (now[t] - bucket.last_update))

\* The section under the spin lock.  A refused connection costs a token too.
TakeToken(t) ==
    LET a == addr[t]
        tokens == Refill(m_token_buckets[a], t)
        allow == tokens > 0
    IN  /\ Goto(t, "bucket", IF allow THEN "load_token" ELSE "idle")
        /\ m_token_buckets' = [m_token_buckets EXCEPT
             ![a] = [tokens |-> tokens - Cost, last_update |-> now[t]]]
        /\ passed' = [passed EXCEPT
             ![a] = IF allow /\ now[t] >= window THEN @ + Cost ELSE @]
        /\ now' = [now EXCEPT ![t] = IF allow THEN @ ELSE 0]
        /\ UNCHANGED <<clock, global, addr, token, window, admitted, raced>>

\* The global part: four accesses to two atomics.
LoadToken(t) ==
    /\ Goto(t, "load_token", "load_update")
    /\ token' = [token EXCEPT ![t] = m_global_token]
    /\ raced' = (raced \/ \E s \in Threads : InGlobal(s))
    /\ UNCHANGED <<clock, m_token_buckets, global, addr, now, window, passed, admitted>>

\* Mutant of LoadUpdate: what the bucket would get in the elapsed time is added
\* on top of the limit.
LoadUpdate_NoLimit(t) ==
    /\ Goto(t, "load_update", "store_token")
    /\ token' = [token EXCEPT ![t] = @ + GlobalFactor * (now[t] - m_last_update)]
    /\ UNCHANGED <<clock, m_token_buckets, global, addr, now, history>>

LoadUpdate(t) ==
    /\ Goto(t, "load_update", "store_token")
    /\ token' = [token EXCEPT
         ![t] = AtMost(GlobalFull, @ + GlobalFactor * (now[t] - m_last_update))]
    /\ UNCHANGED <<clock, m_token_buckets, global, addr, now, history>>

StoreToken(t) ==
    /\ Goto(t, "store_token", "store_update")
    /\ m_global_token' = token[t] - Cost
    /\ UNCHANGED <<clock, m_token_buckets, m_last_update, addr, now, token, history>>

\* The last store, and the answer: allowed if there was a global token.
StoreUpdate(t) ==
    /\ Goto(t, "store_update", "idle")
    /\ m_last_update' = now[t]
    /\ admitted' = IF token[t] > 0 /\ now[t] >= window THEN admitted + Cost ELSE admitted
    /\ now' = [now EXCEPT ![t] = 0]
    /\ token' = [token EXCEPT ![t] = 0]
    /\ UNCHANGED <<clock, m_token_buckets, m_global_token, addr, window, passed, raced>>

\* Mutant of auto_clean: buckets are erased whatever their age.
auto_clean_AnyAge ==
    /\ m_token_buckets' = [a \in Addrs |-> NewBucket]
    /\ UNCHANGED <<clock, global, local, history>>

\* One pass of the cleaning coroutine, under the spin lock.
auto_clean ==
    /\ m_token_buckets' =
         [a \in Addrs |-> IF clock - m_token_buckets[a].last_update >= CleanAge
                          THEN NewBucket ELSE m_token_buckets[a]]
    /\ UNCHANGED <<clock, global, local, history>>

allow_connection(t) ==
    \/ \E a \in Addrs : Attempt(t, a)
    \/ TakeToken(t) \/ LoadToken(t) \/ LoadUpdate(t) \/ StoreToken(t) \/ StoreUpdate(t)

Next == Tick \/ auto_clean \/ \E t \in Threads : allow_connection(t)

Spec == Init /\ [][Next]_vars

-----------------------------------------------------------------------------
\* In any period an address gets no more connections past its bucket than the
\* bucket holds and the period refills (and the one that uses up a fraction of
\* a token), through threads that took the lock in another order than they read
\* the clock, and through the cleaning, which gives an address a full bucket.
AddressLimit ==
    \A a \in Addrs : passed[a] > 0 => passed[a] < Full + (clock - window) + Cost

\* As long as no two threads were in the global part at once, in any period the
\* server admits no more than the global capacity and the refill.  Once two were,
\* nothing of the kind holds: a thread that loaded a full count and stores it
\* late gives back all the tokens the others took.
GlobalLimit ==
    admitted > 0 /\ ~raced => admitted < GlobalFull + GlobalFactor * (clock - window) + Cost
=============================================================================
