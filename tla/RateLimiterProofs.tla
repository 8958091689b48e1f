------------------------- MODULE RateLimiterProofs -------------------------
(***************************************************************************)
(* The limits of RateLimiter, for any number of threads and addresses and   *)
(* any capacities.                                                          *)
(*                                                                         *)
(* AddressLimit is not inductive: BucketInv says what a bucket still owes.  *)
(* Grants and tokens together never exceed what the period brought, except  *)
(* after the cleaning has replaced the bucket, and then long enough has     *)
(* passed for a full one.  GlobalLimit needs the same of the global tokens  *)
(* at each place a thread alone in the global part may be (GlobalInv).      *)
(***************************************************************************)
EXTENDS RateLimiter, TLAPS

\* A call in progress read the clock in the past, and one that waits for the
\* spin lock did so at most MaxStall ticks ago.
StallInv ==
    \A t \in Threads :
        /\ pc[t] # "idle" => now[t] <= clock
        /\ pc[t] = "bucket" => clock <= now[t] + MaxStall

\* The bucket was erased long enough ago for a full one.
Renewed(a) ==
    /\ m_token_buckets[a] = NewBucket
    /\ passed[a] + window <= clock - MaxStall

\* What was granted and what is left are paid for, and the last update is recent
\* enough for what was granted.
Paid(a) ==
    /\ passed[a] + m_token_buckets[a].tokens - m_token_buckets[a].last_update
         <= Full - window
    /\ passed[a] + window < Full + Cost + m_token_buckets[a].last_update + MaxStall

BucketInv == \A a \in Addrs : passed[a] > 0 => Renewed(a) \/ Paid(a)

IInv == TypeOK /\ StallInv /\ BucketInv /\ AddressLimit

\* What the provers need to know of the constants.
LEMMA Constants ==
    /\ Full \in Nat \ {0} /\ Cost \in Nat \ {0} /\ MaxStall \in Nat /\ CleanAge \in Nat
    /\ GlobalFactor \in Nat /\ GlobalFull \in Nat
    /\ CleanAge + 1 >= Full + Cost + 2 * MaxStall
    /\ NewBucket \in [tokens : Int, last_update : Nat]
    /\ NewBucket.tokens = 0 /\ NewBucket.last_update = 0
<1>1. Full \in Nat \ {0}
  BY CapacityAssumption DEF Full
<1> QED
  BY <1>1, CapacityAssumption, CleanAgeAssumption DEF Full, GlobalFull, NewBucket

\* The server starts with no connection.
LEMMA InitIInv == Init => IInv
<1> SUFFICES ASSUME Init PROVE IInv
  OBVIOUS
<1>1. window \in Nat
  BY CapacityAssumption DEF Init
<1>2. m_token_buckets \in [Addrs -> [tokens : Int, last_update : Nat]]
      /\ \A a \in Addrs : m_token_buckets[a].tokens <= Full
  BY Constants DEF Init
<1>3. TypeOK
  <2>1. raced \in BOOLEAN
    BY DEF Init
  <2>2. /\ clock \in Nat /\ m_global_token \in Int /\ m_last_update \in Nat /\ admitted \in Nat
        /\ pc \in [Threads -> Labels] /\ addr \in [Threads -> Addrs]
        /\ now \in [Threads -> Nat] /\ token \in [Threads -> Int] /\ passed \in [Addrs -> Nat]
    BY DEF Init, Labels
  <2> QED
    BY <1>1, <1>2, <2>1, <2>2, Zenon DEF TypeOK
<1>4. StallInv /\ BucketInv /\ AddressLimit
  BY DEF Init, StallInv, BucketInv, AddressLimit
<1> QED
  BY <1>3, <1>4 DEF IInv

\* Refill gives an integer that is at most the capacity and at most what the
\* elapsed time, which may be negative, adds.
LEMMA RefillBounds ==
    ASSUME TypeOK, NEW t \in Threads, NEW a \in Addrs
    PROVE  /\ Refill(m_token_buckets[a], t) \in Int
           /\ Refill(m_token_buckets[a], t) <= Full
           /\ Refill(m_token_buckets[a], t)
                <= m_token_buckets[a].tokens + (now[t] - m_token_buckets[a].last_update)
BY Constants DEF TypeOK, Refill, AtMost

\* Time passes.
LEMMA TickStep == ASSUME IInv, Tick PROVE IInv'
<1>1. TypeOK'
  BY DEF IInv, Tick, TypeOK, global, local, history
<1>2. StallInv'
  BY Constants DEF IInv, Tick, TypeOK, StallInv, global, local, history
<1>3. BucketInv' /\ AddressLimit'
  BY Constants DEF IInv, Tick, TypeOK, BucketInv, Renewed, Paid, AddressLimit,
     global, local, history
<1> QED
  BY <1>1, <1>2, <1>3 DEF IInv

\* The cleaning: an old bucket had time to fill up.
LEMMA CleanStep == ASSUME IInv, auto_clean PROVE IInv'
<1>1. TypeOK'
  BY Constants DEF IInv, auto_clean, TypeOK, global, local, history
<1>2. StallInv' /\ AddressLimit'
  BY DEF IInv, auto_clean, StallInv, AddressLimit, global, local, history
<1>3. ASSUME NEW a \in Addrs, passed[a] > 0
      PROVE  Renewed(a)' \/ Paid(a)'
  <2>1. CASE clock - m_token_buckets[a].last_update >= CleanAge
    <3>1. m_token_buckets'[a] = NewBucket
      BY <2>1 DEF auto_clean
    <3>2. passed[a] + window <= clock - MaxStall
      BY <1>3, <2>1, Constants DEF IInv, TypeOK, BucketInv, Renewed, Paid
    <3> QED
      BY <3>1, <3>2 DEF auto_clean, Renewed, local, history
  <2>2. CASE ~(clock - m_token_buckets[a].last_update >= CleanAge)
    <3>1. m_token_buckets'[a] = m_token_buckets[a]
      BY <2>2 DEF auto_clean
    <3> QED
      BY <1>3, <3>1 DEF IInv, auto_clean, BucketInv, Renewed, Paid, local, history
  <2> QED
    BY <2>1, <2>2
<1>4. BucketInv'
  BY <1>3 DEF BucketInv, auto_clean, history
<1> QED
  BY <1>1, <1>2, <1>4 DEF IInv

\* The section under the spin lock.
LEMMA TakeTokenStep == ASSUME IInv, NEW t \in Threads, TakeToken(t) PROVE IInv'
<1> PICK a \in Addrs : a = addr[t]
  BY DEF IInv, TypeOK
<1> DEFINE tokens == Refill(m_token_buckets[a], t)
           old == m_token_buckets[a]
<1>0. a \in Addrs /\ now[t] \in Nat /\ pc[t] = "bucket" /\ clock \in Nat /\ window \in Nat
      /\ passed[a] \in Nat /\ old.tokens \in Int /\ old.last_update \in Nat
  BY DEF IInv, TypeOK, TakeToken, Goto
<1>1. tokens \in Int /\ tokens <= Full /\ tokens <= old.tokens + (now[t] - old.last_update)
  BY <1>0, RefillBounds DEF IInv
<1>2. now[t] <= clock /\ clock <= now[t] + MaxStall
  BY <1>0 DEF IInv, StallInv
<1>3. /\ m_token_buckets' = [m_token_buckets EXCEPT
           ![a] = [tokens |-> tokens - Cost, last_update |-> now[t]]]
      /\ passed' = [passed EXCEPT
           ![a] = IF tokens > 0 /\ now[t] >= window THEN @ + Cost ELSE @]
      /\ now' = [now EXCEPT ![t] = IF tokens > 0 THEN @ ELSE 0]
      /\ pc' = [pc EXCEPT ![t] = IF tokens > 0 THEN "load_token" ELSE "idle"]
      /\ UNCHANGED <<clock, global, addr, token, window, admitted, raced>>
  BY DEF TakeToken, Goto
<1> HIDE DEF tokens
<1>4. TypeOK'
  <2>1. m_token_buckets' \in [Addrs -> [tokens : Int, last_update : Nat]]
        /\ \A b \in Addrs : m_token_buckets'[b].tokens <= Full
    BY <1>0, <1>1, <1>3, Constants DEF IInv, TypeOK
  <2>2. passed' \in [Addrs -> Nat]
    BY <1>0, <1>3, Constants DEF IInv, TypeOK
  <2>3. pc' \in [Threads -> Labels] /\ now' \in [Threads -> Nat]
    BY <1>0, <1>3 DEF IInv, TypeOK, Labels
  <2> QED
    BY <2>1, <2>2, <2>3, <1>3 DEF IInv, TypeOK, global
<1>5. StallInv'
  BY <1>0, <1>3, <1>2 DEF IInv, TypeOK, StallInv
<1>6. passed'[a] > 0 =>
        /\ passed'[a] < Full + (clock - window) + Cost
        /\ passed'[a] + (tokens - Cost) - now[t] <= Full - window
  <2>1. passed[a] > 0 => passed[a] + tokens - now[t] <= Full - window
    <3>1. CASE Renewed(a)
      <4>1. passed[a] + window <= clock - MaxStall
        BY <3>1 DEF Renewed
      <4> QED
        BY <4>1, <1>0, <1>1, <1>2, Constants
    <3>2. CASE Paid(a)
      <4>1. passed[a] + old.tokens - old.last_update <= Full - window
        BY <3>2 DEF Paid
      <4> QED
        BY <4>1, <1>0, <1>1, <1>2, Constants
    <3> QED
      BY <3>1, <3>2, <1>0 DEF IInv, BucketInv
  <2>2. passed[a] > 0 => passed[a] < Full + (clock - window) + Cost
    BY <1>0 DEF IInv, AddressLimit
  <2>3. CASE tokens > 0 /\ now[t] >= window
    <3>1. passed'[a] = passed[a] + Cost
      BY <1>0, <1>3, <2>3 DEF IInv, TypeOK
    <3> QED
      BY <3>1, <2>1, <2>3, <1>0, <1>1, <1>2, Constants
  <2>4. CASE ~(tokens > 0 /\ now[t] >= window)
    <3>1. passed'[a] = passed[a]
      BY <1>0, <1>3, <2>4 DEF IInv, TypeOK
    <3> QED
      BY <3>1, <2>1, <2>2, <1>0, <1>1, <1>2, Constants
  <2> QED
    BY <2>3, <2>4
<1>7. m_token_buckets'[a].tokens = tokens - Cost /\ m_token_buckets'[a].last_update = now[t]
      /\ passed'[a] \in Nat /\ clock' = clock /\ window' = window
  BY <1>0, <1>3, <1>4 DEF IInv, TypeOK
<1>8. \A b \in Addrs \ {a} : passed'[b] = passed[b] /\ m_token_buckets'[b] = m_token_buckets[b]
  BY <1>3 DEF IInv, TypeOK
<1>9. AddressLimit'
  <2>1. passed'[a] > 0 => passed'[a] < Full + (clock' - window') + Cost
    BY <1>6, <1>7
  <2> QED
    BY <2>1, <1>7, <1>8 DEF IInv, AddressLimit
<1>10. passed'[a] > 0 => Paid(a)'
  <2>1. passed'[a] > 0 => passed'[a] + window < Full + Cost + now[t] + MaxStall
    BY <1>0, <1>2, <1>6, <1>7, Constants
  <2> QED
    BY <1>6, <1>7, <2>1 DEF Paid
<1>11. BucketInv'
  <2>1. \A b \in Addrs \ {a} : passed'[b] > 0 => Renewed(b)' \/ Paid(b)'
    BY <1>7, <1>8 DEF IInv, BucketInv, Renewed, Paid
  <2> QED
    BY <2>1, <1>10 DEF BucketInv
<1> QED
  BY <1>4, <1>5, <1>9, <1>11 DEF IInv

\* The other accesses of allow_connection leave the buckets alone.
LEMMA OtherSteps ==
    ASSUME IInv, NEW t \in Threads,
           (\E a \in Addrs : Attempt(t, a)) \/ LoadToken(t) \/ LoadUpdate(t)
             \/ StoreToken(t) \/ StoreUpdate(t)
    PROVE  IInv'
<1>1. UNCHANGED <<clock, window, m_token_buckets, passed>>
  BY DEF Attempt, LoadToken, LoadUpdate, StoreToken, StoreUpdate, global, history
<1>2. BucketInv' /\ AddressLimit'
  BY <1>1 DEF IInv, BucketInv, Renewed, Paid, AddressLimit
<1>3. CASE \E a \in Addrs : Attempt(t, a)
  <2> PICK a \in Addrs : Attempt(t, a)
    BY <1>3
  <2>1. TypeOK'
    BY DEF Attempt, Goto, IInv, TypeOK, Labels, global, history
  <2>2. StallInv'
    BY Constants DEF Attempt, Goto, IInv, TypeOK, StallInv
  <2> QED
    BY <1>2, <2>1, <2>2 DEF IInv
<1>4. CASE LoadToken(t)
  <2>1. TypeOK'
    <3>1. pc' \in [Threads -> Labels] /\ token' \in [Threads -> Int]
      BY <1>4 DEF LoadToken, Goto, IInv, TypeOK, Labels
    <3>2. raced' \in BOOLEAN
      BY <1>4 DEF LoadToken
    <3> QED
      BY <1>4, <3>1, <3>2 DEF LoadToken, IInv, TypeOK, global
  <2>2. StallInv'
    BY <1>4 DEF LoadToken, Goto, IInv, TypeOK, StallInv
  <2> QED
    BY <1>2, <2>1, <2>2 DEF IInv
<1>5. CASE LoadUpdate(t)
  <2>1. TypeOK'
    <3>1. GlobalFactor * (now[t] - m_last_update) \in Int
      BY Constants DEF IInv, TypeOK
    <3>2. token' \in [Threads -> Int]
      BY <1>5, <3>1, Constants DEF LoadUpdate, IInv, TypeOK, AtMost
    <3> QED
      BY <1>5, <3>2 DEF LoadUpdate, Goto, IInv, TypeOK, Labels, global, history
  <2>2. StallInv'
    BY <1>5 DEF LoadUpdate, Goto, IInv, TypeOK, StallInv
  <2> QED
    BY <1>2, <2>1, <2>2 DEF IInv
<1>6. CASE StoreToken(t)
  <2>1. TypeOK'
    BY <1>6, Constants DEF StoreToken, Goto, IInv, TypeOK, Labels, history
  <2>2. StallInv'
    BY <1>6 DEF StoreToken, Goto, IInv, TypeOK, StallInv
  <2> QED
    BY <1>2, <2>1, <2>2 DEF IInv
<1>7. CASE StoreUpdate(t)
  <2>1. TypeOK'
    BY <1>7, Constants DEF StoreUpdate, Goto, IInv, TypeOK, Labels
  <2>2. StallInv'
    BY <1>7 DEF StoreUpdate, Goto, IInv, TypeOK, StallInv
  <2> QED
    BY <1>2, <2>1, <2>2 DEF IInv
<1> QED
  BY <1>3, <1>4, <1>5, <1>6, <1>7

\* Every step keeps the invariant.
LEMMA NextIInv == IInv /\ [Next]_vars => IInv'
<1> SUFFICES ASSUME IInv, [Next]_vars PROVE IInv'
  OBVIOUS
<1>1. CASE Tick
  BY <1>1, TickStep
<1>2. CASE auto_clean
  BY <1>2, CleanStep
<1>3. ASSUME NEW t \in Threads, allow_connection(t) PROVE IInv'
  BY <1>3, TakeTokenStep, OtherSteps DEF allow_connection
<1>4. CASE UNCHANGED vars
  BY <1>4 DEF vars, global, local, history, IInv, TypeOK, StallInv, BucketInv,
     Renewed, Paid, AddressLimit
<1> QED
  BY <1>1, <1>2, <1>3, <1>4 DEF Next

\* The inductive invariant of calls, buckets and grants holds in every behaviour.
THEOREM InvariantHolds == Spec => []IInv
BY InitIInv, NextIInv, PTL DEF Spec

\* Types of the limiter's state, and no bucket above its capacity.
THEOREM TypeCorrect == Spec => []TypeOK
<1>1. IInv => TypeOK
  BY DEF IInv
<1> QED
  BY <1>1, InvariantHolds, PTL

\* No address gets more connections in any period than bucket and refill allow.
THEOREM AddressLimitAlways == Spec => []AddressLimit
<1>1. IInv => AddressLimit
  BY DEF IInv
<1> QED
  BY <1>1, InvariantHolds, PTL

-----------------------------------------------------------------------------
\* What was admitted and a count of g tokens at some time are paid for.
Covered(g, time) ==
    admitted > 0 => admitted + g + GlobalFactor * window <= GlobalFull + GlobalFactor * time

\* Until two threads meet there is one in the global part, and the count it
\* works with is paid for wherever it is.
GlobalInv ==
    ~raced =>
      /\ \A s, t \in Threads : InGlobal(s) /\ InGlobal(t) => s = t
      /\ (\A t \in Threads : ~InGlobal(t)) => Covered(m_global_token, m_last_update)
      /\ \A t \in Threads :
           /\ pc[t] = "load_update" => Covered(token[t], m_last_update)
           /\ pc[t] \in {"store_token", "store_update"} =>
                token[t] <= GlobalFull /\ Covered(token[t], now[t])
           /\ pc[t] = "store_update" => m_global_token = token[t] - Cost

GlobalIInv == IInv /\ GlobalInv /\ GlobalLimit

\* The refill of the global tokens is linear and monotone in the time.
LEMMA Factor ==
    ASSUME NEW x \in Int, NEW y \in Int
    PROVE  /\ GlobalFactor * x \in Int
           /\ GlobalFactor * (x - y) = GlobalFactor * x - GlobalFactor * y
           /\ x <= y => GlobalFactor * x <= GlobalFactor * y
BY Constants

\* A limit that held at one time holds at a later one.
LEMMA LaterLimit ==
    ASSUME NEW m \in Nat, NEW w \in Nat, NEW c \in Nat, NEW d \in Nat, c <= d,
           m < GlobalFull + GlobalFactor * (c - w) + Cost
    PROVE  m < GlobalFull + GlobalFactor * (d - w) + Cost
<1>1. c - w \in Int /\ d - w \in Int /\ c - w <= d - w
  OBVIOUS
<1>2. GlobalFactor * (c - w) <= GlobalFactor * (d - w)
      /\ GlobalFactor * (c - w) \in Int /\ GlobalFactor * (d - w) \in Int
  BY <1>1, Factor
<1> QED
  BY <1>2, Constants

\* Steps that admit nothing keep the limit.
LEMMA LimitKept ==
    ASSUME IInv, GlobalLimit, UNCHANGED <<window, admitted>>,
           clock' \in Nat, clock <= clock', raced => raced'
    PROVE  GlobalLimit'
<1>1. admitted \in Nat /\ window \in Nat /\ clock \in Nat
  BY Zenon DEF IInv, TypeOK
<1>2. admitted < GlobalFull + GlobalFactor * (clock - window) + Cost
        => admitted < GlobalFull + GlobalFactor * (clock' - window) + Cost
  BY <1>1, LaterLimit, Zenon
<1>3. window' = window /\ admitted' = admitted
  BY Zenon
<1> QED
  BY <1>2, <1>3, Zenon DEF GlobalLimit

\* Steps that leave the global part and its history alone.
LEMMA GlobalUnchanged ==
    ASSUME IInv, GlobalInv,
           UNCHANGED <<m_global_token, m_last_update, token, window, admitted, raced>>,
           \A t \in Threads : InGlobal(t) \/ InGlobal(t)' => pc'[t] = pc[t] /\ now'[t] = now[t]
    PROVE  GlobalInv'
<1>1. ASSUME ~raced PROVE \A t \in Threads : InGlobal(t)' <=> InGlobal(t)
  BY DEF InGlobal
<1>2. ASSUME NEW g, NEW time PROVE Covered(g, time)' <=> Covered(g, time)
  BY DEF Covered
<1> QED
  BY <1>1, <1>2 DEF GlobalInv, InGlobal, Covered

\* A thread enters the global part: alone, or the race is noted.
LEMMA LoadTokenGlobal ==
    ASSUME IInv, GlobalInv, NEW t \in Threads, LoadToken(t) PROVE GlobalInv'
<1> SUFFICES ASSUME ~raced' PROVE GlobalInv'
  BY DEF GlobalInv
<1>1. ~raced /\ \A s \in Threads : ~InGlobal(s)
  BY DEF LoadToken
<1>2. Covered(m_global_token, m_last_update)
  BY <1>1 DEF GlobalInv
<1>3. /\ pc' = [pc EXCEPT ![t] = "load_update"]
      /\ token' = [token EXCEPT ![t] = m_global_token]
      /\ UNCHANGED <<m_global_token, m_last_update, now, window, admitted>>
  BY DEF LoadToken, Goto, global
<1>4. \A s \in Threads : InGlobal(s)' <=> s = t
  BY <1>1, <1>3 DEF InGlobal, IInv, TypeOK
<1>5. Covered(token[t], m_last_update)'
  BY <1>2, <1>3 DEF Covered, IInv, TypeOK
<1> QED
  BY <1>3, <1>4, <1>5 DEF GlobalInv, InGlobal, IInv, TypeOK

\* The refill, with the time the thread has read.
LEMMA LoadUpdateGlobal ==
    ASSUME IInv, GlobalInv, NEW t \in Threads, LoadUpdate(t) PROVE GlobalInv'
<1> DEFINE refill == GlobalFactor * (now[t] - m_last_update)
           new == AtMost(GlobalFull, token[t] + refill)
<1>1. /\ pc[t] = "load_update"
      /\ pc' = [pc EXCEPT ![t] = "store_token"]
      /\ token' = [token EXCEPT ![t] = new]
      /\ UNCHANGED <<m_global_token, m_last_update, now, window, admitted>>
  BY DEF LoadUpdate, Goto, global, history
<1>2. raced' = raced
  BY DEF LoadUpdate, history
<1>3. refill = GlobalFactor * now[t] - GlobalFactor * m_last_update
      /\ GlobalFactor * now[t] \in Int /\ GlobalFactor * m_last_update \in Int
      /\ GlobalFactor * window \in Int /\ refill \in Int
  <2>1. now[t] \in Int /\ m_last_update \in Int /\ window \in Int
    BY DEF IInv, TypeOK
  <2>2. refill = GlobalFactor * now[t] - GlobalFactor * m_last_update
    BY <2>1, Factor, Zenon
  <2>3. GlobalFactor * now[t] \in Int /\ GlobalFactor * m_last_update \in Int
        /\ GlobalFactor * window \in Int
    BY <2>1, Factor, Zenon
  <2> QED
    BY <2>2, <2>3
<1> HIDE DEF refill
<1>4. new \in Int /\ new <= GlobalFull /\ new <= token[t] + refill
  BY <1>3, Constants DEF AtMost, IInv, TypeOK
<1> HIDE DEF new
<1>5. Covered(token[t], m_last_update) => Covered(new, now[t])
  BY <1>3, <1>4, Constants DEF Covered, IInv, TypeOK
<1>6. token'[t] = new /\ now'[t] = now[t] /\ pc'[t] = "store_token"
  BY <1>1 DEF IInv, TypeOK
<1>7. \A s \in Threads : InGlobal(s)' <=> InGlobal(s)
  BY <1>1 DEF InGlobal, IInv, TypeOK
<1> SUFFICES ASSUME ~raced' PROVE GlobalInv'
  BY DEF GlobalInv
<1>8. /\ Covered(token[t], m_last_update)
      /\ \A s \in Threads : InGlobal(s)' <=> s = t
  BY <1>1, <1>2, <1>7 DEF GlobalInv, InGlobal
<1>9. Covered(token[t], now[t])'
  BY <1>1, <1>5, <1>6, <1>8 DEF Covered
<1> QED
  BY <1>4, <1>6, <1>8, <1>9 DEF GlobalInv, InGlobal

\* The count is stored, less a token.
LEMMA StoreTokenGlobal ==
    ASSUME IInv, GlobalInv, NEW t \in Threads, StoreToken(t) PROVE GlobalInv'
<1> SUFFICES ASSUME ~raced' PROVE GlobalInv'
  BY DEF GlobalInv
<1>1. /\ pc[t] = "store_token" /\ ~raced
      /\ pc' = [pc EXCEPT ![t] = "store_update"]
      /\ m_global_token' = token[t] - Cost
      /\ UNCHANGED <<token, m_last_update, now, window, admitted, raced>>
  BY DEF StoreToken, Goto, global, history
<1>2. token[t] <= GlobalFull /\ Covered(token[t], now[t])
  BY <1>1 DEF GlobalInv
<1>3. \A s \in Threads : InGlobal(s)' <=> s = t
  BY <1>1 DEF GlobalInv, InGlobal, IInv, TypeOK
<1>4. Covered(token[t], now[t])' /\ pc'[t] = "store_update"
  BY <1>1, <1>2 DEF Covered, IInv, TypeOK
<1> QED
  BY <1>1, <1>2, <1>3, <1>4 DEF GlobalInv, InGlobal

\* The time is stored, and the answer given.
LEMMA StoreUpdateGlobal ==
    ASSUME IInv, GlobalInv, GlobalLimit, NEW t \in Threads, StoreUpdate(t)
    PROVE  GlobalInv' /\ GlobalLimit'
<1>1. /\ pc[t] = "store_update"
      /\ pc' = [pc EXCEPT ![t] = "idle"]
      /\ m_last_update' = now[t]
      /\ admitted' = IF token[t] > 0 /\ now[t] >= window THEN admitted + Cost ELSE admitted
      /\ UNCHANGED <<clock, m_global_token, window>>
  BY DEF StoreUpdate, Goto
<1>2. raced' = raced
  BY DEF StoreUpdate
<1>3. /\ token[t] \in Int /\ now[t] \in Nat /\ window \in Nat /\ clock \in Nat
      /\ admitted \in Nat /\ now[t] <= clock
  BY <1>1 DEF IInv, TypeOK, StallInv
<1> DEFINE gw == GlobalFactor * window
           gn == GlobalFactor * now[t]
           gc == GlobalFactor * clock
<1>4. /\ gw \in Int /\ gn \in Int /\ gc \in Int /\ gn <= gc
      /\ now[t] >= window => gn >= gw
      /\ GlobalFactor * (clock - window) = gc - gw
  <2>1. now[t] \in Int /\ window \in Int /\ clock \in Int /\ (now[t] >= window => window <= now[t])
    BY <1>3
  <2>2. gw \in Int /\ gn \in Int /\ gc \in Int /\ gn <= gc
    BY <1>3, <2>1, Factor, Zenon
  <2>3. now[t] >= window => gw <= gn
    BY <2>1, Factor, Zenon
  <2>4. GlobalFactor * (clock - window) = gc - gw
    BY <2>1, Factor, Zenon
  <2> HIDE DEF gw, gn, gc
  <2> QED
    BY <2>2, <2>3, <2>4
<1> DEFINE limit == GlobalFull + GlobalFactor * (clock - window) + Cost
<1>5. limit = GlobalFull + (gc - gw) + Cost
  BY <1>4
<1>6. Covered(token[t], now[t]) => (admitted > 0 => admitted + token[t] + gw <= GlobalFull + gn)
  BY DEF Covered
<1> HIDE DEF gw, gn, gc, limit
<1>7. ASSUME Covered(token[t], now[t]), token[t] <= GlobalFull, admitted > 0 => admitted < limit
      PROVE  admitted' > 0 =>
                /\ admitted' + (token[t] - Cost) + gw <= GlobalFull + gn
                /\ admitted' < limit
  <2>1. CASE token[t] > 0 /\ now[t] >= window
    BY <2>1, <1>1, <1>3, <1>4, <1>5, <1>6, <1>7, Constants
  <2>2. CASE ~(token[t] > 0 /\ now[t] >= window)
    BY <2>2, <1>1, <1>3, <1>4, <1>5, <1>6, <1>7, Constants
  <2> QED
    BY <2>1, <2>2
<1>8. ASSUME ~raced PROVE \A s \in Threads : ~InGlobal(s)'
  BY <1>1, <1>8 DEF GlobalInv, InGlobal, IInv, TypeOK
<1> SUFFICES ASSUME ~raced' PROVE GlobalInv' /\ GlobalLimit'
  BY DEF GlobalInv, GlobalLimit
<1>9. /\ token[t] <= GlobalFull /\ Covered(token[t], now[t])
      /\ m_global_token = token[t] - Cost
  BY <1>1, <1>2 DEF GlobalInv
<1>10. admitted > 0 => admitted < limit
  BY <1>2 DEF GlobalLimit, limit
<1>11. admitted' > 0 =>
         /\ admitted' + (token[t] - Cost) + gw <= GlobalFull + gn
         /\ admitted' < limit
  BY <1>7, <1>9, <1>10
<1>12. GlobalLimit'
  BY <1>1, <1>11 DEF GlobalLimit, limit
<1>13. Covered(m_global_token, m_last_update)'
  BY <1>1, <1>9, <1>11 DEF Covered, gw, gn
<1> QED
  BY <1>2, <1>8, <1>12, <1>13 DEF GlobalInv, InGlobal

\* Every step keeps the invariant of the global part.
LEMMA NextGlobalIInv == GlobalIInv /\ [Next]_vars => GlobalIInv'
<1> SUFFICES ASSUME GlobalIInv, [Next]_vars PROVE GlobalIInv'
  OBVIOUS
<1>0. IInv /\ GlobalInv /\ GlobalLimit /\ IInv' /\ clock \in Nat /\ clock' \in Nat
  BY NextIInv DEF GlobalIInv, IInv, TypeOK
<1>1. CASE Tick \/ auto_clean \/ UNCHANGED vars
  <2>1. UNCHANGED <<global, local, history>> /\ clock <= clock'
    BY <1>0, <1>1 DEF Tick, auto_clean, vars
  <2>2. GlobalInv'
    BY <1>0, <2>1, GlobalUnchanged DEF global, local, history
  <2>3. GlobalLimit'
    BY <1>0, <2>1, LimitKept DEF history
  <2> QED
    BY <1>0, <2>2, <2>3 DEF GlobalIInv
<1>2. ASSUME NEW t \in Threads, (\E a \in Addrs : Attempt(t, a)) \/ TakeToken(t)
      PROVE  GlobalIInv'
  <2>1. /\ UNCHANGED <<clock, m_global_token, m_last_update, token, window, admitted, raced>>
        /\ \A s \in Threads : s # t => pc'[s] = pc[s] /\ now'[s] = now[s]
        /\ ~InGlobal(t) /\ ~InGlobal(t)'
    <3>1. ASSUME NEW a \in Addrs, Attempt(t, a) PROVE <2>1
      BY <3>1, <1>0 DEF Attempt, Goto, InGlobal, IInv, TypeOK, global, history
    <3>2. CASE TakeToken(t)
      BY <3>2, <1>0 DEF TakeToken, Goto, InGlobal, IInv, TypeOK, global
    <3> QED
      BY <1>2, <3>1, <3>2
  <2>2. GlobalInv'
    BY <1>0, <2>1, GlobalUnchanged
  <2>3. GlobalLimit'
    BY <1>0, <2>1, LimitKept
  <2> QED
    BY <1>0, <2>2, <2>3 DEF GlobalIInv
<1>3. ASSUME NEW t \in Threads, LoadToken(t) \/ LoadUpdate(t) \/ StoreToken(t)
      PROVE  GlobalIInv'
  <2>1. GlobalInv'
    BY <1>0, <1>3, LoadTokenGlobal, LoadUpdateGlobal, StoreTokenGlobal
  <2>2. UNCHANGED <<clock, window, admitted>> /\ (raced => raced')
    <3>1. CASE LoadToken(t)
      BY <3>1 DEF LoadToken
    <3>2. CASE LoadUpdate(t) \/ StoreToken(t)
      BY <3>2 DEF LoadUpdate, StoreToken, history
    <3> QED
      BY <1>3, <3>1, <3>2
  <2>3. GlobalLimit'
    BY <1>0, <2>2, LimitKept
  <2> QED
    BY <1>0, <2>1, <2>3 DEF GlobalIInv
<1>4. ASSUME NEW t \in Threads, StoreUpdate(t) PROVE GlobalIInv'
  BY <1>0, <1>4, StoreUpdateGlobal DEF GlobalIInv
<1> QED
  BY <1>1, <1>2, <1>3, <1>4 DEF Next, allow_connection

\* Until two threads meet in the global part, the server admits no more in any
\* period than global capacity and refill allow.
THEOREM GlobalLimitAlways == Spec => []GlobalLimit
<1>1. Init => GlobalIInv
  BY InitIInv DEF Init, GlobalIInv, GlobalInv, GlobalLimit, Covered, InGlobal
<1>2. GlobalIInv => GlobalLimit
  BY DEF GlobalIInv
<1> QED
  BY <1>1, <1>2, NextGlobalIInv, PTL DEF Spec
=============================================================================
