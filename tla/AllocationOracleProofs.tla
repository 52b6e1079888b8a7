----------------------- MODULE AllocationOracleProofs -----------------------
(***************************************************************************)
(* For any balances and any of the times: a balance that is answered was   *)
(* the chain's at most the cache's time and two requests' time ago.        *)
(***************************************************************************)
EXTENDS AllocationOracle, TLAPS

\* How long ago what a thread was told was the chain's balance.
Replied(t) == thread[t].phase \in {"got", "cached", "stamped"}
RepliesRecent ==
  \A t \in Threads : Replied(t) =>
    thread[t].raw \in Balances /\ since[thread[t].raw] <= thread[t].spent

\* A thread that has stored its balance and not stamped it yet may find there what
\* the other thread has stored in between.
UnstampedRecent ==
  \A t \in Threads : At(t, "cached") =>
    cache \in Balances /\ since[cache] <= RpcTime + thread[t].spent

\* The stamp is younger than the balance, by no more than two requests' time.
CacheRecent == cache # None /\ age < CacheTTL => since[cache] <= age + 2 * RpcTime

IInv ==
  /\ TypeOK
  /\ since[chain] = 0
  /\ RepliesRecent
  /\ UnstampedRecent
  /\ CacheRecent

-----------------------------------------------------------------------------
(* Operators *)

LEMMA Bounds ==
  /\ FreshTTL \in Nat \ {0} /\ CacheTTL \in Nat \ {0} /\ FreshTTL <= CacheTTL
  /\ RpcTime \in Nat /\ Alarm \in Nat \ {0} /\ LongAgo \in Nat
  /\ CacheTTL < LongAgo /\ 2 * RpcTime < LongAgo
  /\ None \notin Balances /\ NoAnswer \notin Balances
<1>1. /\ FreshTTL \in Nat \ {0} /\ CacheTTL \in Nat /\ FreshTTL <= CacheTTL
      /\ RpcTime \in Nat /\ Alarm \in Nat \ {0}
  BY OracleAssumption
<1>2. CacheTTL \in Nat \ {0} /\ LongAgo \in Nat /\ CacheTTL < LongAgo /\ 2 * RpcTime < LongAgo
  BY <1>1 DEF LongAgo
<1>3. None \notin Balances /\ NoAnswer \notin Balances
  BY OracleAssumption
<1> QED
  BY <1>1, <1>2, <1>3

LEMMA SmallerIs ==
  ASSUME NEW a \in Nat, NEW b \in Nat
  PROVE  Smaller(a, b) \in 0 .. b /\ Smaller(a, b) <= a /\ (Smaller(a, b) < b => a < b /\ Smaller(a, b) = a)
BY DEF Smaller

\* A thread may be in any phase with any of its fields.
LEMMA ThreadIs ==
  ASSUME NEW r \in Thread
  PROVE  /\ r.phase \in Phases /\ r.raw \in Balances \cup {None}
         /\ r.spent \in 0 .. RpcTime /\ r.count \in 0 .. Alarm
BY DEF Thread

LEMMA RestingIs == Resting \in Thread /\ Resting.phase = "idle"
BY Bounds DEF Resting, Thread, Phases

-----------------------------------------------------------------------------
(* The invariant *)

\* Every initial state satisfies IInv.
LEMMA InitIInv == Init => IInv
<1> SUFFICES ASSUME Init PROVE IInv
  OBVIOUS
<1>1. TypeOK
  BY Bounds, RestingIs DEF Init, TypeOK
<1>2. since[chain] = 0 /\ cache = None
  BY DEF Init
<1>3. \A t \in Threads : thread[t].phase = "idle"
  BY RestingIs DEF Init
<1> QED
  BY <1>1, <1>2, <1>3 DEF IInv, RepliesRecent, Replied, UnstampedRecent, At, CacheRecent

\* A step that changes one thread alone, and neither the balance, its age nor the chain,
\* keeps IInv if the thread keeps its promises.
LEMMA ThreadStep ==
  ASSUME IInv, UNCHANGED <<chain, since, rpc, cache, age>>,
         NEW t \in Threads, NEW r \in Thread, thread' = [thread EXCEPT ![t] = r],
         failures' \in 0 .. Alarm,
         answer' \in Balances \cup {None, NoAnswer},
         alarm' \in {"none", "first", "critical"},
         r.phase \in {"got", "cached", "stamped"} =>
           r.raw \in Balances /\ since[r.raw] <= r.spent,
         r.phase # "cached"
  PROVE  IInv'
<1>1. thread' \in [Threads -> Thread] /\ thread'[t] = r
  BY DEF IInv, TypeOK
<1>2. \A u \in Threads : u # t => thread'[u] = thread[u]
  BY DEF IInv, TypeOK
<1>3. TypeOK'
  BY <1>1 DEF IInv, TypeOK
<1>4. RepliesRecent'
  BY <1>1, <1>2 DEF IInv, RepliesRecent, Replied
<1>5. UnstampedRecent'
  BY <1>1, <1>2 DEF IInv, UnstampedRecent, At
<1>6. CacheRecent' /\ since'[chain'] = 0
  BY DEF IInv, CacheRecent
<1> QED
  BY <1>3, <1>4, <1>5, <1>6 DEF IInv

LEMMA BeginIInv == ASSUME IInv, NEW t \in Threads, Begin(t) PROVE IInv'
<1> DEFINE r == [Resting EXCEPT !.phase = "asking"]
<1>1. r \in Thread /\ r.phase = "asking"
  BY Bounds DEF Resting, Thread, Phases
<1>2. /\ thread' = [thread EXCEPT ![t] = r]
      /\ UNCHANGED <<chain, since, rpc, cache, age, failures, answer, alarm>>
  BY DEF Begin, external
<1> HIDE DEF r
<1>3. failures' \in 0 .. Alarm /\ answer' \in Balances \cup {None, NoAnswer}
      /\ alarm' \in {"none", "first", "critical"}
  BY <1>2 DEF IInv, TypeOK
<1> QED
  BY <1>1, <1>2, <1>3, ThreadStep

LEMMA ReplyIInv == ASSUME IInv, NEW t \in Threads, Reply(t) PROVE IInv'
<1> DEFINE r == [thread[t] EXCEPT !.phase = "got", !.raw = chain]
<1>1. thread[t] \in Thread /\ chain \in Balances /\ since[chain] = 0
  BY DEF IInv, TypeOK
<1>2. r \in Thread /\ r.phase = "got" /\ r.raw = chain /\ r.spent = thread[t].spent
  BY <1>1 DEF Thread, Phases
<1>3. thread[t].spent \in 0 .. RpcTime
  BY <1>1, ThreadIs
<1>4. /\ thread' = [thread EXCEPT ![t] = r]
      /\ UNCHANGED <<chain, since, rpc, cache, age, failures, answer, alarm>>
  BY DEF Reply, external
<1> HIDE DEF r
<1>5. since[r.raw] <= r.spent
  BY <1>1, <1>2, <1>3, Bounds
<1>6. failures' \in 0 .. Alarm /\ answer' \in Balances \cup {None, NoAnswer}
      /\ alarm' \in {"none", "first", "critical"}
  BY <1>4 DEF IInv, TypeOK
<1> QED
  BY <1>1, <1>2, <1>4, <1>5, <1>6, ThreadStep

\* A thread goes on to a phase in which it holds no reply.
LEMMA MoveIInv ==
  ASSUME IInv, NEW t \in Threads, NEW phase \in {"failed", "counted"}, MovesTo(t, phase),
         UNCHANGED <<chain, since, rpc, cache, age, answer, alarm>>,
         failures' \in 0 .. Alarm
  PROVE  IInv'
<1> DEFINE r == [thread[t] EXCEPT !.phase = phase]
<1>1. thread[t] \in Thread
  BY DEF IInv, TypeOK
<1>2. r \in Thread /\ r.phase = phase
  BY <1>1 DEF Thread, Phases
<1>3. thread' = [thread EXCEPT ![t] = r]
  BY DEF MovesTo
<1> HIDE DEF r
<1>4. answer' \in Balances \cup {None, NoAnswer} /\ alarm' \in {"none", "first", "critical"}
  BY DEF IInv, TypeOK
<1> QED
  BY <1>2, <1>3, <1>4, ThreadStep

LEMMA StoreIInv == ASSUME IInv, NEW t \in Threads, Store(t) PROVE IInv'
<1> DEFINE r == [thread[t] EXCEPT !.phase = "cached"]
<1>1. thread[t] \in Thread /\ thread \in [Threads -> Thread]
  BY DEF IInv, TypeOK
<1>2. r \in Thread /\ r.phase = "cached" /\ r.raw = thread[t].raw /\ r.spent = thread[t].spent
  BY <1>1 DEF Thread, Phases
<1>3. /\ thread' = [thread EXCEPT ![t] = r] /\ cache' = thread[t].raw
      /\ UNCHANGED <<chain, since, rpc, age, failures, answer, alarm>>
  BY DEF Store, MovesTo, external
<1>4. /\ thread[t].raw \in Balances /\ since[thread[t].raw] <= thread[t].spent
      /\ thread[t].spent \in 0 .. RpcTime
  BY <1>1, ThreadIs DEF Store, At, IInv, RepliesRecent, Replied
<1> HIDE DEF r
<1>5. /\ thread' \in [Threads -> Thread] /\ thread'[t] = r
      /\ \A u \in Threads : u # t => thread'[u] = thread[u]
  BY <1>1, <1>2, <1>3
<1>6. since[cache'] \in Nat /\ since[cache'] <= RpcTime /\ cache' \in Balances
  BY <1>3, <1>4, Bounds DEF IInv, TypeOK
<1>7. TypeOK'
  BY <1>3, <1>5, <1>6 DEF IInv, TypeOK
<1>8. RepliesRecent'
  BY <1>2, <1>3, <1>4, <1>5 DEF IInv, RepliesRecent, Replied
<1>9. UnstampedRecent'
  <2>1. \A u \in Threads : thread'[u].spent \in 0 .. RpcTime
    BY <1>5, ThreadIs
  <2> QED
    BY <1>3, <1>6, <2>1, Bounds DEF UnstampedRecent
<1>10. CacheRecent'
  BY <1>3, <1>6, Bounds DEF IInv, TypeOK, CacheRecent
<1> QED
  BY <1>3, <1>7, <1>8, <1>9, <1>10 DEF IInv

LEMMA StampIInv == ASSUME IInv, NEW t \in Threads, Stamp(t) PROVE IInv'
<1> DEFINE r == [thread[t] EXCEPT !.phase = "stamped"]
<1>1. thread[t] \in Thread /\ thread \in [Threads -> Thread]
  BY DEF IInv, TypeOK
<1>2. r \in Thread /\ r.phase = "stamped" /\ r.raw = thread[t].raw
      /\ r.spent = thread[t].spent
  BY <1>1 DEF Thread, Phases
<1>3. /\ thread' = [thread EXCEPT ![t] = r] /\ age' = 0
      /\ UNCHANGED <<chain, since, rpc, cache, failures, answer, alarm>>
  BY DEF Stamp, MovesTo, external
<1>4. /\ thread[t].raw \in Balances /\ since[thread[t].raw] <= thread[t].spent
      /\ thread[t].spent \in 0 .. RpcTime
      /\ cache \in Balances /\ since[cache] <= RpcTime + thread[t].spent
  BY <1>1, ThreadIs DEF Stamp, At, IInv, RepliesRecent, Replied, UnstampedRecent
<1> HIDE DEF r
<1>5. /\ thread' \in [Threads -> Thread] /\ thread'[t] = r
      /\ \A u \in Threads : u # t => thread'[u] = thread[u]
  BY <1>1, <1>2, <1>3
<1>6. TypeOK'
  BY <1>3, <1>5, Bounds DEF IInv, TypeOK
<1>7. RepliesRecent'
  BY <1>2, <1>3, <1>4, <1>5 DEF IInv, RepliesRecent, Replied
<1>8. UnstampedRecent'
  BY <1>2, <1>3, <1>5 DEF IInv, UnstampedRecent, At
<1>9. CacheRecent'
  <2>1. since[cache] \in Nat
    BY <1>4 DEF IInv, TypeOK
  <2>2. since[cache] <= 0 + 2 * RpcTime
    BY <1>4, <2>1, Bounds
  <2> QED
    BY <1>3, <2>2 DEF CacheRecent
<1> QED
  BY <1>3, <1>6, <1>7, <1>8, <1>9 DEF IInv

\* A thread returns.
LEMMA ReturnIInv ==
  ASSUME IInv, NEW t \in Threads, NEW result \in Balances \cup {None}, Returns(t, result),
         UNCHANGED <<chain, since, rpc, cache, age>>,
         failures' \in 0 .. Alarm, alarm' \in {"none", "first", "critical"}
  PROVE  IInv'
<1>1. thread' = [thread EXCEPT ![t] = Resting] /\ answer' \in {result, answer}
  BY DEF Returns
<1>2. answer' \in Balances \cup {None, NoAnswer}
  BY <1>1 DEF IInv, TypeOK
<1> QED
  BY <1>1, <1>2, RestingIs, ThreadStep

LEMMA ReadCountIInv == ASSUME IInv, NEW t \in Threads, ReadCount(t) PROVE IInv'
<1> DEFINE r == [thread[t] EXCEPT !.phase = "read", !.count = failures]
<1>1. thread[t] \in Thread /\ failures \in 0 .. Alarm
  BY DEF IInv, TypeOK
<1>2. r \in Thread /\ r.phase = "read"
  BY <1>1 DEF Thread, Phases
<1>3. /\ thread' = [thread EXCEPT ![t] = r]
      /\ UNCHANGED <<chain, since, rpc, cache, age, failures, answer, alarm>>
  BY DEF ReadCount, external
<1> HIDE DEF r
<1>4. failures' \in 0 .. Alarm /\ answer' \in Balances \cup {None, NoAnswer}
      /\ alarm' \in {"none", "first", "critical"}
  BY <1>3 DEF IInv, TypeOK
<1> QED
  BY <1>2, <1>3, <1>4, ThreadStep

\* What time does to everything that is counted in ticks.
LEMMA TickIInv == ASSUME IInv, Tick PROVE IInv'
<1>1. /\ thread \in [Threads -> Thread] /\ since \in [Balances -> 0 .. LongAgo]
      /\ age \in 0 .. CacheTTL /\ chain \in Balances
  BY DEF IInv, TypeOK
<1>2. /\ since' = [b \in Balances |->
                     IF b = chain THEN 0 ELSE Smaller(since[b] + 1, LongAgo)]
      /\ age' = Smaller(age + 1, CacheTTL)
      /\ thread' = [t \in Threads |-> IF At(t, "idle") THEN thread[t]
                                      ELSE [thread[t] EXCEPT !.spent = @ + 1]]
      /\ answer' = NoAnswer /\ UNCHANGED <<chain, rpc, cache, failures, alarm>>
      /\ \A t \in Threads : ~At(t, "idle") => thread[t].spent < RpcTime
  BY DEF Tick
<1>3. ASSUME NEW b \in Balances
      PROVE  since'[b] \in 0 .. LongAgo /\ since'[b] <= since[b] + 1
  <2>1. since[b] \in Nat /\ since[b] + 1 \in Nat
    BY <1>1, Bounds
  <2>2. Smaller(since[b] + 1, LongAgo) \in 0 .. LongAgo
        /\ Smaller(since[b] + 1, LongAgo) <= since[b] + 1
    BY <2>1, Bounds, SmallerIs
  <2>3. since'[b] = 0 \/ since'[b] = Smaller(since[b] + 1, LongAgo)
    BY <1>2
  <2> QED
    BY <2>1, <2>2, <2>3, Bounds
<1>4. since' \in [Balances -> 0 .. LongAgo] /\ since'[chain'] = 0
  BY <1>1, <1>2, <1>3
<1>5. age' \in 0 .. CacheTTL /\ (age' < CacheTTL => age < CacheTTL /\ age' = age + 1)
  <2>1. age + 1 \in Nat /\ age \in Nat /\ CacheTTL \in Nat
    BY <1>1, Bounds
  <2> QED
    BY <1>2, <2>1, SmallerIs
<1>6. ASSUME NEW t \in Threads
      PROVE  /\ thread'[t] \in Thread
             /\ thread'[t].phase = thread[t].phase /\ thread'[t].raw = thread[t].raw
             /\ thread[t].spent \in Nat /\ thread'[t].spent \in Nat
             /\ ~At(t, "idle") => thread'[t].spent = thread[t].spent + 1
  <2>1. thread[t] \in Thread /\ thread[t].spent \in 0 .. RpcTime
    BY <1>1, ThreadIs
  <2>2. CASE At(t, "idle")
    BY <1>2, <2>1, <2>2, Bounds
  <2>3. CASE ~At(t, "idle")
    <3>1. thread[t].spent + 1 \in 0 .. RpcTime
      BY <1>2, <2>1, <2>3, Bounds
    <3>2. thread'[t] = [thread[t] EXCEPT !.spent = thread[t].spent + 1]
      BY <1>2, <2>3
    <3> QED
      BY <2>1, <3>1, <3>2, Bounds DEF Thread
  <2> QED
    BY <2>2, <2>3
<1>7. thread' \in [Threads -> Thread]
  BY <1>2, <1>6
<1>8. TypeOK'
  BY <1>2, <1>4, <1>5, <1>7 DEF IInv, TypeOK
<1>9. RepliesRecent'
  <2> SUFFICES ASSUME NEW t \in Threads, Replied(t)'
               PROVE  thread'[t].raw \in Balances /\ since'[thread'[t].raw] <= thread'[t].spent
    BY DEF RepliesRecent
  <2>1. Replied(t) /\ ~At(t, "idle")
    BY <1>6 DEF Replied, At
  <2>2. thread[t].raw \in Balances /\ since[thread[t].raw] <= thread[t].spent
    BY <2>1 DEF IInv, RepliesRecent
  <2>3. since[thread[t].raw] \in Nat
    BY <1>1, <2>2, Bounds
  <2> QED
    BY <1>3, <1>6, <2>1, <2>2, <2>3, Bounds
<1>10. UnstampedRecent'
  <2> SUFFICES ASSUME NEW t \in Threads, At(t, "cached")'
               PROVE  cache' \in Balances /\ since'[cache'] <= RpcTime + thread'[t].spent
    BY DEF UnstampedRecent
  <2>1. At(t, "cached") /\ ~At(t, "idle")
    BY <1>6 DEF At
  <2>2. cache \in Balances /\ since[cache] <= RpcTime + thread[t].spent
    BY <2>1 DEF IInv, UnstampedRecent
  <2>3. since[cache] \in Nat /\ since'[cache] \in Nat /\ since'[cache] <= since[cache] + 1
    BY <1>1, <1>3, <2>2, Bounds
  <2>4. thread[t].spent \in Nat /\ thread'[t].spent = thread[t].spent + 1
    BY <1>6, <2>1
  <2>5. since'[cache] <= RpcTime + thread'[t].spent
    BY <2>2, <2>3, <2>4, Bounds
  <2> QED
    BY <1>2, <2>2, <2>5
<1>11. CacheRecent'
  <2> SUFFICES ASSUME cache # None, age' < CacheTTL
               PROVE  since'[cache] <= age' + 2 * RpcTime
    BY <1>2 DEF CacheRecent
  <2>1. cache \in Balances
    BY DEF IInv, TypeOK
  <2>2. age' = age + 1 /\ since[cache] <= age + 2 * RpcTime
    BY <1>5 DEF IInv, CacheRecent
  <2>3. since[cache] \in Nat /\ age \in Nat /\ since'[cache] \in Nat
    BY <1>1, <1>3, <2>1, Bounds
  <2> QED
    BY <1>3, <2>1, <2>2, <2>3, Bounds
<1> QED
  BY <1>4, <1>8, <1>9, <1>10, <1>11 DEF IInv

\* A balance that returns makes every holder of it younger.
LEMMA ChainMovesIInv == ASSUME IInv, ChainMoves PROVE IInv'
<1>1. /\ chain' \in Balances /\ since' = [since EXCEPT ![chain'] = 0]
      /\ UNCHANGED <<rpc, cache, age, failures, thread, answer, alarm>>
  BY DEF ChainMoves
<1>2. since \in [Balances -> 0 .. LongAgo]
  BY DEF IInv, TypeOK
<1>3. since' \in [Balances -> 0 .. LongAgo] /\ since'[chain'] = 0
  BY <1>1, <1>2, Bounds
<1>4. \A b \in Balances : since'[b] <= since[b] /\ since'[b] \in Nat /\ since[b] \in Nat
  BY <1>1, <1>2, Bounds
<1>5. TypeOK'
  BY <1>1, <1>3 DEF IInv, TypeOK
<1>6. ASSUME NEW t \in Threads PROVE thread[t].spent \in Nat
  BY ThreadIs, Bounds DEF IInv, TypeOK
<1>7. RepliesRecent'
  BY <1>1, <1>4, <1>6 DEF IInv, RepliesRecent, Replied
<1>8. UnstampedRecent'
  BY <1>1, <1>4, <1>6, Bounds DEF IInv, UnstampedRecent, At
<1>9. CacheRecent'
  BY <1>1, <1>4, Bounds DEF IInv, TypeOK, CacheRecent
<1> QED
  BY <1>3, <1>5, <1>7, <1>8, <1>9 DEF IInv

\* IInv is inductive.
LEMMA NextIInv == IInv /\ [Next]_vars => IInv'
<1> SUFFICES ASSUME IInv, [Next]_vars PROVE IInv'
  OBVIOUS
<1>0. /\ failures \in 0 .. Alarm /\ answer \in Balances \cup {None, NoAnswer}
      /\ alarm \in {"none", "first", "critical"} /\ cache \in Balances \cup {None}
      /\ thread \in [Threads -> Thread]
  BY DEF IInv, TypeOK
<1>1. CASE AskCached
  <2>1. UNCHANGED <<chain, since, rpc, cache, age, failures, thread, alarm>> /\ answer' = cache
    BY <1>1 DEF AskCached, external
  <2> QED
    BY <1>0, <2>1 DEF IInv, TypeOK, RepliesRecent, Replied, UnstampedRecent, At, CacheRecent
<1>2. CASE AskChain
  BY <1>2, BeginIInv DEF AskChain, Threads
<1>3. CASE Refresh
  BY <1>3, BeginIInv DEF Refresh, Threads
<1>4. ASSUME NEW t \in Threads, Reply(t) PROVE IInv'
  BY <1>4, ReplyIInv
<1>5. ASSUME NEW t \in Threads, RpcFails(t) PROVE IInv'
  BY <1>0, <1>5, MoveIInv DEF RpcFails, external
<1>6. ASSUME NEW t \in Threads, Store(t) PROVE IInv'
  BY <1>6, StoreIInv
<1>7. ASSUME NEW t \in Threads, Stamp(t) PROVE IInv'
  BY <1>7, StampIInv
<1>8. ASSUME NEW t \in Threads, ResetCount(t) PROVE IInv'
  <2>1. thread[t].raw \in Balances \cup {None}
    BY <1>0, ThreadIs
  <2>2. failures' \in 0 .. Alarm /\ alarm' \in {"none", "first", "critical"}
    BY <1>0, <1>8, Bounds DEF ResetCount
  <2> QED
    BY <1>8, <2>1, <2>2, ReturnIInv DEF ResetCount, external
<1>9. ASSUME NEW t \in Threads, ReadCount(t) PROVE IInv'
  BY <1>9, ReadCountIInv
<1>10. ASSUME NEW t \in Threads, WriteCount(t) PROVE IInv'
  <2>1. thread[t].count + 1 \in Nat
    BY <1>0, ThreadIs, Bounds
  <2>2. failures' \in 0 .. Alarm
    BY <1>10, <2>1, SmallerIs, Bounds DEF WriteCount
  <2> QED
    BY <1>10, <2>2, MoveIInv DEF WriteCount, external
<1>11. ASSUME NEW t \in Threads, GiveUp(t) PROVE IInv'
  <2> DEFINE result == IF Usable THEN cache ELSE None
  <2>1. result \in Balances \cup {None}
    BY <1>0
  <2>2. alarm' \in {"none", "first", "critical"}
    BY <1>0, <1>11 DEF GiveUp, Report
  <2>3. Returns(t, result) /\ UNCHANGED <<chain, since, rpc, cache, age, failures>>
    BY <1>11 DEF GiveUp, external
  <2> HIDE DEF result
  <2> QED
    BY <1>0, <2>1, <2>2, <2>3, ReturnIInv
<1>12. CASE ChainMoves
  BY <1>12, ChainMovesIInv
<1>13. CASE RpcChanges
  <2>1. rpc' \in {"up", "down"}
        /\ UNCHANGED <<chain, since, cache, age, failures, thread, answer, alarm>>
    BY <1>13 DEF RpcChanges
  <2> QED
    BY <2>1 DEF IInv, TypeOK, RepliesRecent, Replied, UnstampedRecent, At, CacheRecent
<1>14. CASE Tick
  BY <1>14, TickIInv
<1>15. CASE UNCHANGED vars
  BY <1>15 DEF vars, external, IInv, TypeOK, RepliesRecent, Replied, UnstampedRecent, At,
               CacheRecent
<1> QED
  BY <1>1, <1>2, <1>3, <1>4, <1>5, <1>6, <1>7, <1>8, <1>9, <1>10, <1>11, <1>12, <1>13,
     <1>14, <1>15 DEF Next

-----------------------------------------------------------------------------
(* The theorems *)

\* Every variable keeps its type: the counters stay within their caps.
THEOREM TypeCorrect == Spec => []TypeOK
<1>1. IInv => TypeOK
  BY DEF IInv
<1> QED
  BY <1>1, InitIInv, NextIInv, PTL DEF Spec

\* What the stored balance says is at most two requests' time older than its stamp.
THEOREM CacheRecentHolds == Spec => []CacheRecent
<1>1. IInv => CacheRecent
  BY DEF IInv
<1> QED
  BY <1>1, InitIInv, NextIInv, PTL DEF Spec

\* An answer is no older than the time a failure is bridged and two requests' time.
LEMMA StepAnswersRecent ==
  ASSUME IInv, [Next]_vars, answer' # answer, answer' \in Balances
  PROVE  since[answer'] < CacheTTL + 2 * RpcTime
<1>0. /\ thread \in [Threads -> Thread] /\ since \in [Balances -> 0 .. LongAgo]
      /\ age \in 0 .. CacheTTL /\ cache \in Balances \cup {None}
  BY DEF IInv, TypeOK
<1>1. ASSUME answer' = cache, cache # None, age < CacheTTL
      PROVE  since[answer'] < CacheTTL + 2 * RpcTime
  <2>1. since[cache] \in Nat /\ age \in Nat
    BY <1>0, <1>1, Bounds
  <2>2. since[cache] <= age + 2 * RpcTime
    BY <1>1 DEF IInv, CacheRecent
  <2> QED
    BY <1>1, <2>1, <2>2, Bounds
<1>2. CASE AskCached
  <2>1. answer' = cache /\ cache # None /\ age < FreshTTL
    BY <1>2 DEF AskCached, Young
  <2>2. age < CacheTTL
    BY <1>0, <2>1, Bounds
  <2> QED
    BY <1>1, <2>1, <2>2
<1>3. ASSUME NEW t \in Threads, ResetCount(t)
      PROVE  since[answer'] < CacheTTL + 2 * RpcTime
  <2>1. answer' = thread[t].raw /\ Replied(t)
    BY <1>3 DEF ResetCount, Returns, At, Replied
  <2>2. since[answer'] <= thread[t].spent
    BY <2>1 DEF IInv, RepliesRecent
  <2>3. since[answer'] \in Nat /\ thread[t].spent \in 0 .. RpcTime
    BY <1>0, ThreadIs, Bounds
  <2> QED
    BY <2>2, <2>3, Bounds
<1>4. ASSUME NEW t \in Threads, GiveUp(t)
      PROVE  since[answer'] < CacheTTL + 2 * RpcTime
  <2>1. answer' = IF Usable THEN cache ELSE None
    BY <1>4 DEF GiveUp, Returns
  <2>2. Usable
    BY <2>1, Bounds
  <2> QED
    BY <1>1, <2>1, <2>2 DEF Usable
<1>5. ASSUME NEW t \in Threads,
             Reply(t) \/ RpcFails(t) \/ Store(t) \/ Stamp(t) \/ ReadCount(t) \/ WriteCount(t)
      PROVE  FALSE
  BY <1>5 DEF Reply, RpcFails, Store, Stamp, ReadCount, WriteCount
<1>6. CASE AskChain \/ Refresh \/ ChainMoves \/ RpcChanges \/ UNCHANGED vars
  BY <1>6 DEF AskChain, Refresh, Begin, ChainMoves, RpcChanges, vars
<1>7. CASE Tick
  BY <1>7, Bounds DEF Tick
<1> QED
  BY <1>2, <1>3, <1>4, <1>5, <1>6, <1>7 DEF Next

\* A balance that is answered was the chain's at most the cache's time and two requests'
\* time ago, whichever thread stored and stamped it (base_unitsc_allocation,
\* _fetch_onchain).
THEOREM AnswerRecentHolds == Spec => AnswerRecent
<1>1. IInv /\ [Next]_vars =>
        [answer' # answer /\ answer' \in Balances
           => since[answer'] < CacheTTL + 2 * RpcTime]_vars
  BY StepAnswersRecent
<1> QED
  BY <1>1, InitIInv, NextIInv, PTL DEF Spec, AnswerRecent
=============================================================================
