------------------------ MODULE OracleResolverProofs ------------------------
(***************************************************************************)
(* For any number of calls, candles and cancellations: one request per     *)
(* candle at a time, one close for all who ask, no call that raises or     *)
(* waits for ever without a cause, and no close kept but a final one or    *)
(* one asked for at most a timeout before the end of its candle.  And      *)
(* for any rounds, the search ends with the nearest it could look at.      *)
(***************************************************************************)
EXTENDS MCOracles, FiniteSetTheorems, TLAPS

Requesting == {"asking", "answered"}

\* A call that asks is the one of its key in _inflight; the close is not known yet,
\* and its future is not set unless a waiter took it away.
RequestOK(c) ==
  phase[c] \in Requesting =>
    inflight[key[c]] = c /\ cache[key[c]] = NoClose /\ future[c] \in {Pending, Cancelled}
Requests == \A c \in Calls : RequestOK(c)

\* _inflight holds nobody else.
Inflight ==
  \A k \in Keys : inflight[k] # NoCall =>
    phase[inflight[k]] \in Requesting /\ key[inflight[k]] = k

\* Nobody knows of a call that was not made yet.
NewOK(c) ==
  phase[c] = "new" =>
    /\ future[c] = Pending /\ c \notin cancelled /\ leader[c] = NoCall
    /\ \A d \in Calls : leader[d] # c
News == \A c \in Calls : NewOK(c)

\* Who waits, or has waited, does so for a call that was made, with the same key.
LeaderOK(c) ==
  /\ leader[c] # NoCall => phase[leader[c]] # "new" /\ key[leader[c]] = key[c]
  /\ phase[c] = "waiting" => leader[c] # NoCall
Leaders == \A c \in Calls : LeaderOK(c)

\* A close that a future holds, or a call returned, is the one that is kept.
KeptOK(c) ==
  /\ future[c] \in Closes => cache[key[c]] = future[c]
  /\ outcome[c] \in Closes => cache[key[c]] = outcome[c]
  /\ outcome[c] # NoClose => phase[c] = "done"
Kept == \A c \in Calls : KeptOK(c)

\* A future is cancelled by a waiter, and no exception is ever set in one.
FutureOK(c) ==
  /\ future[c] = Cancelled => \E d \in cancelled : leader[d] = c
  /\ future[c] # Raised
FuturesOK == \A c \in Calls : FutureOK(c)

IInv == /\ TypeOK /\ Requests /\ Inflight /\ News /\ Leaders /\ Kept /\ FuturesOK
        /\ RaisedForCause /\ NobodyStranded

-----------------------------------------------------------------------------
(* The parts of a step *)

\* Every time a call is made for has a key.
LEMMA KeysOfEnds == \A end \in Ends : KeyOf(end) \in Keys
BY DEF Keys

\* What a leader accepts is a close or None.
LEMMA AcceptedIs ==
  ASSUME NEW c \in Calls
  PROVE  Accepted(c) \in Closes \cup {NoClose}
BY DEF Accepted, Row

\* A call that finds the close in _cache leaves IInv true.
LEMMA FromCacheKeeps ==
  ASSUME IInv, NEW c \in Calls, NEW end \in Ends, FromCache(c, end)
  PROVE  IInv'
<1> DEFINE k == KeyOf(end)
<1>1. /\ phase[c] = "new" /\ cache[k] # NoClose /\ k \in Keys
      /\ key' = [key EXCEPT ![c] = k] /\ phase' = [phase EXCEPT ![c] = "done"]
      /\ outcome' = [outcome EXCEPT ![c] = cache[k]]
      /\ UNCHANGED <<now, truth, cache, inflight, leader, reply, future, since, cancelled>>
  BY KeysOfEnds DEF FromCache, Finish
<1> HIDE DEF k
<1>2. cache[k] \in Closes
  BY <1>1 DEF IInv, TypeOK
<1>3. TypeOK'
  BY <1>1, <1>2 DEF IInv, TypeOK, Outcomes, Phases
<1>4. /\ future[c] = Pending /\ c \notin cancelled /\ leader[c] = NoCall
      /\ \A d \in Calls : leader[d] # c
  BY <1>1 DEF IInv, News, NewOK
<1>5. phase' \in [Calls -> Phases] /\ key' \in [Calls -> Keys] /\ TypeOK
  BY <1>3 DEF TypeOK, IInv
<1>6. Requests' /\ Inflight'
  BY <1>1, <1>5 DEF IInv, TypeOK, Requests, RequestOK, Inflight, Requesting
<1>7. News' /\ Leaders' /\ NobodyStranded'
  BY <1>1, <1>4 DEF IInv, TypeOK, News, NewOK, Leaders, LeaderOK, NobodyStranded
<1>8. Kept' /\ FuturesOK'
  BY <1>1, <1>2, <1>4, ResolverAssumption
     DEF IInv, TypeOK, Kept, KeptOK, FuturesOK, FutureOK
<1>9. RaisedForCause'
  BY <1>1, <1>2, <1>4, ResolverAssumption DEF IInv, TypeOK, RaisedForCause
<1> QED
  BY <1>3, <1>6, <1>7, <1>8, <1>9 DEF IInv

\* A call that joins a request leaves IInv true.
LEMMA JoinKeeps ==
  ASSUME IInv, NEW c \in Calls, NEW end \in Ends, Join(c, end)
  PROVE  IInv'
<1> DEFINE k == KeyOf(end)
<1>1. /\ phase[c] = "new" /\ inflight[k] # NoCall /\ k \in Keys
      /\ key' = [key EXCEPT ![c] = k] /\ phase' = [phase EXCEPT ![c] = "waiting"]
      /\ leader' = [leader EXCEPT ![c] = inflight[k]]
      /\ UNCHANGED <<now, truth, cache, inflight, reply, future, outcome, since,
                     cancelled>>
  BY KeysOfEnds DEF Join
<1> HIDE DEF k
<1>2. /\ inflight[k] \in Calls /\ phase[inflight[k]] \in Requesting
      /\ key[inflight[k]] = k /\ inflight[k] # c
  BY <1>1 DEF IInv, TypeOK, Inflight, Requesting
<1>3. TypeOK'
  BY <1>1, <1>2 DEF IInv, TypeOK, Phases
<1>4. /\ future[c] = Pending /\ c \notin cancelled /\ leader[c] = NoCall
      /\ \A d \in Calls : leader[d] # c
  BY <1>1 DEF IInv, News, NewOK
<1>5. Requests' /\ Inflight'
  BY <1>1, <1>2 DEF IInv, TypeOK, Requests, RequestOK, Inflight, Requesting
<1>6. News' /\ Leaders'
  BY <1>1, <1>2, <1>4, ResolverAssumption
     DEF IInv, TypeOK, News, NewOK, Leaders, LeaderOK, Requesting
<1>7. Kept' /\ FuturesOK'
  BY <1>1, <1>4, ResolverAssumption DEF IInv, TypeOK, Kept, KeptOK, FuturesOK, FutureOK
<1>8. RaisedForCause'
  BY <1>1, <1>4, ResolverAssumption DEF IInv, TypeOK, RaisedForCause, Kept, KeptOK
<1>9. NobodyStranded'
  BY <1>1, <1>2, <1>4 DEF IInv, TypeOK, NobodyStranded, Requesting
<1> QED
  BY <1>3, <1>5, <1>6, <1>7, <1>8, <1>9 DEF IInv

\* A call that becomes the leader leaves IInv true.
LEMMA AskKeeps ==
  ASSUME IInv, NEW c \in Calls, NEW end \in Ends, Ask(c, end)
  PROVE  IInv'
<1> DEFINE k == KeyOf(end)
<1>1. /\ phase[c] = "new" /\ cache[k] = NoClose /\ inflight[k] = NoCall /\ k \in Keys
      /\ key' = [key EXCEPT ![c] = k] /\ phase' = [phase EXCEPT ![c] = "asking"]
      /\ inflight' = [inflight EXCEPT ![k] = c] /\ since' = [since EXCEPT ![c] = now]
      /\ UNCHANGED <<now, truth, cache, leader, reply, future, outcome, cancelled>>
  BY KeysOfEnds DEF Ask
<1> HIDE DEF k
<1>2. TypeOK'
  BY <1>1 DEF IInv, TypeOK, Phases
<1>3. /\ future[c] = Pending /\ c \notin cancelled /\ leader[c] = NoCall
      /\ \A d \in Calls : leader[d] # c
  BY <1>1 DEF IInv, News, NewOK
<1>4. Requests' /\ Inflight'
  BY <1>1, <1>3, ResolverAssumption
     DEF IInv, TypeOK, Requests, RequestOK, Inflight, Requesting
<1>5. News' /\ Leaders'
  BY <1>1, <1>3 DEF IInv, TypeOK, News, NewOK, Leaders, LeaderOK
<1>6. Kept' /\ FuturesOK'
  BY <1>1, <1>3, ResolverAssumption DEF IInv, TypeOK, Kept, KeptOK, FuturesOK, FutureOK
<1>7. RaisedForCause' /\ NobodyStranded'
  BY <1>1, <1>3 DEF IInv, TypeOK, RaisedForCause, NobodyStranded
<1> QED
  BY <1>2, <1>4, <1>5, <1>6, <1>7 DEF IInv

\* An answer leaves IInv true.
LEMMA AnswerKeeps ==
  ASSUME IInv, NEW c \in Calls, Answer(c)
  PROVE  IInv'
<1>1. PICK r \in Reply : reply' = [reply EXCEPT ![c] = r]
  BY DEF Answer
<1>2. /\ phase[c] = "asking" /\ phase' = [phase EXCEPT ![c] = "answered"]
      /\ UNCHANGED <<now, truth, cache, inflight, key, leader, future, outcome, since,
                     cancelled>>
  BY DEF Answer
<1>3. TypeOK'
  BY <1>1, <1>2 DEF IInv, TypeOK, Phases
<1>4. Requests' /\ Inflight'
  BY <1>2 DEF IInv, TypeOK, Requests, RequestOK, Inflight, Requesting
<1>5. News' /\ Leaders'
  BY <1>2 DEF IInv, TypeOK, News, NewOK, Leaders, LeaderOK
<1>6. Kept' /\ FuturesOK'
  BY <1>2, ResolverAssumption DEF IInv, TypeOK, Kept, KeptOK, FuturesOK, FutureOK
<1>7. outcome[c] = NoClose
  BY <1>2 DEF IInv, Kept, KeptOK
<1>8. RaisedForCause'
  BY <1>1, <1>2, <1>7, ResolverAssumption DEF IInv, TypeOK, RaisedForCause
<1>9. NobodyStranded'
  BY <1>1, <1>2 DEF IInv, TypeOK, NobodyStranded, Leaders, LeaderOK
<1> QED
  BY <1>3, <1>4, <1>5, <1>6, <1>8, <1>9 DEF IInv

\* A leader that goes on with its answer leaves IInv true.
LEMMA HandleKeeps ==
  ASSUME IInv, NEW c \in Calls, Handle(c)
  PROVE  IInv'
<1> DEFINE a == Accepted(c)
<1>1. /\ phase[c] = "answered" /\ a \in Closes \cup {NoClose}
      /\ key[c] \in Keys
      /\ inflight' = [inflight EXCEPT ![key[c]] = NoCall]
      /\ phase' = [phase EXCEPT ![c] = "done"]
      /\ UNCHANGED <<now, truth, key, leader, reply, since, cancelled>>
      /\ inflight[key[c]] = c /\ cache[key[c]] = NoClose
      /\ future[c] \in {Pending, Cancelled}
  BY AcceptedIs DEF Handle, Finish, IInv, TypeOK, Requests, RequestOK, Requesting
<1>2. \/ /\ reply[c] = Broken /\ outcome' = [outcome EXCEPT ![c] = Raised]
         /\ cache' = cache /\ future' = future
      \/ /\ future[c] # Pending /\ outcome' = [outcome EXCEPT ![c] = Raised]
         /\ cache' = IF a = NoClose THEN cache ELSE [cache EXCEPT ![key[c]] = a]
         /\ future' = future
      \/ /\ future[c] = Pending /\ outcome' = [outcome EXCEPT ![c] = a]
         /\ cache' = IF a = NoClose THEN cache ELSE [cache EXCEPT ![key[c]] = a]
         /\ future' = [future EXCEPT ![c] = a]
  BY DEF Handle, Finish, Keep, SetFuture
<1> HIDE DEF a
<1>3. /\ cache \in [Keys -> Closes \cup {NoClose}] /\ cache' \in [Keys -> Closes \cup {NoClose}]
      /\ \A k \in Keys : k # key[c] => cache'[k] = cache[k]
      /\ \A k \in Keys : cache[k] \in Closes => cache'[k] = cache[k]
      /\ cache' # cache => cache'[key[c]] = a
  BY <1>1, <1>2, ResolverAssumption DEF IInv, TypeOK
<1>4. /\ future \in [Calls -> Futures] /\ future' \in [Calls -> Futures]
      /\ \A d \in Calls : d # c => future'[d] = future[d]
  BY <1>1, <1>2 DEF IInv, TypeOK, Futures, Outcomes
<1>5. /\ outcome \in [Calls -> Outcomes] /\ outcome' \in [Calls -> Outcomes]
      /\ \A d \in Calls : d # c => outcome'[d] = outcome[d]
      /\ outcome'[c] \in {Raised, a}
  BY <1>1, <1>2 DEF IInv, TypeOK, Outcomes
<1>6. TypeOK'
  BY <1>1, <1>3, <1>4, <1>5 DEF IInv, TypeOK, Phases
<1>7. /\ key \in [Calls -> Keys] /\ phase \in [Calls -> Phases]
      /\ inflight \in [Keys -> Calls \cup {NoCall}] /\ leader \in [Calls -> Calls \cup {NoCall}]
      /\ cancelled \subseteq Calls
  BY DEF IInv, TypeOK
<1>8. Requests'
  BY <1>1, <1>3, <1>4, <1>7 DEF IInv, Requests, RequestOK, Requesting
<1>9. Inflight'
  BY <1>1, <1>7 DEF IInv, Inflight, Requesting
<1>10. News' /\ Leaders'
  BY <1>1, <1>4, <1>7 DEF IInv, News, NewOK, Leaders, LeaderOK
<1>11. Kept'
  <2> SUFFICES ASSUME NEW d \in Calls PROVE KeptOK(d)'
    BY DEF Kept
  <2>1. CASE d # c
    BY <1>1, <1>3, <1>4, <1>5, <1>7, <2>1 DEF IInv, Kept, KeptOK
  <2>2. CASE d = c
    <3>1. phase'[c] = "done" /\ key'[c] = key[c]
      BY <1>1, <1>7
    <3>2. future'[c] \in Closes => cache'[key[c]] = future'[c]
      BY <1>1, <1>2, <1>3, <1>4, <1>7, ResolverAssumption
    <3>3. outcome'[c] \in Closes => cache'[key[c]] = outcome'[c]
      BY <1>1, <1>2, <1>3, <1>5, <1>7, ResolverAssumption DEF IInv, TypeOK
    <3> QED
      BY <2>2, <3>1, <3>2, <3>3 DEF KeptOK
  <2> QED
    BY <2>1, <2>2
<1>12. FuturesOK'
  BY <1>1, <1>2, <1>4, <1>7, ResolverAssumption DEF IInv, FuturesOK, FutureOK
<1>13. RaisedForCause'
  <2> SUFFICES ASSUME NEW d \in Calls
               PROVE  /\ outcome'[d] = Raised =>
                           reply'[d] = Broken \/ \E e \in cancelled' : leader'[e] = d
                      /\ outcome'[d] = Cancelled /\ d \notin cancelled' =>
                           \E e \in cancelled' : leader'[e] = leader'[d]
    BY DEF RaisedForCause
  <2>1. CASE d # c
    BY <1>1, <1>5, <2>1 DEF IInv, RaisedForCause
  <2>2. CASE d = c
    <3>1. outcome'[c] # Cancelled
      BY <1>1, <1>5, ResolverAssumption
    <3>2. ASSUME outcome'[c] = Raised, reply[c] # Broken
          PROVE  \E e \in cancelled : leader[e] = c
      <4>1. a # Raised
        BY <1>1, ResolverAssumption
      <4>2. future[c] = Cancelled
        BY <1>1, <1>2, <3>2, <4>1 DEF IInv, TypeOK
      <4> QED
        BY <4>2 DEF IInv, FuturesOK, FutureOK
    <3> QED
      BY <1>1, <2>2, <3>1, <3>2
  <2> QED
    BY <2>1, <2>2
<1>14. NobodyStranded'
  <2> SUFFICES ASSUME NEW d \in Calls, phase'[d] = "waiting", future'[leader'[d]] = Pending
               PROVE  \/ phase'[leader'[d]] \in Requesting
                      \/ leader'[d] \in cancelled' \/ reply'[leader'[d]] = Broken
    BY DEF NobodyStranded, Requesting
  <2>1. d # c /\ phase[d] = "waiting" /\ leader'[d] = leader[d] /\ leader[d] \in Calls
    BY <1>1, <1>7 DEF IInv, Leaders, LeaderOK
  <2>2. CASE leader[d] # c
    BY <1>1, <1>4, <1>7, <2>1, <2>2 DEF IInv, NobodyStranded, Requesting
  <2>3. CASE leader[d] = c
    <3>1. future'[c] = Pending
      BY <2>1, <2>3
    <3>2. reply[c] = Broken
      BY <1>1, <1>2, <1>4, <3>1, ResolverAssumption
    <3> QED
      BY <1>1, <2>1, <2>3, <3>2
  <2> QED
    BY <2>2, <2>3
<1> QED
  BY <1>6, <1>8, <1>9, <1>10, <1>11, <1>12, <1>13, <1>14 DEF IInv

\* A waiter that goes on leaves IInv true.
LEMMA WakeKeeps ==
  ASSUME IInv, NEW c \in Calls, Wake(c)
  PROVE  IInv'
<1> DEFINE o == IF c \in cancelled THEN Cancelled ELSE future[leader[c]]
<1>1. /\ phase[c] = "waiting" /\ future[leader[c]] # Pending
      /\ phase' = [phase EXCEPT ![c] = "done"] /\ outcome' = [outcome EXCEPT ![c] = o]
      /\ UNCHANGED <<now, truth, cache, inflight, key, leader, reply, future, since,
                     cancelled>>
  BY DEF Wake, Finish
<1>2. /\ leader[c] \in Calls /\ key[leader[c]] = key[c]
      /\ future[leader[c]] \in Outcomes \ {Raised}
  BY <1>1, ResolverAssumption DEF IInv, TypeOK, Leaders, LeaderOK, FuturesOK, FutureOK, Futures
<1>3. o \in Outcomes \ {Raised} /\ (o # Cancelled => o = future[leader[c]])
  BY <1>2, ResolverAssumption DEF Outcomes
<1>4. o = Cancelled /\ c \notin cancelled => future[leader[c]] = Cancelled
  OBVIOUS
<1> HIDE DEF o
<1>5. TypeOK'
  BY <1>1, <1>3 DEF IInv, TypeOK, Phases
<1>6. Requests' /\ Inflight'
  BY <1>1 DEF IInv, TypeOK, Requests, RequestOK, Inflight, Requesting
<1>7. News' /\ Leaders' /\ NobodyStranded'
  BY <1>1 DEF IInv, TypeOK, News, NewOK, Leaders, LeaderOK, NobodyStranded
<1>8. Kept' /\ FuturesOK'
  <2>1. o \in Closes => cache[key[c]] = o
    BY <1>2, <1>3, ResolverAssumption DEF IInv, Kept, KeptOK
  <2> QED
    BY <1>1, <2>1 DEF IInv, TypeOK, Kept, KeptOK, FuturesOK, FutureOK
<1>9. RaisedForCause'
  <2>1. o = Cancelled /\ c \notin cancelled => \E d \in cancelled : leader[d] = leader[c]
    BY <1>2, <1>4 DEF IInv, FuturesOK, FutureOK
  <2> QED
    BY <1>1, <1>3, <2>1 DEF IInv, TypeOK, RaisedForCause
<1> QED
  BY <1>5, <1>6, <1>7, <1>8, <1>9 DEF IInv

\* A cancellation, of a leader or of a waiter, leaves IInv true.
LEMMA CancelKeeps ==
  ASSUME IInv, NEW c \in Calls, Cancel(c)
  PROVE  IInv'
<1>1. /\ cancelled' = cancelled \cup {c}
      /\ UNCHANGED <<now, truth, cache, key, leader, reply, since>>
      /\ CancelLeader(c) \/ CancelWaiter(c)
  BY DEF Cancel
<1>2. CASE CancelLeader(c)
  <2>1. /\ phase[c] \in Requesting /\ inflight[key[c]] = c /\ future' = future
        /\ inflight' = [inflight EXCEPT ![key[c]] = NoCall]
        /\ phase' = [phase EXCEPT ![c] = "done"]
        /\ outcome' = [outcome EXCEPT ![c] = Cancelled]
    BY <1>2 DEF CancelLeader, Finish, IInv, Requests, RequestOK, Requesting
  <2>2. TypeOK'
    BY <1>1, <2>1 DEF IInv, TypeOK, Phases, Outcomes
  <2>3. Requests' /\ Inflight'
    BY <1>1, <2>1 DEF IInv, TypeOK, Requests, RequestOK, Inflight, Requesting
  <2>4. News' /\ Leaders'
    BY <1>1, <2>1 DEF IInv, TypeOK, News, NewOK, Leaders, LeaderOK, Requesting
  <2>5. Kept' /\ FuturesOK'
    BY <1>1, <2>1, ResolverAssumption DEF IInv, TypeOK, Kept, KeptOK, FuturesOK, FutureOK
  <2>6. RaisedForCause'
    BY <1>1, <2>1, ResolverAssumption DEF IInv, TypeOK, RaisedForCause
  <2>7. NobodyStranded'
    BY <1>1, <2>1 DEF IInv, TypeOK, NobodyStranded, Requesting
  <2> QED
    BY <2>2, <2>3, <2>4, <2>5, <2>6, <2>7 DEF IInv
<1>3. CASE CancelWaiter(c)
  <2>1. /\ phase[c] = "waiting" /\ leader[c] \in Calls
        /\ UNCHANGED <<inflight, phase, outcome>>
    BY <1>3 DEF CancelWaiter, IInv, TypeOK, Leaders, LeaderOK
  <2>2. /\ future \in [Calls -> Futures] /\ future' \in [Calls -> Futures]
        /\ \A d \in Calls :
             \/ future'[d] = future[d]
             \/ d = leader[c] /\ future[d] = Pending /\ future'[d] = Cancelled
    <3>1. future \in [Calls -> Futures] /\ Cancelled \in Futures
      BY DEF IInv, TypeOK, Futures, Outcomes
    <3>2. CASE future[leader[c]] = Pending
      BY <1>3, <2>1, <3>1, <3>2 DEF CancelWaiter
    <3>3. CASE future[leader[c]] # Pending
      BY <1>3, <3>1, <3>3 DEF CancelWaiter
    <3> QED
      BY <3>2, <3>3
  <2>3. TypeOK'
    BY <1>1, <2>1, <2>2 DEF IInv, TypeOK
  <2>4. Requests' /\ Inflight'
    BY <1>1, <2>1, <2>2, ResolverAssumption
       DEF IInv, Requests, RequestOK, Inflight
  <2>5. News' /\ Leaders'
    <3>1. phase[leader[c]] # "new"
      BY <2>1 DEF IInv, Leaders, LeaderOK, TypeOK
    <3> QED
      BY <1>1, <2>1, <2>2, <3>1 DEF IInv, News, NewOK, Leaders, LeaderOK
  <2>6. Kept'
    BY <1>1, <2>1, <2>2, ResolverAssumption DEF IInv, Kept, KeptOK
  <2>7. FuturesOK'
    BY <1>1, <2>2, ResolverAssumption DEF IInv, FuturesOK, FutureOK
  <2>8. RaisedForCause'
    BY <1>1, <2>1 DEF IInv, RaisedForCause
  <2>9. NobodyStranded'
    <3> SUFFICES ASSUME NEW d \in Calls, phase[d] = "waiting", future'[leader[d]] = Pending
                 PROVE  \/ phase[leader[d]] \in Requesting
                        \/ leader[d] \in cancelled \/ reply[leader[d]] = Broken
      BY <1>1, <2>1 DEF NobodyStranded, Requesting
    <3>1. leader[d] \in Calls
      BY DEF IInv, TypeOK, Leaders, LeaderOK
    <3>2. future[leader[d]] = Pending
      BY <2>2, <3>1, ResolverAssumption
    <3> QED
      BY <3>2 DEF IInv, NobodyStranded, Requesting
  <2> QED
    BY <2>3, <2>4, <2>5, <2>6, <2>7, <2>8, <2>9 DEF IInv
<1> QED
  BY <1>1, <1>2, <1>3

-----------------------------------------------------------------------------
(* The invariant *)

\* Every initial state satisfies IInv.
LEMMA InitIInv == Init => IInv
<1> SUFFICES ASSUME Init PROVE IInv
  OBVIOUS
<1>1. TypeOK
  BY ResolverAssumption DEF Init, TypeOK, Phases, Outcomes, Futures, Reply
<1>2. Requests /\ Inflight /\ News /\ Leaders
  BY ResolverAssumption
     DEF Init, Requests, RequestOK, Inflight, News, NewOK, Leaders, LeaderOK, Requesting
<1>3. Kept /\ FuturesOK /\ RaisedForCause /\ NobodyStranded
  BY ResolverAssumption
     DEF Init, Kept, KeptOK, FuturesOK, FutureOK, RaisedForCause, NobodyStranded
<1> QED
  BY <1>1, <1>2, <1>3 DEF IInv

\* IInv is inductive.
LEMMA NextIInv == IInv /\ [Next]_vars => IInv'
<1> SUFFICES ASSUME IInv, [Next]_vars PROVE IInv'
  OBVIOUS
<1>1. CASE Tick
  <2>1. /\ now' = now + 1 /\ now < MaxNow /\ now \in 1 .. MaxNow
        /\ UNCHANGED <<truth, cache, inflight, phase, key, leader, reply, future,
                       outcome, since, cancelled>>
    BY <1>1 DEF Tick, IInv, TypeOK
  <2>2. now' \in 1 .. MaxNow
    BY <2>1, ResolverAssumption
  <2> QED
    BY <2>1, <2>2
       DEF IInv, TypeOK, Requests, RequestOK, Inflight, News, NewOK, Leaders, LeaderOK,
           Kept, KeptOK, FuturesOK, FutureOK, RaisedForCause, NobodyStranded
<1>2. CASE UNCHANGED vars
  BY <1>2
     DEF vars, IInv, TypeOK, Requests, RequestOK, Inflight, News, NewOK, Leaders, LeaderOK,
         Kept, KeptOK, FuturesOK, FutureOK, RaisedForCause, NobodyStranded
<1> QED
  BY <1>1, <1>2, FromCacheKeeps, JoinKeeps, AskKeeps, AnswerKeeps, HandleKeeps, WakeKeeps,
     CancelKeeps DEF Next

\* IInv is an invariant of the specification.
LEMMA Invariance == Spec => []IInv
BY InitIInv, NextIInv, PTL DEF Spec

-----------------------------------------------------------------------------
(* The theorems *)

\* Every variable keeps its type.
THEOREM TypeCorrect == Spec => []TypeOK
<1>1. IInv => TypeOK
  BY DEF IInv
<1> QED
  BY <1>1, Invariance, PTL

\* Never are two requests for one candle on their way at the same time.
THEOREM SingleFlightHolds == Spec => []SingleFlight
<1>1. IInv => SingleFlight
  BY DEF IInv, Requests, RequestOK, Requesting, SingleFlight
<1> QED
  BY <1>1, Invariance, PTL

\* All calls for one candle that get a close get the same one.
THEOREM OneCloseHolds == Spec => []OneClose
<1>1. IInv => OneClose
  BY DEF IInv, Kept, KeptOK, OneClose
<1> QED
  BY <1>1, Invariance, PTL

\* A call raises, or ends cancelled, only for a malformed reply to it or because a
\* waiter of the same request was cancelled.
THEOREM RaisedForCauseHolds == Spec => []RaisedForCause
<1>1. IInv => RaisedForCause
  BY DEF IInv
<1> QED
  BY <1>1, Invariance, PTL

\* A waiter whose future is not set has a leader that will set it, unless that leader
\* was cancelled or got a malformed reply.
THEOREM NobodyStrandedHolds == Spec => []NobodyStranded
<1>1. IInv => NobodyStranded
  BY DEF IInv
<1> QED
  BY <1>1, Invariance, PTL

-----------------------------------------------------------------------------
(* How early the price of a close may be *)

\* A request is out no longer than its timeout.
InTime ==
  \A c \in Calls : phase[c] \in Requesting => since[c] <= now /\ now <= since[c] + Timeout

\* An answer that is not used yet has the final close of its candle, or the request
\* was made before that candle was over.
Timely ==
  \A c \in Calls : phase[c] = "answered" /\ reply[c] \in Row =>
    reply[c].close = truth[reply[c].open] \/ since[c] < EndOf(reply[c].open)

\* The price v of candle m was asked for by a call for k, at most a timeout before
\* the candle's end.
AskedLate(k, m, v) ==
  \E c \in Calls :
    /\ phase[c] = "done" /\ key[c] = k
    /\ reply[c] \in Row /\ reply[c].open = m /\ reply[c].close = v
    /\ since[c] < EndOf(m) /\ EndOf(m) <= since[c] + Timeout

Fair(k, m) == now >= EndOf(m) /\ (cache[k] = truth[m] \/ AskedLate(k, m, cache[k]))

Around(k) == Candles \cap {k - 1, k, k + 1}

FInv == IInv /\ InTime /\ Timely /\ CloseInTime

\* A candle ends at some tick.
LEMMA EndsAreNumbers == \A m \in Candles : EndOf(m) \in Int
<1> SUFFICES ASSUME NEW m \in Candles PROVE EndOf(m) \in Int
  OBVIOUS
<1>1. m \in Int
  BY ResolverAssumption
<1> QED
  BY <1>1 DEF EndOf, Minute

\* What CloseInTime says, in the parts of it.
LEMMA InTimeIs ==
  CloseInTime <=> \A k \in Keys : cache[k] # NoClose => \E m \in Around(k) : Fair(k, m)
BY DEF CloseInTime, Fair, AskedLate, Around

\* Calls that are over and closes that are kept stay what they are, so CloseInTime is
\* lost by a close that is new only.
LEMMA FairStays ==
  ASSUME FInv, [Next]_vars, now <= now', now' \in Nat, UNCHANGED truth,
         \A c \in Calls : phase[c] = "done" =>
           /\ phase'[c] = "done" /\ key'[c] = key[c]
           /\ reply'[c] = reply[c] /\ since'[c] = since[c],
         \A k \in Keys : cache'[k] # cache[k] /\ cache'[k] # NoClose =>
           \E m \in Around(k) : Fair(k, m)'
  PROVE  CloseInTime'
<1> SUFFICES ASSUME NEW k \in Keys, cache'[k] # NoClose
             PROVE  \E m \in Around(k) : Fair(k, m)'
  BY DEF CloseInTime, Fair, AskedLate, Around
<1>1. CASE cache'[k] # cache[k]
  BY <1>1
<1>2. CASE cache'[k] = cache[k]
  <2>1. PICK m \in Around(k) : Fair(k, m)
    BY <1>2, InTimeIs DEF FInv
  <2>2. now \in Nat /\ EndOf(m) \in Int
    BY ResolverAssumption, EndsAreNumbers DEF FInv, IInv, TypeOK, Around
  <2>3. now' >= EndOf(m)
    BY <2>1, <2>2 DEF Fair
  <2>4. AskedLate(k, m, cache[k]) => AskedLate(k, m, cache[k])'
    BY <1>2 DEF AskedLate
  <2> QED
    BY <1>2, <2>1, <2>3, <2>4 DEF Fair
<1> QED
  BY <1>1, <1>2

\* FInv is inductive.
LEMMA NextFInv ==
  ASSUME FInv, [Next]_vars
  PROVE  FInv'
<1>0. /\ IInv' /\ now \in Nat /\ now' \in Nat /\ Timeout \in Nat
      /\ phase \in [Calls -> Phases] /\ key \in [Calls -> Keys] /\ reply \in [Calls -> Reply]
      /\ cache \in [Keys -> Closes \cup {NoClose}] /\ since \in [Calls -> Nat]
  <2>1. IInv'
    BY NextIInv DEF FInv
  <2> QED
    BY <2>1, ResolverAssumption DEF FInv, IInv, TypeOK
<1>1. ASSUME NEW c \in Calls, Answer(c)
      PROVE  InTime' /\ Timely' /\ CloseInTime'
  <2>1. PICK r \in Reply :
          /\ reply' = [reply EXCEPT ![c] = r]
          /\ r \in Row => (IsFinal(r.open) => r.close = truth[r.open])
    BY <1>1 DEF Answer
  <2>2. /\ phase[c] = "asking" /\ phase' = [phase EXCEPT ![c] = "answered"]
        /\ UNCHANGED <<now, truth, cache, key, since>>
    BY <1>1 DEF Answer
  <2>3. InTime'
    BY <1>0, <2>2 DEF FInv, InTime, Requesting
  <2>4. Timely'
    <3>1. r \in Row /\ ~IsFinal(r.open) => since[c] < EndOf(r.open)
      <4>1. since[c] <= now
        BY <2>2 DEF FInv, InTime, Requesting
      <4>2. r \in Row => EndOf(r.open) \in Int
        BY EndsAreNumbers DEF Row
      <4> QED
        BY <1>0, <4>1, <4>2 DEF IsFinal
    <3> QED
      BY <1>0, <2>1, <2>2, <3>1 DEF FInv, Timely, EndOf
  <2>5. CloseInTime'
    <3>1. \A d \in Calls : phase[d] = "done" => phase'[d] = "done" /\ reply'[d] = reply[d]
      BY <1>0, <2>1, <2>2
    <3> QED
      BY <1>0, <2>2, <3>1, FairStays
  <2> QED
    BY <2>3, <2>4, <2>5
<1>2. ASSUME NEW c \in Calls, Handle(c)
      PROVE  InTime' /\ Timely' /\ CloseInTime'
  <2>1. /\ phase[c] = "answered" /\ phase' = [phase EXCEPT ![c] = "done"]
        /\ UNCHANGED <<now, truth, key, reply, since>>
        /\ cache' \in {cache, Keep(c)}
    BY <1>2 DEF Handle, Finish
  <2>2. InTime'
    BY <1>0, <2>1 DEF FInv, InTime, Requesting
  <2>3. Timely'
    BY <1>0, <2>1 DEF FInv, Timely, EndOf
  <2>4. ASSUME NEW k \in Keys, k = key[c], Accepted(c) # NoClose, cache'[k] = Accepted(c)
        PROVE  \E m \in Around(k) : Fair(k, m)'
    <3> DEFINE m == reply[c].open
    <3>1. /\ reply[c] \in Row /\ Near(m, key[c]) /\ IsFinal(m) /\ m \in Candles
          /\ Accepted(c) = reply[c].close
      BY <2>4 DEF Accepted, Row
    <3>2. m \in Around(k)
      <4>1. m \in Int /\ key[c] \in Int
        <5>1. \A end \in Ends : KeyOf(end) \in Int
          <6>1. \A end \in Ends : end \in Int
            BY ResolverAssumption
          <6> QED
            BY <6>1 DEF KeyOf, Minute
        <5>2. key[c] \in Keys /\ m \in Int
          BY <1>0, <3>1, ResolverAssumption
        <5> QED
          BY <5>1, <5>2 DEF Keys
      <4> QED
        BY <2>4, <3>1, <4>1 DEF Near, Around
    <3>3. now' >= EndOf(m)
      BY <2>1, <3>1 DEF IsFinal
    <3>4. CASE reply[c].close = truth[m]
      BY <2>1, <2>4, <3>1, <3>2, <3>3, <3>4 DEF Fair
    <3>5. CASE reply[c].close # truth[m]
      <4>1. since[c] < EndOf(m)
        BY <2>1, <3>1, <3>5 DEF FInv, Timely
      <4>2. EndOf(m) <= since[c] + Timeout
        <5>1. now <= since[c] + Timeout
          BY <2>1 DEF FInv, InTime, Requesting
        <5>2. EndOf(m) \in Int /\ since[c] \in Nat
          BY <1>0, <2>1, <3>1, EndsAreNumbers
        <5> QED
          BY <1>0, <3>1, <5>1, <5>2 DEF IsFinal
      <4>3. AskedLate(k, m, cache[k])'
        BY <1>0, <2>1, <2>4, <3>1, <4>1, <4>2 DEF AskedLate, EndOf
      <4> QED
        BY <2>1, <3>2, <3>3, <4>3 DEF Fair
    <3> QED
      BY <3>4, <3>5
  <2>5. \A k \in Keys : cache'[k] # cache[k] /\ cache'[k] # NoClose =>
          k = key[c] /\ Accepted(c) # NoClose /\ cache'[key[c]] = Accepted(c)
    BY <1>0, <2>1 DEF Keep
  <2>6. CloseInTime'
    <3>1. \A d \in Calls : phase[d] = "done" => phase'[d] = "done"
      BY <1>0, <2>1
    <3>2. \A k \in Keys : cache'[k] # cache[k] /\ cache'[k] # NoClose =>
            \E m \in Around(k) : Fair(k, m)'
      <4> SUFFICES ASSUME NEW k \in Keys, cache'[k] # cache[k], cache'[k] # NoClose
                   PROVE  \E m \in Around(k) : Fair(k, m)'
        OBVIOUS
      <4>1. k = key[c] /\ Accepted(c) # NoClose /\ cache'[key[c]] = Accepted(c)
        BY <2>5
      <4> QED
        BY <2>4, <4>1
    <3> QED
      BY <1>0, <2>1, <3>1, <3>2, FairStays
  <2> QED
    BY <2>2, <2>3, <2>6
<1>3. CASE Tick
  <2>1. /\ \A c \in Calls : phase[c] \in Requesting => now < since[c] + Timeout
        /\ now' = now + 1
        /\ UNCHANGED <<truth, cache, phase, key, reply, since>>
    BY <1>3 DEF Tick, Requesting
  <2>2. InTime'
    BY <1>0, <2>1 DEF FInv, InTime
  <2>3. Timely'
    BY <2>1 DEF FInv, Timely, EndOf
  <2>4. CloseInTime'
    BY <1>0, <2>1, FairStays
  <2> QED
    BY <1>0, <2>2, <2>3, <2>4 DEF FInv
<1>4. ASSUME NEW c \in Calls, NEW end \in Ends,
             FromCache(c, end) \/ Join(c, end) \/ Ask(c, end)
      PROVE  InTime' /\ Timely' /\ CloseInTime'
  <2>1. /\ UNCHANGED <<now, truth, cache, reply>> /\ phase[c] = "new"
        /\ \/ /\ \E q \in {"done", "waiting"} : phase' = [phase EXCEPT ![c] = q]
              /\ since' = since
           \/ phase' = [phase EXCEPT ![c] = "asking"] /\ since' = [since EXCEPT ![c] = now]
        /\ \E k \in Keys : key' = [key EXCEPT ![c] = k]
    BY <1>4, KeysOfEnds DEF FromCache, Join, Ask, Finish
  <2>2. /\ \A d \in Calls \ {c} : since'[d] = since[d] /\ phase'[d] = phase[d]
                                 /\ key'[d] = key[d]
        /\ phase'[c] = "asking" => since'[c] = now
        /\ phase'[c] # "answered"
    BY <1>0, <2>1
  <2>3. InTime'
    BY <1>0, <2>1, <2>2 DEF FInv, InTime, Requesting
  <2>4. Timely'
    BY <2>1, <2>2 DEF FInv, Timely, EndOf
  <2>5. CloseInTime'
    <3>1. \A d \in Calls : phase[d] = "done" =>
            phase'[d] = "done" /\ key'[d] = key[d] /\ since'[d] = since[d]
      BY <2>1, <2>2
    <3> QED
      BY <1>0, <2>1, <3>1, FairStays
  <2> QED
    BY <2>3, <2>4, <2>5
<1>5. ASSUME NEW c \in Calls, Wake(c) \/ Cancel(c)
      PROVE  InTime' /\ Timely' /\ CloseInTime'
  <2>1. /\ UNCHANGED <<now, truth, cache, reply, key, since>>
        /\ phase' = phase \/ phase' = [phase EXCEPT ![c] = "done"]
    BY <1>5 DEF Wake, Cancel, CancelLeader, CancelWaiter, Finish
  <2>2. InTime' /\ Timely'
    BY <1>0, <2>1 DEF FInv, InTime, Timely, EndOf, Requesting
  <2>3. CloseInTime'
    <3>1. \A d \in Calls : phase[d] = "done" => phase'[d] = "done"
      BY <1>0, <2>1
    <3> QED
      BY <1>0, <2>1, <3>1, FairStays
  <2> QED
    BY <2>2, <2>3
<1>6. CASE UNCHANGED vars
  <2>1. UNCHANGED <<now, truth, cache, phase, key, reply, since>>
    BY <1>6 DEF vars
  <2>2. InTime' /\ Timely'
    BY <2>1 DEF FInv, InTime, Timely, EndOf
  <2>3. CloseInTime'
    BY <1>0, <2>1, FairStays
  <2> QED
    BY <1>0, <2>2, <2>3 DEF FInv
<1> QED
  BY <1>0, <1>1, <1>2, <1>3, <1>4, <1>5, <1>6 DEF Next, FInv

\* A close that is kept is the final one of the candle asked for or of its neighbour, or
\* a price that candle had at most a timeout before its end.
THEOREM CloseInTimeHolds == Spec => []CloseInTime
<1>1. Init => FInv
  BY InitIInv DEF FInv, Init, InTime, Timely, CloseInTime, Requesting
<1>2. FInv /\ [Next]_vars => FInv'
  BY NextFInv
<1>3. FInv => CloseInTime
  BY DEF FInv
<1> QED
  BY <1>1, <1>2, <1>3, PTL DEF Spec

-----------------------------------------------------------------------------
(* The rounds of a feed on the chain *)

\* A metric as near as that of a round is known, or the round has none.
Known(b, r) ==
  stamps[r] = 0 \/ (b \in Search!Rounds /\ Search!Distance(b) <= Search!Distance(r))
Seen(r) == Known(best, r)

Searching == {"bisecting", "lower", "upper", "over"}

SearchTypes ==
  /\ stamps \in [Search!Rounds -> Nat] /\ stamps[Latest] > 0
  /\ \A q, r \in Search!Rounds : q <= r => stamps[q] <= stamps[r]
  /\ target \in Nat
  /\ at \in {"asking", "none"} \cup Searching
  /\ turn \in 0 .. Turns /\ (at = "asking" => turn = 0)
  /\ best \in Search!Rounds \cup {NoRound}

\* The target is in the window: what is outside it is known to be no nearer than its
\* ends, or lies beyond a failure.
LowOK ==
  lo = Search!From \/ ((stamps[lo] = 0 \/ stamps[lo] < target) /\ Seen(lo))
HighOK ==
  hi = Latest \/ hi \in failed \/ (stamps[hi] # 0 /\ stamps[hi] >= target)
Window ==
  /\ lo \in Search!From .. Latest /\ hi \in Search!From .. Latest /\ lo <= hi
  /\ LowOK /\ HighOK

\* Every turn halves the window.
Halved ==
  /\ at = "bisecting" /\ Search!Fits => hi - lo <= 2 ^ (Turns - turn)
  /\ at \in {"lower", "upper", "over"} /\ Search!Fits => hi <= lo + 1

Looked ==
  /\ at \in {"upper", "over"} => lo \in failed \/ Seen(lo)
  /\ at = "over" => hi \in failed \/ Seen(hi)

SInv == SearchTypes /\ (at \in Searching => Window /\ Halved /\ Looked)

\* The window lies among the rounds.
LEMMA FromIs ==
  ASSUME SearchTypes
  PROVE  /\ Search!RoundsBack \in Nat /\ Search!From \in 1 .. Latest /\ Latest \in Nat \ {0}
         /\ Search!From = 1 \/ Search!From = Latest - Search!RoundsBack
<1> USE OraclesAssumption DEF Search!SearchAssumption
<1>1. Latest \in 1 .. Latest
  OBVIOUS
<1>2. Search!SecsBack \in Nat
  BY <1>1 DEF Search!SecsBack, SearchTypes, Search!Rounds
<1>3. Search!SecsBack \div Beat \in Nat
  <2> DEFINE s == Search!SecsBack
  <2>1. s \in Nat /\ Beat \in Nat \ {0}
    BY <1>2
  <2> HIDE DEF s
  <2>2. s \div Beat \in Nat
    BY <2>1
  <2> QED
    BY <2>2 DEF s
<1>4. Search!RoundsBack \in Nat
  BY <1>3 DEF Search!RoundsBack
<1> QED
  BY <1>4 DEF Search!From

\* The best round so far is no farther than one that was looked at, nor than any before.
LEMMA NearerIs ==
  ASSUME SearchTypes, NEW r \in Search!Rounds
  PROVE  /\ Search!Nearer(r) \in Search!Rounds \cup {NoRound}
         /\ Known(Search!Nearer(r), r)
         /\ \A q \in Search!Rounds : Seen(q) => Known(Search!Nearer(r), q)
<1>1. \A q \in Search!Rounds : Search!Distance(q) \in Nat
  BY DEF SearchTypes, Search!Distance
<1>2. NoRound \notin Search!Rounds /\ best \in Search!Rounds \cup {NoRound}
  BY OraclesAssumption DEF Search!SearchAssumption, Search!Rounds, SearchTypes
<1>3. CASE stamps[r] # 0 /\ (best = NoRound \/ Search!Distance(r) < Search!Distance(best))
  <2>1. Search!Nearer(r) = r
    BY <1>3 DEF Search!Nearer
  <2> QED
    BY <1>1, <1>2, <1>3, <2>1 DEF Known, Seen
<1>4. CASE ~(stamps[r] # 0 /\ (best = NoRound \/ Search!Distance(r) < Search!Distance(best)))
  <2>1. Search!Nearer(r) = best
    BY <1>4 DEF Search!Nearer
  <2> QED
    BY <1>1, <1>2, <1>4, <2>1 DEF Known, Seen
<1> QED
  BY <1>3, <1>4

\* At first nothing was searched.
LEMMA SearchInit == Search!Init => SInv
<1> SUFFICES ASSUME Search!Init PROVE SInv
  OBVIOUS
<1>1. /\ stamps \in [Search!Rounds -> 0 .. MaxStamp] /\ stamps[Latest] > 0
      /\ \A q, r \in Search!Rounds : q <= r => stamps[q] <= stamps[r]
      /\ target \in Targets /\ at = "asking" /\ turn = 0 /\ best = NoRound
  BY DEF Search!Init
<1>2. Turns \in Nat /\ Targets \subseteq Nat
  BY OraclesAssumption DEF Search!SearchAssumption
<1>3. stamps \in [Search!Rounds -> Nat] /\ 0 \in 0 .. Turns /\ target \in Nat
  BY <1>1, <1>2
<1> QED
  BY <1>1, <1>3 DEF SInv, SearchTypes, Searching

\* A power of two counts the sets of so many members, and one member more doubles them.
LEMMA PowerOfTwo ==
  ASSUME NEW n \in Nat
  PROVE  2 ^ n \in Nat \ {0} /\ 2 ^ (n + 1) = 2 ^ n + 2 ^ n
<1> DEFINE A == SUBSET (1 .. n)
           B == SUBSET (1 .. n + 1)
           With(X) == X \cup {n + 1}
           C == {With(X) : X \in A}
<1>1. IsFiniteSet(A) /\ Cardinality(A) = 2 ^ n /\ Cardinality(A) \in Nat
  <2>1. IsFiniteSet(1 .. n) /\ Cardinality(1 .. n) = n
    BY FS_Interval
  <2> QED
    BY <2>1, FS_SUBSET, FS_CardinalityType
<1>2. IsFiniteSet(B) /\ Cardinality(B) = 2 ^ (n + 1)
  <2>1. IsFiniteSet(1 .. n + 1) /\ Cardinality(1 .. n + 1) = n + 1
    BY FS_Interval
  <2> QED
    BY <2>1, FS_SUBSET
<1>3. IsFiniteSet(C) /\ Cardinality(C) = Cardinality(A)
  <2> DEFINE f == [X \in A |-> With(X)]
  <2>1. f \in [A -> C] /\ \A X, Y \in A : f[X] = f[Y] => X = Y
    <3>1. ASSUME NEW X \in A, NEW Y \in A, With(X) = With(Y) PROVE X = Y
      <4>1. n + 1 \notin X /\ n + 1 \notin Y
        OBVIOUS
      <4> QED
        BY <3>1, <4>1
    <3>2. \A X \in A : f[X] = With(X)
      OBVIOUS
    <3>3. f \in [A -> C]
      OBVIOUS
    <3> HIDE DEF f, With
    <3> QED
      BY <3>1, <3>2, <3>3
  <2>2. \A Z \in C : \E X \in A : f[X] = Z
    OBVIOUS
  <2> HIDE DEF f, A, C
  <2>3. f \in Bijection(A, C)
    BY <2>1, <2>2 DEF Bijection, Injection, Surjection, IsInjective
  <2> QED
    BY <1>1, <2>3, FS_Bijection DEF ExistsBijection
<1>4. A \cup C = B /\ A \cap C = {}
  <2>1. ASSUME NEW Z \in B PROVE Z \in A \cup C
    <3>1. CASE n + 1 \in Z
      <4>1. Z \ {n + 1} \in A /\ Z = With(Z \ {n + 1})
        BY <3>1
      <4> QED
        BY <4>1
    <3>2. CASE n + 1 \notin Z
      BY <3>2
    <3> QED
      BY <3>1, <3>2
  <2>2. A \cup C \subseteq B
    <3>1. 1 .. n \subseteq 1 .. n + 1 /\ n + 1 \in 1 .. n + 1
      OBVIOUS
    <3>2. A \subseteq B
      BY <3>1
    <3>3. ASSUME NEW X \in A PROVE With(X) \in B
      BY <3>1
    <3> HIDE DEF A, B, With
    <3>4. C \subseteq B
      BY <3>3
    <3> QED
      BY <3>2, <3>4
  <2>3. \A X \in A : n + 1 \notin X
    OBVIOUS
  <2>4. \A Z \in C : n + 1 \in Z
    OBVIOUS
  <2> QED
    BY <2>1, <2>2, <2>3, <2>4
<1>5. n \in Nat /\ A # {}
  OBVIOUS
<1> HIDE DEF A, B, C
<1>6. Cardinality(A \cup C) = Cardinality(A) + Cardinality(C) - Cardinality(A \cap C)
  BY <1>1, <1>3, FS_Union
<1>7. Cardinality(A \cap C) = 0
  BY <1>4, FS_EmptySet
<1>8. Cardinality(A) # 0
  BY <1>1, <1>5, FS_EmptySet
<1> DEFINE p == 2 ^ n
           q == 2 ^ (n + 1)
<1>9. Cardinality(A) = p /\ Cardinality(B) = q
  BY <1>1, <1>2
<1> HIDE DEF p, q
<1>10. p \in Nat \ {0} /\ q = p + p
  BY <1>1, <1>3, <1>4, <1>6, <1>7, <1>8, <1>9
<1> QED
  BY <1>10 DEF p, q

\* The window may be halved at its middle, which is not one of its ends.
LEMMA Middle ==
  ASSUME NEW l \in Nat, NEW h \in Nat, l < h - 1, NEW k \in Nat \ {0},
         h - l <= 2 ^ k
  PROVE  h - (l + h) \div 2 <= 2 ^ (k - 1) /\ (l + h) \div 2 - l <= 2 ^ (k - 1)
<1>1. 2 ^ k = 2 ^ (k - 1) + 2 ^ (k - 1) /\ 2 ^ (k - 1) \in Nat
  <2>1. k - 1 \in Nat /\ (k - 1) + 1 = k
    OBVIOUS
  <2> QED
    BY <2>1, PowerOfTwo
<1> DEFINE p == 2 ^ (k - 1)
<1>2. h - l <= p + p /\ p \in Nat
  BY <1>1
<1> HIDE DEF p
<1>3. h - (l + h) \div 2 <= p /\ (l + h) \div 2 - l <= p
  BY <1>2
<1> QED
  BY <1>3 DEF p

\* SInv is inductive.
LEMMA SearchNext == SInv /\ Search!Next => SInv'
<1> SUFFICES ASSUME SInv, Search!Next PROVE SInv'
  OBVIOUS
<1>0. /\ SearchTypes /\ (at \in Searching => Window /\ Halved /\ Looked)
      /\ Turns \in Nat /\ NoRound \notin Search!Rounds
  BY OraclesAssumption DEF SInv, Search!SearchAssumption, Search!Rounds
<1>1. /\ Search!From \in 1 .. Latest /\ Latest \in Nat \ {0}
      /\ UNCHANGED <<stamps, target>>
  BY <1>0, FromIs DEF Search!Next, Search!Start, Search!Bisect, Search!Bisected,
     Search!LookAtEnds
<1>2. /\ Search!From' = Search!From /\ Search!Fits' = Search!Fits
      /\ \A b, r : Known(b, r)' = Known(b, r)
  BY <1>1 DEF Search!From, Search!RoundsBack, Search!SecsBack, Search!Fits, Known,
     Search!Distance
<1>3. ASSUME NEW r \in Search!Rounds, best' = Search!Nearer(r)
      PROVE  /\ best' \in Search!Rounds \cup {NoRound} /\ Known(best', r)
             /\ \A q \in Search!Rounds : Seen(q) => Seen(q)'
  <2>1. \A q \in Search!Rounds : Seen(q)' <=> Known(best', q)
    BY <1>1 DEF Seen, Known, Search!Distance
  <2> QED
    BY <1>0, <1>3, <2>1, NearerIs
<1>4. ASSUME best' = best PROVE \A q \in Search!Rounds : Seen(q)' <=> Seen(q)
  BY <1>1, <1>4 DEF Seen, Known, Search!Distance
<1>5. at \in Searching =>
        /\ lo \in Search!Rounds /\ hi \in Search!Rounds /\ lo <= hi
        /\ lo \in Search!From .. Latest /\ hi \in Search!From .. Latest
  BY <1>0, <1>1 DEF Window, Search!Rounds
<1>6. CASE Search!Start
  <2>1. at = "asking" /\ turn = 0 /\ UNCHANGED <<turn, best, failed>>
    BY <1>0, <1>6 DEF Search!Start, SearchTypes
  <2>2. CASE at' = "bisecting" /\ lo' = Search!From /\ hi' = Latest
    <3>1. SearchTypes'
      BY <1>0, <1>1, <2>1, <2>2 DEF SearchTypes, Searching
    <3>2. Window'
      BY <1>1, <1>2, <2>2 DEF Window, LowOK, HighOK
    <3>3. Halved'
      <4>1. Turns - turn' = Turns
        BY <1>0, <2>1
      <4> QED
        BY <1>2, <2>2, <4>1 DEF Halved, Search!Fits
    <3>4. Looked'
      BY <2>2 DEF Looked
    <3> QED
      BY <3>1, <3>2, <3>3, <3>4 DEF SInv
  <2>3. CASE at' = "none"
    BY <1>0, <1>1, <2>1, <2>3 DEF SInv, SearchTypes, Searching
  <2> QED
    BY <1>6, <2>2, <2>3 DEF Search!Start
<1>7. CASE Search!Bisect
  <2> DEFINE mid == (lo + hi) \div 2
  <2>1. /\ at = "bisecting" /\ at' = at /\ turn < Turns /\ lo < hi - 1 /\ turn' = turn + 1
        /\ Search!Halve(mid) \/ Search!HalveBlind(mid)
    BY <1>7 DEF Search!Bisect
  <2>2. at \in Searching
    BY <2>1 DEF Searching
  <2>3. mid \in lo + 1 .. hi - 1
    BY <1>1, <1>5, <2>1, <2>2
  <2>4. mid \in Search!Rounds /\ mid \in Search!From .. Latest /\ lo <= mid /\ mid <= hi
    BY <1>1, <1>5, <2>2, <2>3 DEF Search!Rounds
  <2>5. Search!Fits => hi - mid <= 2 ^ (Turns - turn') /\ mid - lo <= 2 ^ (Turns - turn')
    <3>1. turn \in Nat /\ Turns - turn \in Nat \ {0} /\ Turns - turn' = (Turns - turn) - 1
      BY <1>0, <2>1 DEF SearchTypes
    <3>2. lo \in Nat /\ hi \in Nat
      BY <1>1, <1>5, <2>2
    <3>3. Search!Fits => hi - lo <= 2 ^ (Turns - turn)
      BY <1>0, <2>1, <2>2 DEF Halved
    <3> DEFINE k == Turns - turn
    <3> HIDE DEF k
    <3>4. Search!Fits => hi - mid <= 2 ^ (k - 1) /\ mid - lo <= 2 ^ (k - 1)
      BY <2>1, <3>1, <3>2, <3>3, Middle DEF k
    <3> QED
      BY <3>1, <3>4 DEF k
  <2> HIDE DEF mid
  <2>6. turn' \in 0 .. Turns
    BY <1>0, <2>1 DEF SearchTypes
  <2>7. Looked'
    BY <2>1 DEF Looked
  <2>8. CASE Search!Halve(mid)
    <3>1. /\ best' = Search!Nearer(mid) /\ UNCHANGED failed
          /\ \/ /\ stamps[mid] = 0 \/ stamps[mid] < target
                /\ lo' = mid /\ hi' = hi
             \/ /\ ~(stamps[mid] = 0 \/ stamps[mid] < target)
                /\ hi' = mid /\ lo' = lo
      BY <2>8 DEF Search!Halve
    <3>2. /\ best' \in Search!Rounds \cup {NoRound} /\ Known(best', mid)
          /\ \A q \in Search!Rounds : Seen(q) => Seen(q)'
      BY <1>3, <2>4, <3>1
    <3>3. SearchTypes'
      BY <1>0, <1>1, <2>1, <2>6, <3>2 DEF SearchTypes, Searching
    <3>4. CASE (stamps[mid] = 0 \/ stamps[mid] < target) /\ lo' = mid /\ hi' = hi
      <4>1. Seen(lo)'
        BY <1>1, <3>2, <3>4 DEF Seen, Known, Search!Distance
      <4>2. LowOK' /\ HighOK'
        BY <1>0, <1>1, <2>2, <3>1, <3>4, <4>1 DEF Window, LowOK, HighOK
      <4>3. Window'
        BY <1>1, <1>2, <1>5, <2>2, <2>4, <3>4, <4>2 DEF Window
      <4>4. Halved'
        BY <1>2, <2>1, <2>5, <3>4 DEF Halved
      <4> QED
        BY <2>7, <3>3, <4>3, <4>4 DEF SInv
    <3>5. CASE ~(stamps[mid] = 0 \/ stamps[mid] < target) /\ hi' = mid /\ lo' = lo
      <4>1. HighOK'
        <5>1. stamps[mid] \in Nat /\ target \in Nat
          BY <1>0, <2>4 DEF SearchTypes
        <5> QED
          BY <1>1, <3>5, <5>1 DEF HighOK
      <4>2. LowOK'
        BY <1>0, <1>1, <1>2, <1>5, <2>2, <3>2, <3>5 DEF Window, LowOK
      <4>3. Window'
        BY <1>1, <1>2, <1>5, <2>2, <2>4, <3>5, <4>1, <4>2 DEF Window
      <4>4. Halved'
        BY <1>2, <2>1, <2>5, <3>5 DEF Halved
      <4> QED
        BY <2>7, <3>3, <4>3, <4>4 DEF SInv
    <3> QED
      BY <3>1, <3>4, <3>5
  <2>9. CASE Search!HalveBlind(mid)
    <3>1. failed' = failed \cup {mid} /\ hi' = mid /\ lo' = lo /\ best' = best
      BY <2>9 DEF Search!HalveBlind
    <3>2. SearchTypes'
      BY <1>0, <1>1, <2>1, <2>6, <3>1 DEF SearchTypes, Searching
    <3>3. LowOK' /\ HighOK'
      BY <1>0, <1>1, <1>2, <1>4, <1>5, <2>2, <3>1 DEF Window, LowOK, HighOK
    <3>4. Window'
      BY <1>1, <1>2, <1>5, <2>2, <2>4, <3>1, <3>3 DEF Window
    <3>5. Halved'
      BY <1>2, <2>1, <2>5, <3>1 DEF Halved
    <3> QED
      BY <2>7, <3>2, <3>4, <3>5 DEF SInv
  <2> QED
    BY <2>1, <2>8, <2>9
<1>8. CASE Search!Bisected
  <2>1. /\ at = "bisecting" /\ at' = "lower"
        /\ turn = Turns \/ lo >= hi - 1
        /\ UNCHANGED <<lo, hi, turn, best, failed>>
    BY <1>8 DEF Search!Bisected
  <2>2. at \in Searching
    BY <2>1 DEF Searching
  <2>3. SearchTypes'
    BY <1>0, <1>1, <2>1 DEF SearchTypes, Searching
  <2>4. Window'
    BY <1>0, <1>1, <1>2, <1>4, <1>5, <2>1, <2>2 DEF Window, LowOK, HighOK
  <2>5. Search!Fits => hi <= lo + 1
    <3>1. lo \in Nat /\ hi \in Nat
      BY <1>1, <1>5, <2>2
    <3>2. CASE turn = Turns
      <4>1. Search!Fits => hi - lo <= 2 ^ (Turns - turn)
        BY <1>0, <2>1, <2>2 DEF Halved
      <4>2. Turns - turn = 0
        BY <1>0, <3>2
      <4>3. 2 ^ 0 = 1
        OBVIOUS
      <4>4. Search!Fits => hi - lo <= 1
        <5> DEFINE p == 2 ^ (Turns - turn)
        <5>1. p = 1
          BY <4>2, <4>3
        <5>2. Search!Fits => hi - lo <= p
          BY <4>1
        <5> HIDE DEF p
        <5> QED
          BY <5>1, <5>2
      <4> QED
        BY <3>1, <4>4
    <3>3. CASE lo >= hi - 1
      BY <3>1, <3>3
    <3> QED
      BY <2>1, <3>2, <3>3
  <2>6. Halved' /\ Looked'
    BY <1>2, <2>1, <2>5 DEF Halved, Looked
  <2> QED
    BY <2>3, <2>4, <2>6 DEF SInv
<1>9. CASE Search!LookAtEnds
  <2>1. /\ UNCHANGED <<lo, hi, turn>>
        /\ \/ at = "lower" /\ at' = "upper" /\ Search!LookAt(lo)
           \/ at = "upper" /\ at' = "over" /\ Search!LookAt(hi)
    BY <1>9 DEF Search!LookAtEnds
  <2>2. at \in Searching /\ at' \in Searching
    BY <2>1 DEF Searching
  <2>3. ASSUME NEW r \in Search!Rounds, Search!LookAt(r)
        PROVE  /\ best' \in Search!Rounds \cup {NoRound} /\ failed \subseteq failed'
               /\ r \in failed' \/ Known(best', r)
               /\ \A q \in Search!Rounds : Seen(q) => Seen(q)'
    <3>1. CASE best' = Search!Nearer(r) /\ UNCHANGED failed
      BY <1>3, <3>1
    <3>2. CASE failed' = failed \cup {r} /\ UNCHANGED best
      BY <1>0, <1>4, <3>2 DEF SearchTypes
    <3> QED
      BY <2>3, <3>1, <3>2 DEF Search!LookAt
  <2>4. /\ best' \in Search!Rounds \cup {NoRound} /\ failed \subseteq failed'
        /\ \A q \in Search!Rounds : Seen(q) => Seen(q)'
    BY <1>5, <2>1, <2>2, <2>3
  <2>5. SearchTypes'
    BY <1>0, <1>1, <2>1, <2>2, <2>4 DEF SearchTypes, Searching
  <2>6. Window'
    <3>1. LowOK' /\ HighOK'
      BY <1>0, <1>1, <1>2, <1>5, <2>1, <2>2, <2>4 DEF Window, LowOK, HighOK
    <3> QED
      BY <1>1, <1>2, <1>5, <2>1, <2>2, <3>1 DEF Window
  <2>7. Halved'
    BY <1>0, <1>2, <2>1, <2>2 DEF Halved
  <2>8. Looked'
    <3>1. /\ Known(best', lo) => Seen(lo)'
          /\ Known(best', hi) => Seen(hi)'
      BY <1>1, <2>1 DEF Seen, Known, Search!Distance
    <3> QED
      BY <1>0, <1>5, <2>1, <2>2, <2>3, <2>4, <3>1 DEF Looked
  <2> QED
    BY <2>5, <2>6, <2>7, <2>8 DEF SInv
<1> QED
  BY <1>6, <1>7, <1>8, <1>9 DEF Search!Next

\* Where rounds are as seldom as the window reckons with, its lower end is not after
\* the target, unless it is the first round.
LEMMA SeldomIs ==
  ASSUME SearchTypes, Search!Seldom, Search!From # 1
  PROVE  stamps[Search!From] <= target
<1>1. /\ Search!From \in 1 .. Latest /\ Latest \in Nat /\ Search!RoundsBack \in Nat
      /\ Search!From = Latest - Search!RoundsBack
  BY FromIs
<1> DEFINE from == Search!From
           late == {r \in Search!Rounds : stamps[r] > target}
<1>2. from \in Nat /\ from \in 1 .. Latest /\ Latest - from = Search!RoundsBack
  BY <1>1
<1>3. /\ stamps \in [Search!Rounds -> Nat] /\ target \in Nat
      /\ \A q, r \in Search!Rounds : q <= r => stamps[q] <= stamps[r]
  BY DEF SearchTypes
<1>4. Cardinality(late) <= Search!RoundsBack
  <2>1. Search!Cardinality(late) = Cardinality(late)
    BY DEF Search!Cardinality, Cardinality
  <2> QED
    BY <2>1 DEF Search!Seldom
<1> HIDE DEF from
<1>5. IsFiniteSet(late)
  <2>1. IsFiniteSet(Search!Rounds)
    BY <1>1, FS_Interval DEF Search!Rounds
  <2>2. late \subseteq Search!Rounds
    OBVIOUS
  <2> QED
    BY <2>1, <2>2, FS_Subset
<1>6. ASSUME stamps[from] > target PROVE FALSE
  <2>1. from .. Latest \subseteq late
    <3>1. ASSUME NEW r \in from .. Latest PROVE r \in late
      <4>1. r \in Search!Rounds /\ from \in Search!Rounds /\ from <= r
        BY <1>1, <1>2 DEF Search!Rounds
      <4>2. stamps[from] <= stamps[r] /\ stamps[from] \in Nat /\ stamps[r] \in Nat
        BY <1>3, <4>1
      <4> QED
        BY <1>3, <1>6, <4>1, <4>2
    <3> QED
      BY <3>1
  <2>2. Cardinality(from .. Latest) = Latest - from + 1
    BY <1>1, <1>2, FS_Interval
  <2> HIDE DEF late
  <2>3. Cardinality(late) \in Nat /\ Cardinality(from .. Latest) <= Cardinality(late)
    BY <1>5, <2>1, FS_Subset, FS_CardinalityType
  <2> QED
    BY <1>1, <1>2, <1>4, <2>2, <2>3
<1>7. stamps[from] \in Nat
  BY <1>2, <1>3 DEF Search!Rounds
<1> QED
  BY <1>3, <1>6, <1>7 DEF from

\* A search that is over has looked at the two rounds around its target, of those it
\* could.
LEMMA SearchEnds == SInv => Search!NearestRound
<1> SUFFICES ASSUME SInv, at = "over", Search!Fits,
                    NEW r \in Search!Rounds, stamps[r] # 0, \A f \in failed : r < f,
                    r >= Search!From \/ (Search!Seldom /\ failed = {})
             PROVE  best # NoRound /\ Search!Distance(best) <= Search!Distance(r)
  BY DEF Search!NearestRound
<1>0. /\ SearchTypes /\ Window /\ hi <= lo + 1
      /\ lo \in failed \/ Seen(lo)
      /\ hi \in failed \/ Seen(hi)
  BY DEF SInv, Searching, Halved, Looked
<1>1. /\ Search!From \in Search!Rounds /\ Latest \in Search!Rounds
      /\ lo \in Search!Rounds /\ hi \in Search!Rounds /\ Search!Rounds \subseteq Nat
      /\ Search!From <= lo /\ hi <= Latest
      /\ NoRound \notin Search!Rounds
  BY <1>0, FromIs, OraclesAssumption DEF Window, Search!Rounds, Search!SearchAssumption
<1>2. /\ stamps \in [Search!Rounds -> Nat] /\ stamps[Latest] > 0 /\ target \in Nat
      /\ \A p, q \in Search!Rounds : p <= q => stamps[p] <= stamps[q]
      /\ best \in Search!Rounds \cup {NoRound}
  BY <1>0 DEF SearchTypes
<1>3. \A q \in Search!Rounds : Search!Distance(q) \in Nat
  BY <1>2 DEF Search!Distance
\* Before the target the later one is the nearer, and after it the earlier.
<1>4. ASSUME NEW p \in Search!Rounds, NEW q \in Search!Rounds, p <= q, stamps[q] <= target
      PROVE  Search!Distance(q) <= Search!Distance(p)
  BY <1>2, <1>4 DEF Search!Distance
<1>5. ASSUME NEW p \in Search!Rounds, NEW q \in Search!Rounds, p <= q, stamps[p] >= target
      PROVE  Search!Distance(p) <= Search!Distance(q)
  BY <1>2, <1>5 DEF Search!Distance
<1>6. ASSUME NEW q \in Search!Rounds, Seen(q), stamps[q] # 0,
             Search!Distance(q) <= Search!Distance(r)
      PROVE  best # NoRound /\ Search!Distance(best) <= Search!Distance(r)
  BY <1>1, <1>2, <1>3, <1>6 DEF Seen, Known
\* Up to the lower end of the window, it or what was seen before is as near.
<1>7. ASSUME NEW q \in Search!Rounds, stamps[q] # 0, q >= Search!From, q <= lo,
             \A f \in failed : q < f
      PROVE  \E p \in Search!Rounds : /\ Seen(p) /\ stamps[p] # 0
                                      /\ Search!Distance(p) <= Search!Distance(q)
  <2>1. Seen(lo)
    <3>1. CASE lo = Search!From
      BY <1>0, <1>1, <1>7, <3>1
    <3>2. CASE lo # Search!From
      BY <1>0, <3>2 DEF Window, LowOK
    <3> QED
      BY <3>1, <3>2
  <2>2. stamps[q] <= stamps[lo] /\ stamps[q] \in Nat /\ stamps[lo] \in Nat
    BY <1>1, <1>2, <1>7
  <2>3. stamps[lo] # 0
    BY <1>7, <2>2
  <2>4. Search!Distance(lo) <= Search!Distance(q)
    <3>1. CASE lo = Search!From
      <4>1. lo = q
        BY <1>1, <1>7, <3>1
      <4> QED
        BY <1>3, <4>1
    <3>2. CASE lo # Search!From
      <4>1. stamps[lo] <= target
        BY <1>0, <1>2, <2>2, <2>3, <3>2 DEF Window, LowOK
      <4> QED
        BY <1>1, <1>4, <1>7, <4>1
    <3> QED
      BY <3>1, <3>2
  <2> QED
    BY <1>1, <2>1, <2>3, <2>4
\* From the upper end on, it is as near.
<1>8. ASSUME NEW q \in Search!Rounds, q >= hi, \A f \in failed : q < f
      PROVE  \E p \in Search!Rounds : /\ Seen(p) /\ stamps[p] # 0
                                      /\ Search!Distance(p) <= Search!Distance(q)
  <2>1. hi \notin failed /\ Seen(hi)
    BY <1>0, <1>1, <1>8
  <2>2. CASE hi = Latest
    <3>1. q = hi
      BY <1>1, <1>8, <2>2 DEF Search!Rounds
    <3> QED
      BY <1>2, <1>3, <2>1, <2>2, <3>1
  <2>3. CASE hi # Latest
    <3>1. stamps[hi] # 0 /\ stamps[hi] >= target
      BY <1>0, <2>1, <2>3 DEF Window, HighOK
    <3> QED
      BY <1>1, <1>5, <1>8, <2>1, <3>1
  <2> QED
    BY <2>2, <2>3
<1>9. ASSUME NEW q \in Search!Rounds, stamps[q] # 0, q >= Search!From,
             \A f \in failed : q < f, Search!Distance(q) <= Search!Distance(r)
      PROVE  best # NoRound /\ Search!Distance(best) <= Search!Distance(r)
  <2>1. q <= lo \/ q >= hi
    BY <1>0, <1>1
  <2>2. PICK p \in Search!Rounds : /\ Seen(p) /\ stamps[p] # 0
                                   /\ Search!Distance(p) <= Search!Distance(q)
    BY <1>7, <1>8, <1>9, <2>1
  <2>3. Search!Distance(p) <= Search!Distance(r)
    BY <1>3, <1>9, <2>2
  <2> QED
    BY <1>6, <2>2, <2>3
<1>10. CASE r >= Search!From
  BY <1>3, <1>9, <1>10
\* Before the window, its lower end is nearer.
<1>11. CASE r < Search!From
  <2>1. Search!Seldom /\ failed = {} /\ Search!From # 1
    BY <1>1, <1>11 DEF Search!Rounds
  <2>2. stamps[Search!From] <= target
    BY <1>0, <2>1, SeldomIs
  <2>3. Search!Distance(Search!From) <= Search!Distance(r)
    BY <1>1, <1>4, <1>11, <2>2
  <2>4. stamps[Search!From] # 0
    <3>1. stamps[r] <= stamps[Search!From] /\ stamps[r] \in Nat
      BY <1>1, <1>2, <1>11
    <3> QED
      BY <1>2, <3>1
  <2> QED
    BY <1>1, <1>9, <2>1, <2>3, <2>4
<1> QED
  BY <1>1, <1>10, <1>11

\* The search ends with the round nearest to its target of those below every round whose
\* call failed, and without a failure of all rounds, if they are as seldom as the window
\* reckons with.
THEOREM NearestRoundHolds == OraclesSpec => []NearestRound
<1>1. OraclesInit => SInv
  BY SearchInit DEF OraclesInit
<1>2. SInv /\ [OraclesNext]_<<vars, searchVars, asked>> => SInv'
  <2>1. SInv /\ UNCHANGED searchVars => SInv'
    BY DEF searchVars, SInv, SearchTypes, Window, Halved, Looked, LowOK, HighOK, Seen,
       Known, Search!Fits, Search!From, Search!RoundsBack, Search!SecsBack, Search!Distance
  <2> QED
    BY <2>1, SearchNext DEF OraclesNext
<1>3. SInv => NearestRound
  BY SearchEnds DEF NearestRound
<1> QED
  BY <1>1, <1>2, <1>3, PTL DEF OraclesSpec
=============================================================================
