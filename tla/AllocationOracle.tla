-------------------------- MODULE AllocationOracle --------------------------
(***************************************************************************)
(* execution/allocation_oracle.py: the balance of the node's account, read *)
(* from the chain and kept in three globals: the balance, the time it was  *)
(* stored and the failures since.  Two threads write them, one after the   *)
(* other and without a lock: the event loop's, whenever a caller finds the *)
(* balance older than five seconds, and the one the refresh loop starts    *)
(* every three seconds.  A request takes time, and its thread may be       *)
(* overtaken between any two writes.                                       *)
(*                                                                         *)
(* A simulation never asks the chain: its balance is a sum over the        *)
(* database.                                                               *)
(***************************************************************************)
EXTENDS Integers

CONSTANTS
  Balances,   \* external: what the chain may report
  FreshTTL,   \* _FRESH_TTL_SEC in ticks: younger than this, nobody asks
  CacheTTL,   \* _CACHE_TTL_SEC: younger than this, a failure is bridged
  RpcTime,    \* the ticks a request takes at most, until its answer is stored
  Alarm,      \* the failures that make an outage critical
  None,       \* no balance
  NoAnswer    \* nobody has asked since the last tick

ASSUME OracleAssumption ==
  /\ Balances \subseteq Nat /\ {None, NoAnswer} \cap Nat = {}
  /\ FreshTTL \in Nat \ {0} /\ CacheTTL \in Nat /\ FreshTTL <= CacheTTL
  /\ RpcTime \in Nat /\ Alarm \in Nat \ {0}

Threads == {"caller", "refresher"}

VARIABLES
  chain,      \* external: the balance on the chain
  since,      \* history: since[b]: ticks since the chain's balance was b
  rpc,        \* external: whether the chain's node answers
  cache,      \* _allocation_cache
  age,        \* ticks since _cache_ts, up to CacheTTL, as old as that at first
  failures,   \* _consecutive_failures, counted up to Alarm
  thread,     \* where each thread is in _fetch_onchain
  answer,     \* the answer to the last question of this tick
  alarm       \* what that question's failure reported

vars == <<chain, since, rpc, cache, age, failures, thread, answer, alarm>>
external == <<chain, since, rpc>>

\* A balance nobody saw for longer than this counts as one never seen.
LongAgo == CacheTTL + 2 * RpcTime + 1

Phases == {"idle", "asking", "got", "cached", "stamped", "failed", "read", "counted"}
Thread == [phase: Phases, raw: Balances \cup {None}, spent: 0 .. RpcTime,
           count: 0 .. Alarm]
Resting == [phase |-> "idle", raw |-> None, spent |-> 0, count |-> 0]

Smaller(a, b) == IF a < b THEN a ELSE b

At(t, phase) == thread[t].phase = phase
MovesTo(t, phase) == thread' = [thread EXCEPT ![t].phase = phase]

-----------------------------------------------------------------------------
(* base_unitsc_allocation and the refresh loop *)

Begin(t) ==
  /\ thread' = [thread EXCEPT ![t] = [Resting EXCEPT !.phase = "asking"]]
  /\ UNCHANGED <<external, cache, age, failures, answer, alarm>>

Young == cache # None /\ age < FreshTTL

\* The stored balance is young enough.
AskCached ==
  /\ At("caller", "idle") /\ Young
  /\ answer' = cache
  /\ UNCHANGED <<external, cache, age, failures, thread, alarm>>

\* It is not: the event loop's thread asks the chain and blocks until it is done.
AskChain == At("caller", "idle") /\ ~Young /\ Begin("caller")

\* Mutant: the loop refreshes until it has a balance.
RefreshUntilKnown ==
  At("refresher", "idle") /\ At("caller", "idle") /\ cache = None /\ Begin("refresher")

\* The loop hands its next request to a thread: only when it is not blocked.
Refresh ==
  At("refresher", "idle") /\ At("caller", "idle") /\ Begin("refresher")

-----------------------------------------------------------------------------
(* _fetch_onchain, on either thread *)

\* The node answers with the balance of that moment.
Reply(t) ==
  /\ At(t, "asking") /\ rpc = "up"
  /\ thread' = [thread EXCEPT ![t].phase = "got", ![t].raw = chain]
  /\ UNCHANGED <<external, cache, age, failures, answer, alarm>>

RpcFails(t) ==
  /\ At(t, "asking") /\ rpc = "down"
  /\ MovesTo(t, "failed")
  /\ UNCHANGED <<external, cache, age, failures, answer, alarm>>

Store(t) ==
  /\ At(t, "got")
  /\ cache' = thread[t].raw
  /\ MovesTo(t, "cached")
  /\ UNCHANGED <<external, age, failures, answer, alarm>>

Stamp(t) ==
  /\ At(t, "cached")
  /\ age' = 0
  /\ MovesTo(t, "stamped")
  /\ UNCHANGED <<external, cache, failures, answer, alarm>>

\* What a thread returns is an answer only to the caller.
Returns(t, result) ==
  /\ thread' = [thread EXCEPT ![t] = Resting]
  /\ answer' = IF t = "caller" THEN result ELSE answer

ResetCount(t) ==
  /\ At(t, "stamped")
  /\ failures' = 0
  /\ Returns(t, thread[t].raw)
  /\ alarm' = IF t = "caller" THEN "none" ELSE alarm
  /\ UNCHANGED <<external, cache, age>>

\* failures += 1 reads and writes; the other thread may come in between.
ReadCount(t) ==
  /\ At(t, "failed")
  /\ thread' = [thread EXCEPT ![t].phase = "read", ![t].count = failures]
  /\ UNCHANGED <<external, cache, age, failures, answer, alarm>>

WriteCount(t) ==
  /\ At(t, "read")
  /\ failures' = Smaller(thread[t].count + 1, Alarm)
  /\ MovesTo(t, "counted")
  /\ UNCHANGED <<external, cache, age, answer, alarm>>

Usable == cache # None /\ age < CacheTTL

\* Mutant: an outage is critical only if no balance was ever stored.
ReportUnlessKnown ==
  IF cache # None THEN (IF failures = 1 THEN "first" ELSE "none")
  ELSE IF failures >= Alarm THEN "critical" ELSE "none"

\* What a failure tells the operators: the first of several while it is bridged,
\* and a long outage.  Only the event loop's thread can tell it.
Report ==
  IF Usable THEN (IF failures = 1 THEN "first" ELSE "none")
  ELSE IF failures >= Alarm THEN "critical" ELSE "none"

\* Mutant: what bridged a failure is stored as if it had just been read.
GiveUpStamping(t) ==
  /\ At(t, "counted")
  /\ Returns(t, IF Usable THEN cache ELSE None)
  /\ age' = IF Usable THEN 0 ELSE age
  /\ alarm' = IF t = "caller" THEN Report ELSE alarm
  /\ UNCHANGED <<external, cache, failures>>

GiveUp(t) ==
  /\ At(t, "counted")
  /\ Returns(t, IF Usable THEN cache ELSE None)
  /\ alarm' = IF t = "caller" THEN Report ELSE alarm
  /\ UNCHANGED <<external, cache, age, failures>>

-----------------------------------------------------------------------------
(* The chain and time *)

ChainMoves ==
  /\ chain' \in Balances \ {chain}
  /\ since' = [since EXCEPT ![chain'] = 0]
  /\ UNCHANGED <<rpc, cache, age, failures, thread, answer, alarm>>

RpcChanges ==
  /\ rpc' = IF rpc = "up" THEN "down" ELSE "up"
  /\ UNCHANGED <<chain, since, cache, age, failures, thread, answer, alarm>>

\* No request outlives its time.
Tick ==
  /\ \A t \in Threads : ~At(t, "idle") => thread[t].spent < RpcTime
  /\ since' = [b \in Balances |-> IF b = chain THEN 0 ELSE Smaller(since[b] + 1, LongAgo)]
  /\ age' = Smaller(age + 1, CacheTTL)
  /\ thread' = [t \in Threads |->
                  IF At(t, "idle") THEN thread[t] ELSE [thread[t] EXCEPT !.spent = @ + 1]]
  /\ answer' = NoAnswer
  /\ UNCHANGED <<chain, rpc, cache, failures, alarm>>

Init ==
  /\ chain \in Balances
  /\ since = [b \in Balances |-> IF b = chain THEN 0 ELSE LongAgo]
  /\ rpc \in {"up", "down"}
  /\ cache = None /\ age = CacheTTL /\ failures = 0
  /\ thread = [t \in Threads |-> Resting]
  /\ answer = NoAnswer /\ alarm = "none"

FetchStep(t) ==
  \/ Reply(t) \/ RpcFails(t) \/ Store(t) \/ Stamp(t) \/ ResetCount(t)
  \/ ReadCount(t) \/ WriteCount(t) \/ GiveUp(t)

Next ==
  \/ AskCached
  \/ AskChain
  \/ Refresh
  \/ \E t \in Threads : Reply(t)
  \/ \E t \in Threads : RpcFails(t)
  \/ \E t \in Threads : Store(t)
  \/ \E t \in Threads : Stamp(t)
  \/ \E t \in Threads : ResetCount(t)
  \/ \E t \in Threads : ReadCount(t)
  \/ \E t \in Threads : WriteCount(t)
  \/ \E t \in Threads : GiveUp(t)
  \/ ChainMoves
  \/ RpcChanges
  \/ Tick

Spec == Init /\ [][Next]_vars

\* Requests end, the refresh loop goes on, and time passes between them.
FairSpec ==
  /\ Spec
  /\ \A t \in Threads : WF_vars(FetchStep(t))
  /\ SF_vars(Refresh) /\ SF_vars(Tick)

-----------------------------------------------------------------------------
(* Properties *)

TypeOK ==
  /\ chain \in Balances /\ since \in [Balances -> 0 .. LongAgo]
  /\ rpc \in {"up", "down"}
  /\ cache \in Balances \cup {None} /\ age \in 0 .. CacheTTL
  /\ failures \in 0 .. Alarm
  /\ thread \in [Threads -> Thread]
  /\ answer \in Balances \cup {None, NoAnswer}
  /\ alarm \in {"none", "first", "critical"}

\* A balance that is answered was the chain's at most five minutes and two
\* requests' time ago, although balance and stamp are two writes of two threads, an
\* older reply may be stored over a newer one, and failures are bridged: one
\* request's time is for the reply, one for the other thread between its writes.
AnswerRecent ==
  [][answer' # answer /\ answer' \in Balances => since[answer'] < CacheTTL + 2 * RpcTime]_vars

\* Once the chain's balance stands still and its node answers, the allocator and
\* the breaker come to see it for good: no older reply stays.
CatchesUp ==
  \A b \in Balances : <>[](chain = b /\ rpc = "up") => <>[](cache = b)

\* An outage that lasts is reported as critical again and again, as long as somebody
\* asks: neither lost increments nor a reply that is stored late prevent it.
OutageReported ==
  <>[](rpc = "down") /\ []<>(answer # NoAnswer) => []<>(alarm = "critical")
=============================================================================
