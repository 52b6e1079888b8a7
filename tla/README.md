# A verification development for the Asynchronous Vector Coordinator

TLA+ models of the stateful parts of this repository, the TLC configurations that
check them on small instances, and proofs, checked by TLAPS, that nearly all of the
safety properties hold for every value of the constants.

All paths are relative to the root of the repository. The repository is a redacted
excerpt: docstrings are replaced by a marker, identifiers and configuration keys were
renamed mechanically (`asyncio.create_task` has become `create_tupper_bound`, which
would raise; the models read it as what it was), and the engines' executors and main
loops are absent. What is absent is modelled from how the code that is there is meant to be
used, and `PROJECT.json` marks it `external`.

## 1. Inventory

| Component | State | Operations | Talks to |
|---|---|---|---|
| Resource allocator `risk/resource_allocator.py` | reservations (90 s, memory), a copy of the OPEN vectors (1 s), the last reason for a skip | `reserve`, `release`, the questions (`count_open`, `available_for`, `is_e4_standby`) | database, allocation oracle, executors |
| Circuit breaker `risk/circuit_breaker.py` | rows of `circuit_state`: a flag and a stamp for every halt, the market maker's day and baseline | five checks that trip, manual halt and resume, `force_resume_all`, the questions | database; the market maker is a process of its own on the same database |
| Database `db.py` | SQLite tables of vectors, circuit state, inventory, quotes | one transaction for every write, reads without a lock | everything |
| Vector manager `execution/vector_manager.py` | none | the ways out of OPEN | database |
| Oracle resolver `common/oracle_resolver.py` | a cache of closes, futures in flight | `fetch_kline_close` and two functions of it | the exchange's candles |
| Presigned payload pool `execution/presigned_payload_pool.py` | entries with ladders, a queue of announcements, a worker | `notify_book`, `drop_unit`, `pop_matching`, `submit`, the worker's refresh | payload manager, signing threads |
| Payload manager `execution/payload_manager.py` | the client and its credentials, the pool | `prewarm`, five submissions, resting payloads, polls, the parsing of replies | exchange, pool, a thread that warms up |
| Book client `ingestion/public_sentiment_node_book_ws.py` | subscribed and pending units, local books, a socket | `subscribe`, `unsubscribe`, the pump, the socket's task, frames | book server |
| Exchange feeds, consensus `ingestion/exchange_feeds/`, `ingestion/metric_consensus.py` | the metrics accepted and when, whether the feed is warm; the samples | a connection, a tick, the sampler, `is_fresh` | exchanges |
| Opportunity queue `signals/opportunity.py` | a bounded priority queue | `put`, `get` | engines, executors |
| Allocation oracle `execution/allocation_oracle.py` | the last balance, its time, the failures since | refresh in a thread, the question, reports of an outage | the chain; allocator and breaker ask it |
| Oracle metric client `ingestion/oracle_metric_client.py` | none | the search for a feed's round at a time | the chain |
| Network circuit `common/net_circuit.py` | failure times, the time until which it is open | record, reset, ask | nobody: nothing imports it |
| Others | none or trivial | formulas, guards, clients | |

Where it is hard:

- **Money seen in two places.** Between `reserve`, the insertion of the vector's row and
  `release`, money must be visible in a reservation or in the copy of the rows at every
  moment, while the copy is up to a second old, reservations expire, executors die and the
  process restarts.
- **Halts in two rows.** A flag and its stamp are two transactions; a crash falls between
  them, days pass, operators resume. The market maker's day and its baseline too.
- **Shared futures.** Calls of `fetch_kline_close` share one request; a cancelled waiter
  cancels the future of all.
- **Two tasks, one set of subscriptions.** The pump and the socket's task each send what
  the other may be sending or losing.
- **Feeds reconnect and ticks come late.** What a feed shows, what was sampled and what is
  fresh are each of their own moment, and an exchange may be wrong.
- **Two threads, three globals.** The balance, its stamp and the count of failures are written
  one by one by the event loop's thread and the refresh loop's, without a lock.
- **A copy of a remote book.** A snapshot, then changes; any may be unreadable, the
  connection breaks, and the copy is handed out while its stamp is young.
- **Answers that are not the end.** A payload that was "not filled" may fill later, and an
  answer may be lost.
- **Signing takes time.** While a ladder is signed its unit may be dropped and its old
  payloads used; a post that raises may have arrived.

What makes each component correct: the allocator never commits more than its caps, whoever
dies, and never loses capacity for good; a halt holds for its time and only for it, and a loss
beyond a limit halts; a candle has one close, which is final or nearly so, and nobody waits for ever; a wanted
unit is served; a book that is handed out, a balance and a fresh consensus are true and of now; what callers
are told of a payload is so, and in a simulation nothing is sent; a signed payload is used once and an order is placed once. Section 3 says which
of this holds, and where it does not. The list of hazards, each at its line, is in
`PROJECT.json`.

## 2. Modules

| Module | Models | Kind |
|---|---|---|
| `Amounts` | sums, excesses and percentages of amounts | operators |
| `CapacityLedger` | what an allocator promises: units take from budgets and places, and fall | abstract specification |
| `ResourceAllocator` | `risk/resource_allocator.py` with the rows it reads and its executors | detailed specification |
| `CircuitBreaker` | `risk/circuit_breaker.py` write by write | specification |
| `MMDay` | `mm_delta_today_and_total` and the table it sums | specification |
| `OracleResolver` | `fetch_kline_close` await by await | specification |
| `RoundSearch` | `_find_round_at_ts`, a bisection over rounds whose calls may fail | specification |
| `BookSubscriptions` | subscriptions of the book client over reconnections | specification |
| `LocalBooks` | the book of one unit, message by message | specification |
| `AllocationOracle` | `_fetch_onchain` write by write on two threads | specification |
| `PayloadManager` | the client, the submissions, and what is made of answers | specification |
| `PresignedPool` | the pool, and `submit_ATOMIC_EXECUTION` that uses it | specification |
| `MetricFeed` | what a feed does with a connection and a tick, on a record | operators |
| `MetricConsensus` | feeds that reconnect, the sampler, and who asks | specification |
| `ResourceAllocatorProofs`, `CircuitBreakerProofs` (with `MMDay`), `OracleResolverProofs`, `BookClientProofs` (both modules of the book client), `AllocationOracleProofs`, `PayloadManagerProofs`, `PresignedPoolProofs`, `MetricConsensusProofs` | lemmas and theorems | proofs |
| `MCAllocatorWorlds`, `MCBreakerCauses`, `MCOracles` | behaviours in which one of two worlds trades, some limits are reached, one of two oracles is asked | model checking |
| other `MC...` | values of the constants | model checking |

Each module of a component has a `TypeOK` (`DayTypeOK`, `LocalTypeOK`). It is proved for every
component that has proofs; the runs check the allocator's. `MMDay` and `LocalBooks` name
their actions differently from `CircuitBreaker` and `BookSubscriptions`, so that one module
of proofs can speak of both.

A definition whose comment calls it a mutant is a wrong variant of the definition after it, used
to confirm that a property can fail. No specification refers to one.

**The atomic steps.** The program is `asyncio`: between two awaits that really suspend, nothing
else of the process runs. An action is what happens between two such awaits, or one
database transaction where the crash of a process or another process on the same file can be
seen. `reserve` holds a lock and awaits only reads that do not suspend, so it is one action;
`_trip` is two, because the process can die between its writes.

**ResourceAllocator.** `reservations` is `_reservations` with the time left in place of the
time made; `cache` and `cacheAge` are `_open_cache` and its age; `vectors` are the rows that are
OPEN. `Grant` and `Refuse` are `reserve`, with all its checks in their order (`SkipOrder` names
the ten reasons). A unit is a reservation's uuid together with the vector that grows out of it.
The external executor is granted, executes, inserts the row (`InsertVector`), and releases
(`Release`); or it dies without releasing (`Die`). What a row costs is any of `Bases`, whatever
was reserved: a fill on paper alone costs 2% more than its leg (payload_manager.py:339), and
`insert_vector` takes any basis. `Amend` is `update_vector_legs_and_status` with status OPEN, which
rewrites the cost of an open row unknown to the copy, again to any of `Bases`; the nodes of a
rewritten vector are taken to stay those of its opportunity. `Close` is the vector manager's
three ways out of OPEN and the same rewriting with another status. `Crash` loses all
memory. Amounts are whole numbers of the smallest unit that matters. Two variables are
history: `held`, what each row still has of what was reserved for it, and `blind`, the units
granted after the query of their event's rows had raised.

**CircuitBreaker.** `flag` and `setAt` are the two rows of each key. An operation begins by
putting the writes it is going to do into `writes`, and `DoWrite` does one. `breached` is what
the realized deltas say, and moves freely (`Loss`, `Gain`), daily losses starting again at
midnight (`NextDay`). `Processes` may be more than one, since config.json:82 speaks of a shared
breaker; the present runs have one.

**MMDay.** The baseline of the market maker's day, the sum it is a baseline of, crashes between
the two writes of the first call and `wipe_mm_state`.

**OracleResolver.** Each call is a record of where it awaits: `Ask` (it became the leader),
`Answer` (the exchange), `Handle` (the code after the await), `Join` and `Wake` (the others).
`Cancel` cancels the task of a call; for a waiter this cancels the leader's future. The clock
runs between the request, the exchange's answer and its use, up to the timeout of the request
(`Timeout`, oracle_resolver.py:70); `since` is history: when each request was made.

**BookSubscriptions.** `pump` and `conn` are where the two tasks await; `sock` is the
socket object the pump holds while it sends, which may be lost meanwhile. `served` is what the server was
asked for on this connection; a message on a dead connection asks for nothing. `undone` and
`overtaken` are history: what was unsubscribed while it was being sent, and what was sent on a
lost socket after the next one had resent.

**PresignedPool.** A payload carries the serial number of its signing, so that two that are
alike stay two. `TakeNews` is the worker up to its first await, `SignRung` the return of one signing
thread, and the last rung replaces the ladder of the entry, if the pool still has it. A submission
goes through `Submit` (pop), `PostPresigned` and `PostFresh`; the pool's own `submit` posts first and
falls back on a whole submission. `Outcomes` are the exchange's: a raised post may or may not
have arrived. The two clocks of the code, monotonic and wall, are one.

**MetricFeed and MetricConsensus.** A feed is a record of its `history` (whose last entry is
`last`), the ticks still to `purge`, those accepted `since` the connection, and `warm`;
`OnConnect`, `HandleTick`, `CheckWarmup` and `IsFresh` are the methods of those names. Deviations
are compared without roots and divisions, and the median is kept doubled, so that it is whole.
`AtPlace(xs, k)` is the k-th of the sorted metrics without sorting them: the least that at least k
are up to. `MCMetricConsensus` compares the median with that of the sorted ones, for up to five. The exchanges
are external: `truth` is the metric of each moment, and an exchange outside `Liars` reports it
with its time, late, repeated and in any order. Between two connections a feed is only silent, so
`Connect` is both the first and a later connection.

**RoundSearch.** The window is estimated from the time between the target and the latest round,
halved at most twenty times, and then its two ends are looked at. Only the rounds matter, not their
metrics. A call that fails moves the upper end, as the code does.

**LocalBooks.** A book is a size per level; a message carries what it shows of the server's book at
the moment it was sent, the levels that cannot be read, and its age. `Handle(n)` is one frame with `n`
messages: the first that raises drops the rest, `Copies(n)` are the copies after each of them, and
`Heeded(n)` the messages that gave the copy a new stamp. `mirror` and `mirrorAge` are history: the server's book of the
last message that was handled, and when that was. `spoilt` says that a message since the last snapshot
was not read in full. The client's subscriptions and the watchdog, which decide when there is a
connection and what is sent on it, are in `BookSubscriptions`.

**AllocationOracle.** Each thread goes through `_fetch_onchain`: the reply, the balance, the
stamp, the count, or the failure, the count read, the count written, the answer. The other thread may
come in between any two. The event loop's thread blocks while it asks, so the refresh loop starts a
request only when it does not. `since` is history: when the chain last had each balance.

**PayloadManager.** `client` says who made it, since the warming thread and the event loop may each
make one, and `keyed` which have credentials. Each makes its client and gets the credentials in
two steps, between which the other may do the same: `MakeClient` and `KeyClient` on the loop,
`PrewarmMakes` and `PrewarmKeys` in the thread. A submission awaits the book (a release only),
then its signing, then its post; the exchange accepts at `Post`, and `Answer` is what the caller
gets, by when more may have been filled. `Kinds` are the manager's own submissions, an
atomic execution with a payload of the pool (`PRESIGNED`), the pool's own submission of one
(`TEMPLATE`), which asks only whether the process simulates (`Goes`), and its signing (`SIGN`);
`AfterRaise` is what each falls back on. An answer (`Replies`) may be no dict, lack the id, the
status or a readable amount, and carry a failure or an error; `ParseResponse`,
`ParseResting` and `ParsePayloadStatus` make of it what the code does. `orders` are the
exchange's payloads with what callers were told of each; whether an amount was assumed for want of
one (`assumed`, `silent`) and whether no answer named the payload (`unnamed`) is history. Signing
and posting are two awaits of the code with nothing between them that others see, and are one
here. Which payload the pool gives is in `PresignedPool`.

## 3. Runs

All runs end exhaustively. Times are minutes at most; sizes are in distinct states.

| Run | Question | Bounds and why they are enough |
|---|---|---|
| `allocator` | Is every open vector seen, do the caps hold, does it implement `CapacityLedger`, and what does a grant guarantee when the balance of a live engine moves or is unknown? | two paper engines, or a live and a paper one; shares, counts and caps that each stop some set of opportunities; a reservation of 3 ticks and a copy of 1, the least with which time passes while a vector is executed; three units, while every vector costs 1, or two whose vectors cost 1 or 3, where 1 or 2 was reserved, and are rewritten from one to the other; event queries that fail |
| `allocator_drain` | Does capacity come back by time alone? | two units whose executors may outlive their reservations; the query of the exposure may fail; every vector costs 2, so that rows differ by their opportunity only |
| `breaker` | Do halts hold, end only as they should, and does a lasting loss halt again? | one crash; four sets of causes: daily and weekly over three days with a week of two, an engine's day, the market maker's day with its lasting halt, the two other lasting halts |
| `breaker_mm_daily` | Is each day's loss of the market maker seen? (no: finding) | two days, no crash |
| `mm_day_recovers` | Is a spoiled baseline confined to its day? | sums between -3 and 3, four days, one crash, any number of wipes |
| `oracles` | Is a candle asked for once at a time and settled one way? Which round is found? | three calls, two candles, three minutes, two closes, one cancellation, a timeout of half a minute; six rounds with stamps up to 4 and gaps of none to 4, a window that may or may not reach back far enough, two turns that may not suffice, two failures |
| `books` | Is a wanted unit never forgotten and in the end served? | two units; connections break and return without bound |
| `local_books` | Is a book that is handed out true and recent? | two levels on one side and one on the other, there or not; two messages on their way, one unreadable; freshness and latency of one tick each |
| `presigned` | Is a payload used once, and does an extra order need a raised post? | two units for one place, ladders of two, three signings, three seconds |
| `consensus` | Is what is shown as fresh a true metric of now? | three exchanges, a quorum of three, one liar; two moments and freshness of none, so that one step of time makes everything stale; histories of two, two ticks to warm up, one purged; of the three metrics two are within the guard of each other and the third is not, and two that differ are too unsteady to warm up |
| `allocation_oracle` | Is the balance recent, in the end right, and an outage reported? | two balances, which suffice to mix up; fresh for one tick, bridged for two, a request lasts at most one; an alarm after three failures, as in the code |
| `payload_manager` | What is sent, is what callers are told so, and can they find out the rest? | two callers at a time of any kind of submission; one payload of two lots that the exchange accepts, filled in none, one or two parts, and every form of an answer to it and to polls of it. Two payloads share no state but the client, and with two the run does not end in time; the theorems are for any number |

Deadlock is checked in `books`, `local_books`, `presigned` and `consensus`. Elsewhere the bounds (days, calls, crashes, orders)
let the system end, and the configuration says so. Symmetry is used for units and calls
that are interchangeable, only in runs without liveness properties. `VIEW WhatMatters` drops
`lastSkip`, which is written and never read, and takes a reservation that is over for none. Four runs look at behaviours of one kind at a time, to
keep what shares nothing from multiplying: the action constraint `OneWorld` (the worlds
share only the copy, which shows both; the run has no liveness property), `ManyOrCostly` (three units, or costs that differ), `SomeCausesSpec` (which limits are reached), `OraclesSpec` (which oracle is asked).

In `presigned` there is one caller at a time: `pop_matching` suspends nowhere, so two
submissions meet only in the pool, one after the other, and the caller submits again
and again. Its seconds keep the proportions that matter: a payload may be used as long as its age
is below the maximum age, as with 30 - 5 and 25 in the code.

**What the runs show.**

- *Allocator.* `CacheCoversLedger`: a row that the copy does not show has a live reservation.
  From it `EngineConcurrency`, `WorldConcurrency` and `PaperBudget`: what is at stake exceeds
  an engine's share by no more than its vectors cost beyond what was taken for them (`Growth`),
  which nobody asked the allocator for. `EventExposureCap` says the same of an event and of
  what was granted with its rows in view; a query that fails hides them, and then only the
  reservations keep to the cap. `ImplementsLedger` refines the abstract ledger by what is really
  taken: rows and executors, not reservations, and a row with what it still has of what was
  reserved. `GrantWithinShare`: the grants of a live engine are within its share of the
  balance at that moment, not later, as the balance moves by itself, and but for growth
  that the copy in use does not show yet (a row covered only by its reservation counts with what
  was reserved). `GrantWithinNodeCap` and `GrantOutsideStandby` say the same of checks that count rows
  only, but for units whose reservations are live: two executions in flight on one node may together
  exceed its cap.
- *Breaker.* `TripHolds`, `OnlyForceLifts`, `LossHalts`; and `DeltaRecovers`.
- *Oracles.* `SingleFlight`, `OneClose`, `CloseInTime`, `RaisedForCause`, `NobodyStranded`. `RaisedForCause` and
  `NobodyStranded` name the causes they allow: a cancelled waiter takes the others with it, and a leader
  that was cancelled or got a malformed reply leaves its waiters for ever. `CloseInTime`: the
  clock is read after the await, so that what is kept is the final close or a price from at most a
  request's timeout before the end of the candle (provided the event loop is not held up between
  the answer and its use); and the candle may be the one before or after the one asked for, for the code
  accepts a distance of a minute. `NearestRound`: the
  round that is found is the nearest of those below every failure; a failure hides all
  later rounds, and nobody looks how far off the result is.
- *Books.* `NothingForgotten` (also: the pump does not sleep while a unit is pending),
  `UnwantedOnlyUndone` and the liveness `WantedIsServed`, with the exceptions `undone` and
  `overtaken` that the code does not prevent. `HandedWasTrue`: what is handed out is the
  server's book of one moment, also after a jump that the variance guard logs as rejected
  (it takes nothing back), unless a message since the snapshot was not read in full. `HandedIsRecent`:
  that moment is at most freshness and latency ago.
- *Pool.* `HandedOnce`, `DropHolds` (for units with no announcement still queued when they were
  dropped: such an announcement does bring the unit back), `PoolInOrder` and `OrdersExplained`,
  which bounds the orders of one submission by the posts that raised: there may be three.
- *Payload manager.* `SimulationSendsNothing`, though a caller may claim not to be on paper:
  `_ensure_client` asks again. A process that is not enabled to be live sends nothing but what the
  pool posts itself: that path asks only for `simulation_mode`. `ToldIsTrue`: nobody is told of more than
  is filled, unless the answer had no amount that is not zero, for which the code takes the
  leg's. `NothingLost`: a payload that fills after "not filled" has an id to poll, unless no
  answer named it (its post raised, the answer was no dict or without id, or `place_resting` got a
  word of error or failure). `KeylessForCause`: a client without credentials
  is kept for good, and only two failures in a row lead to it.
- *Allocation oracle.* `AnswerRecent`: a balance that is answered was the chain's at most the
  lifetime of the stored one and two requests ago, one for the reply and one for a thread that
  stores an old reply just before the other's stamp. `CatchesUp` and `OutageReported`. The log
  says that an outage returns 0.0 and may halt; it returns None, for which `check_and_trip` skips
  the resource floor.
- *Feeds.* `WarmIsOfThisConnection`, though the history that guards a feed is of before;
  `ConsensusTrue` and `FreshIsRecent` as long as fewer than half of a quorum report what is not
  so. With a freshness of none their ranges close to the moment itself. That a feed
  recovers after the metric moved beyond its guard does not hold, and nobody says so: see the hazards.

**Fairness.**

- `allocator_drain`: weak fairness of `Tick` only. Nobody has to release, close or die.
- `breaker`: an operation that runs goes on, and each check is called again and again
  (strong fairness, since other operations of the process get in between). The loop that calls
  them is not in the repository; config.json:155 describes it as polling. The check of the
  resource floor is called with a known balance again and again.
- `books`: the event loop runs what is ready, a dead connection is noticed (pings and the 30 s
  watchdog), and a reconnection comes within the backoff of five seconds. Neither engines nor the
  server have to do anything, and `WantedIsServed` assumes a connection that holds in the end.
- `allocation_oracle`: a request ends (weak fairness of a thread's step: the provider has a timeout), the
  refresh loop goes on (`while True` with a sleep of three seconds; strong, because the event loop blocks
  it while it asks itself), and time passes (strong, because requests hold it up). Nobody has
  to ask: `OutageReported` assumes that somebody does again and again.

**Finding.** One run ends in the violation of something the repository says, and
`PROJECT.json` quotes it: the market maker's daily flag is not cleared when it expires, so that
the loss of a later day trips nothing.

## 4. Proofs

Every theorem is of the specification a run checks, for all values of its constants that meet
the module's `ASSUME`. The bounds are constants too, so that a bound limits no theorem. One
assumption goes beyond that, and is in the statements that need it:

- `~MayOverrun`: an executor inserts its vector's row, or gives up, while its reservation has more than the
  life of a copy to go: in ticks, `left > CacheTTL + 1` at each tick, so within the 90 seconds less
  the copy's one and the tick's own. A row inserted later could be in neither the copy nor a
  live reservation. One that overruns spends money nobody counts, and nothing in the code prevents it. It may hold the
  reservation on after the row is there, or die without releasing it.

It is a hazard in `PROJECT.json`. What the constants may be is not: a vector may cost anything up to
`MaxAmount`, which has no bound, and any query may fail. The assumptions named `NoneAssumption` say that the
constants that stand for None are no values. What each module proves, and the inductive
invariant it takes:

**ResourceAllocatorProofs.** `TypeCorrect`; with `~MayOverrun`, `CopyCoversLedger`,
`EngineConcurrencyHolds`, `WorldConcurrencyHolds`, `PaperBudgetHolds`, `EventExposureHolds`, the
guarantees of a grant, `GrantWithinShareHolds`, `GrantWithinNodeCapHolds` and
`GrantOutsideStandbyHolds`, and the refinement of `CapacityLedger`, `LedgerImplemented`.
`CacheCoversLedger` is not inductive: an executor that is about to insert its row must still hold a
reservation that outlives the copy in use, or the row would appear in neither. `LedgerInv` says of
every unit that its executor has such a reservation (`Reserved`), that a row holds no more than it costs
and than was reserved (`HeldWithin`), that the copy has no row for a unit that is executing, and of a row that both have the
same vector, at no less than it holds (`CopyAgrees`), and that a row the copy does not show has a reservation that outlives it
(`Outlives`). The caps follow from `StakeStep`: a cap on what is taken for a set of
opportunities is kept if every grant checks it against the copy and the live reservations,
because by `StakeCovered` these are at least what is taken, whatever rows cost beyond. `TotalBeyond`
turns that into the statements: what is at stake is what is taken and the growth. The refinement maps a
grant and the later steps of its unit to the takes and falls of the ledger, and every other step to
a stutter.

**CircuitBreakerProofs.** `TypeCorrect`, `TripHoldsHolds`, `OnlyForceLiftsHolds`, for any number of processes
that write and die between their writes. `TripStands` ties a completed trip to both of its rows,
and `ClearsByForce` says which writes an operation may still hold: who is about to clear an
automatic halt is at `force_resume_all`. For `MMDay`, `DeltaRecoversHolds`: `BaselineHolds`
says that the baseline is what was realized less what was counted since.

**OracleResolverProofs.** `TypeCorrect`, `SingleFlightHolds`, `OneCloseHolds`, `RaisedForCauseHolds`,
`NobodyStrandedHolds` and `CloseInTimeHolds`. They are proved together: `Requests`
(who asks is the leader of its candle), `Inflight` (a key in flight has one),
`Leaders` (who waits does so for a call of its candle), `FuturesOK` (only a waiter cancels a future),
`Kept` (a close that a future holds or a call returned is the one in the cache), `News` (nobody knows
of a call not made yet). `CloseInTime` adds
`InTime`, that a request is out no longer than its timeout, and `Timely`: an answer not looked at
yet has the last close of its candle, or was asked for before that candle was over. `NearestRoundHolds` is of `OraclesSpec`, for any number of rounds,
with or without data, and any failures. `SInv` says of the window that what is outside it is no
nearer than its ends, or lies beyond a failure (`LowOK`, `HighOK`), and that it is at most
`2 ^ (Turns - turn)` wide (`Halved`). `PowerOfTwo` counts the subsets of `1 .. n` to show that the
power doubles, and `SeldomIs` counts the rounds after the target to show that those before the
window are farther than its lower end.

**BookClientProofs.** Of the subscriptions `TypeCorrect`, `NothingForgottenHolds`, `UnwantedOnlyUndoneHolds`;
the addition is `BatchExplained`, what the pump is in the middle of sending. Of the local books
`LocalTypeCorrect`, `HandedWasTrueHolds`, `HandedIsRecentHolds`. There the invariant is about messages
that are still on their way: each change is linked to what the message before it
shows (`Linked`), the first to the copy (`FirstLinked`), and the last shows the server's book
(`LastIsNow`). A frame is any number of messages, handled by a function defined from one to the
next. Its values are found by `Iteration`, that such a function exists, and what a frame does
(`FrameEnd`) by the least message at which it would be wrong (`Least`): this is induction
over data, from the well-foundedness of the natural numbers, without the library's theorems that take
an operator as a parameter.

**AllocationOracleProofs.** `TypeCorrect`, `CacheRecentHolds`, `AnswerRecentHolds`. `RepliesRecent` (a reply is no
older than the time its thread has spent) and `UnstampedRecent` (what is stored and not yet
stamped may be the other thread's) are what the two requests in the bound stand for.

**PayloadManagerProofs.** `TypeCorrect`, `SimulationSendsNothingHolds`, `ToldIsTrueHolds`, `NothingLostHolds`,
`KeylessForCauseHolds`. `Harmless` (who simulates has no client and no call beyond the book; who is
not live only the pool's calls), `AnswersOK` (an answer on its way speaks of no more of its payload
than is filled), `OrdersOK`, `KeysOK` (who is about to get credentials finds a client). What the
three parsers make of every form of an answer is the lemma `ToldIs`.

**PresignedPoolProofs.** `TypeCorrect`, `HandedOnceHolds`, `DropHoldsHolds`, `PoolInOrderHolds`,
`OrdersExplainedHolds`. `Serials` (every payload has a serial below the next, and the
ladders share none, the one being signed included) makes a payload unique; `QueuedNotDropped`, `LadderInOrder`
and `CallsInOrder` speak of what is in the middle: a queue, a ladder half signed, a submission
between two posts.

**MetricConsensusProofs.** `TypeCorrect`, `WarmIsOfThisConnectionHolds`, `ConsensusTrueHolds`,
`FreshIsRecentHolds`, for any number of feeds and any sizes. The heart is `MedianBetween`: of
finitely many metrics, whichever fewer than half are wrong, the median lies between two that are
not. `AtPlaceIs` counts: at least k metrics are up to the k-th, fewer than k below it, so each side
of a middle place holds more than a minority (`Outvoted`). That the counted set has a least element
and a finite one a greatest (`Least`, `Greatest`) comes from the library's well-foundedness of `<`.
`Honest` strengthens the invariant: the whole history of a feed that does not lie is of true
ticks, in whatever order, since the sampler shows the last entry and a new tick pushes an old one out.

Only model-checked:

- Liveness (`CapacityReturns`, `LossHalts`, `WantedIsServed`, `CatchesUp`, `OutageReported`): out of the
  prover's reach, since fairness is.

## 5. Not modelled

- Executors, main loops, and the chain, exchange and book servers are external.
- `common/net_circuit.py`: nothing in the repository imports it, so no part of the program reaches its
  state.
- `signals/opportunity.py`: the queue is a thin wrapper of `asyncio.PriorityQueue`; order and
  waiting are the library's. Its counter is taken before `put()` waits for room, so that an
  opportunity that waits keeps its place among equals: see the hazards.
- Of the payload manager: fills on paper, which change nothing and are answered at once, and the provider
  mode, which live refuses without sending.
- Of the book client: the last execution's metric, the diagnostics, stopping.
- Of the allocation oracle: the balance of one unit (a call without state) and the
  simulation's balance (a sum over the database).
- Of the feeds: past samples, the variance between exchanges, message formats, stopping.
- Of the database: quotes, and the deltas of vectors with their clamp, which reads a row and
  writes it in two transactions; nothing in the repository reads them again but the sums of `MMDay`
  and of a simulation.
- Formulas of costs and deltas in floating point (`execution_costs.py`, `delta_calculator.py`),
  single comparisons (`tolerance_guard.py`, `state_depth_check.py`,
  `extreme_expected_deltaent_throttle.py`), configuration, gas and clients without state: there is
  no step for a model checker to take.

## 6. Plan

1. Composition of `MMDay` with the market maker's limits of `CircuitBreaker`, two processes on one
   database; its run would replace `mm_day_recovers`.
2. Past samples (`sample_at_offsets`) against a reference definition.
