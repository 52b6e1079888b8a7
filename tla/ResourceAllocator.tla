------------------------- MODULE ResourceAllocator -------------------------
(***************************************************************************)
(* risk/resource_allocator.py: every executor asks the allocator for money *)
(* before it executes an opportunity.  The allocator answers from three    *)
(* sources that move independently: its in-memory reservations (alive for  *)
(* 90 seconds), a copy of the OPEN vectors of the database that it keeps   *)
(* for at most one second, and the balance of the engine's world.          *)
(*                                                                         *)
(* The executors are not in the repository; they are modelled from what    *)
(* the allocator and db.py expect of them: reserve, execute, insert the    *)
(* vector, release.  A unit is one reservation's uuid and the vector that  *)
(* grows out of it; a unit is used again once nothing refers to it.        *)
(***************************************************************************)
EXTENDS Integers, FiniteSets, Sequences, Amounts

CONSTANTS
  Units,            \* reservation uuids that may exist at a time
  Engines,          \* the engines
  Paper,            \* the engines for which _engine_is_paper holds
  OracleEngine,     \* "ORACLE_NODE", the engine with a standby rule
  Events, Nodes,    \* expected_deltaent ids, expected_deltaent_node ids
  Opportunities,    \* the calls of reserve() that may be made
  MaxAmount,        \* no opportunity asks for more, and no vector costs more
  Bases,            \* what the legs of a vector may cost, basis_base_units
  PaperAllocation,  \* paper_starting_allocation_base_units
  Balances,         \* on-chain balances base_unitsc_allocation() may report
  AllocationPct,    \* paper_allocation_pct or live_allocation_pct, by engine
  MaxConcurrent,    \* ENGINE_MAX_CONCURRENT
  GlobalMax,        \* max_concurrent_vectors, for each of the two worlds
  EventCap,         \* max_exposure_per_expected_deltaent_base_units
  NodeCap,          \* max_exposure_per_expected_deltaent_node_base_units
  MinExecution,     \* min_execution_base_units
  HardFloor,        \* resource_hard_floor_base_units
  ExecutionPct,     \* max_execution_pct_of_allocation, 0 for no cap
  SmallestCap,      \* the 0.50 below which no percentage cap goes
  ReservationTTL,   \* ticks until a reservation expires (90 s)
  CacheTTL,         \* ticks for which the copy is used (_OPEN_CACHE_TTL)
  MayOverrun,       \* whether an executor may outlive its reservation
  NoEvent, NoReservation, NoRow, NoCache, NoExecutor, NoBalance, NoSkip

Opportunity ==
  [engine: Engines, amount: 1 .. MaxAmount, event: Events \cup {NoEvent},
   nodes: SUBSET Nodes, directional: BOOLEAN, far: BOOLEAN]

ASSUME AllocatorAssumption ==
  /\ IsFiniteSet(Units)
  /\ Paper \subseteq Engines
  /\ IsFiniteSet(Nodes)
  /\ Opportunities \subseteq Opportunity
  /\ MaxAmount \in Nat
  /\ Bases \subseteq 0 .. MaxAmount
  /\ Balances \subseteq Nat
  /\ PaperAllocation \in Nat
  /\ AllocationPct \in [Engines -> Nat]
  /\ MaxConcurrent \in [Engines -> Nat]
  /\ {GlobalMax, EventCap, NodeCap, MinExecution, HardFloor} \subseteq Nat
  /\ {ExecutionPct, SmallestCap, CacheTTL} \subseteq Nat
  /\ ReservationTTL \in Nat /\ ReservationTTL > CacheTTL
  /\ MayOverrun \in BOOLEAN

Reservation == [opp: Opportunities, left: 0 .. ReservationTTL]
Row == [opp: Opportunities, basis: Bases, far: BOOLEAN]
Rows == [Units -> Row \cup {NoRow}]
Executor == [opp: Opportunities, phase: {"executing", "recorded"}]

\* The constants named No... stand for None and are none of the values.
ASSUME NoneAssumption ==
  /\ NoEvent \notin Events
  /\ NoBalance \notin Balances
  /\ NoReservation \notin Reservation
  /\ NoRow \notin Row \cup [engine: Engines, amount: 0 .. MaxAmount]
  /\ NoCache \notin Rows
  /\ NoExecutor \notin Executor

VARIABLES
  reservations,  \* _reservations, with the ticks left until expires_at
  vectors,       \* the rows of table vectors whose status is OPEN
  cache,         \* _open_cache
  cacheAge,      \* ticks since _open_cache_at, up to CacheTTL + 1
  balance,       \* what base_unitsc_allocation() returns now
  executor,      \* the task that holds the unit
  lastSkip,      \* _last_skip_reason
  held,          \* history: what each row still has of what was reserved for it
  blind          \* history: the units granted although the event query had raised

vars == <<reservations, vectors, cache, cacheAge, balance, executor, lastSkip,
          held, blind>>

-----------------------------------------------------------------------------
(* What the checks of reserve() read *)

\* A reservation counts while expires_at > now.
Live(u) == reservations[u] # NoReservation /\ reservations[u].left > 0

World(e) == IF e \in Paper THEN Paper ELSE Engines \ Paper

\* _engine_allocation: a paper engine's world has a fixed balance.
Allocation(e) == IF e \in Paper THEN PaperAllocation ELSE balance

\* The engine's part of its world's balance, before what it committed.
Gross(e) == Percent(AllocationPct[e], Allocation(e))

Expired == cache = NoCache \/ cacheAge > CacheTTL

\* Mutant: the copy is used until something invalidates it, however old.
OpenVectorsStale == IF cache = NoCache THEN vectors ELSE cache

\* _open_vectors: the copy, read again from the database once it is too old.
OpenVectors == IF Expired THEN vectors ELSE cache

OfEngine(e) == {o \in Opportunities : o.engine = e}
OfWorld(e) == {o \in Opportunities : o.engine \in World(e)}
OfEvent(o) == {p \in OfWorld(o.engine) : p.event = o.event}
OnNodes(o) == {p \in OfWorld(o.engine) : p.nodes \cap o.nodes # {}}

\* The sums and counts every check is made of: the basis of the rows and the
\* amounts of the live reservations that come from the opportunities in S.
RowBasis(rows, S) ==
  Total([u \in Units |-> IF rows[u] # NoRow /\ rows[u].opp \in S
                           THEN rows[u].basis ELSE 0], MaxAmount)
InFlight(S) ==
  Total([u \in Units |-> IF Live(u) /\ reservations[u].opp \in S
                           THEN reservations[u].opp.amount ELSE 0], MaxAmount)
RowCount(rows, S) ==
  Cardinality({u \in Units : rows[u] # NoRow /\ rows[u].opp \in S})
LiveCount(S) ==
  Cardinality({u \in Units : Live(u) /\ reservations[u].opp \in S})

Committed(e) == RowBasis(OpenVectors, OfEngine(e)) + InFlight(OfEngine(e))

\* Mutants of the counts and of the exposure: reservations are left out.
CountRows(e) == RowCount(OpenVectors, OfEngine(e))
CountRowsInWorld(e) == RowCount(OpenVectors, OfWorld(e))
EventRows(o, failed) == IF failed THEN 0 ELSE RowBasis(vectors, OfEvent(o))

CountOpen(e) == RowCount(OpenVectors, OfEngine(e)) + LiveCount(OfEngine(e))
CountOpenInWorld(e) ==
  RowCount(OpenVectors, OfWorld(e)) + LiveCount(OfWorld(e))

\* The query bypasses the copy; if it raises, its rows count as nothing.
QueryFails(o) == IF o.event = NoEvent THEN {FALSE} ELSE BOOLEAN
EventExposure(o, failed) ==
  (IF failed THEN 0 ELSE RowBasis(vectors, OfEvent(o))) + InFlight(OfEvent(o))

\* Rows only: a reservation does not remember its nodes.
NodeExposure(o) == RowBasis(OpenVectors, OnNodes(o))

\* is_e4_standby: more than 60% of the allocation is in vectors that unlock
\* more than 72 hours from now.
Standby ==
  /\ Allocation(OracleEngine) > 0
  /\ 100 * Total([u \in Units |->
                    IF /\ OpenVectors[u] # NoRow
                       /\ OpenVectors[u].opp.engine = OracleEngine
                       /\ OpenVectors[u].far
                      THEN OpenVectors[u].basis ELSE 0], MaxAmount)
       > 60 * Allocation(OracleEngine)

-----------------------------------------------------------------------------
(* reserve() *)

Known(o) == Allocation(o.engine) # NoBalance

\* The reasons for which reserve() returns None, in the order it tests them.
SkipOrder ==
  <<"directional_signal_cap", "too_small_for_min_execution",
    "allocation_below_hard_floor", "over_allocation_pct_cap",
    "expected_deltaent_exposure_exceeded",
    "expected_deltaent_node_exposure_exceeded",
    "insufficient_available_resource", "engine_concurrent_cap",
    "e4_standby_resource_deadlock", "global_concurrent_cap">>

\* The tests before this one are made without the copy of the open vectors.
FirstCachedCheck == 6

OverDirectionalCap(o) ==
  /\ o.directional /\ Known(o)
  /\ o.amount > Larger(SmallestCap,
                       (30 * ExecutionPct * Allocation(o.engine)) \div 10000)

OverPctCap(o) ==
  /\ Known(o) /\ ExecutionPct > 0
  /\ o.amount > Larger(SmallestCap, Percent(ExecutionPct, Allocation(o.engine)))

OverEventCap(o, failed) ==
  o.event # NoEvent /\ EventExposure(o, failed) + o.amount > EventCap

\* An opportunity spends amount / len(nodes) on each of its nodes.
OverNodeCapAlone(o) ==  \* mutant: the open vectors are left out
  o.nodes # {} /\ o.amount > NodeCap * Cardinality(o.nodes)

OverNodeCap(o) ==
  /\ o.nodes # {}
  /\ NodeExposure(o) * Cardinality(o.nodes) + o.amount
       > NodeCap * Cardinality(o.nodes)

OverShareRows(o) ==  \* mutant: reservations are left out
  Known(o) /\ RowBasis(OpenVectors, OfEngine(o.engine)) + o.amount > Gross(o.engine)

OverShare(o) == Known(o) /\ Committed(o.engine) + o.amount > Gross(o.engine)

Refuses(i, o, failed) ==
  CASE i = 1 -> OverDirectionalCap(o)
    [] i = 2 -> o.amount < MinExecution
    [] i = 3 -> Known(o) /\ Allocation(o.engine) < HardFloor
    [] i = 4 -> OverPctCap(o)
    [] i = 5 -> OverEventCap(o, failed)
    [] i = 6 -> OverNodeCap(o)
    [] i = 7 -> OverShare(o)
    [] i = 8 -> CountOpen(o.engine) >= MaxConcurrent[o.engine]
    [] i = 9 -> o.engine = OracleEngine /\ Known(o) /\ Standby
    [] i = 10 -> CountOpenInWorld(o.engine) >= GlobalMax

\* reserve() returns None.  Without a balance (None from the oracle) only the
\* minimum size is tested before the comparison with the balance raises, and
\* for a directional signal not even that; a raise changes nothing.
Refuse(o) ==
  \E failed \in QueryFails(o), i \in 1 .. 10 :
    /\ Known(o) \/ (~o.directional /\ i = 2)
    /\ Refuses(i, o, failed)
    /\ \A j \in 1 .. i - 1 : ~Refuses(j, o, failed)
    /\ lastSkip' = SkipOrder[i]
    /\ IF i < FirstCachedCheck THEN UNCHANGED <<cache, cacheAge>>
       ELSE /\ cache' = OpenVectors
            /\ cacheAge' = IF Expired THEN 0 ELSE cacheAge
    /\ UNCHANGED <<reservations, vectors, balance, executor, held, blind>>

Idle(u) == executor[u] = NoExecutor /\ vectors[u] = NoRow /\ ~Live(u)

\* reserve() returns a Reservation, and the caller starts to execute.
Grant(u, o) ==
  /\ Idle(u)
  /\ Known(o)
  /\ \E failed \in QueryFails(o) :
       /\ \A i \in 1 .. 10 : ~Refuses(i, o, failed)
       /\ blind' = IF failed THEN blind \cup {u} ELSE blind \ {u}
  /\ reservations' =
       [reservations EXCEPT ![u] = [opp |-> o, left |-> ReservationTTL]]
  /\ executor' = [executor EXCEPT ![u] = [opp |-> o, phase |-> "executing"]]
  /\ lastSkip' = NoSkip
  /\ cache' = NoCache /\ cacheAge' = 0
  /\ UNCHANGED <<vectors, balance, held>>

-----------------------------------------------------------------------------
(* The executors and the rest of the program *)

\* Mutant: what the legs cost is added up twice.
InsertTwice(u) ==
  /\ executor[u] # NoExecutor /\ executor[u].phase = "executing"
  /\ \E basis \in Bases :
       vectors' = [vectors EXCEPT ![u] = [opp |-> executor[u].opp, basis |-> 2 * basis,
                                          far |-> executor[u].opp.far]]
  /\ executor' = [executor EXCEPT ![u].phase = "recorded"]
  /\ UNCHANGED <<reservations, cache, cacheAge, balance, lastSkip, held, blind>>

\* insert_vector: the basis is what the fills cost, whatever was reserved.
InsertVector(u) ==
  /\ executor[u] # NoExecutor /\ executor[u].phase = "executing"
  /\ \E basis \in Bases :
       /\ vectors' = [vectors EXCEPT ![u] = [opp |-> executor[u].opp, basis |-> basis,
                                             far |-> executor[u].opp.far]]
       /\ held' = [held EXCEPT ![u] = Smaller(basis, executor[u].opp.amount)]
  /\ executor' = [executor EXCEPT ![u].phase = "recorded"]
  /\ UNCHANGED <<reservations, cache, cacheAge, balance, lastSkip, blind>>

\* Mutant: release() does not invalidate the copy.
ReleaseKeepingCopy(u) ==
  /\ executor[u] # NoExecutor
  /\ reservations' = [reservations EXCEPT ![u] = NoReservation]
  /\ executor' = [executor EXCEPT ![u] = NoExecutor]
  /\ UNCHANGED <<cache, cacheAge, vectors, balance, lastSkip, held, blind>>

\* release(), after the vector was recorded or when nothing was filled.
Release(u) ==
  /\ executor[u] # NoExecutor
  /\ reservations' = [reservations EXCEPT ![u] = NoReservation]
  /\ executor' = [executor EXCEPT ![u] = NoExecutor]
  /\ cache' = NoCache /\ cacheAge' = 0
  /\ UNCHANGED <<vectors, balance, lastSkip, held, blind>>

\* The executor's task ends without calling release().
Die(u) ==
  /\ executor[u] # NoExecutor
  /\ executor' = [executor EXCEPT ![u] = NoExecutor]
  /\ UNCHANGED <<reservations, vectors, cache, cacheAge, balance, lastSkip, held,
                 blind>>

\* update_vector_legs_and_status with status OPEN: the legs cost something else
\* now.  The allocator's copy is not told.
Amend(u) ==
  /\ vectors[u] # NoRow
  /\ \E basis \in Bases :
       /\ vectors' = [vectors EXCEPT ![u].basis = basis]
       /\ held' = [held EXCEPT ![u] = Smaller(@, basis)]
  /\ UNCHANGED <<reservations, cache, cacheAge, balance, executor, lastSkip, blind>>

\* mark_resolved, mark_recovered, mark_closed_early, and
\* update_vector_legs_and_status with another status: the row is not OPEN any
\* more.  The allocator's copy is not told.
Close(u) ==
  /\ vectors[u] # NoRow
  /\ vectors' = [vectors EXCEPT ![u] = NoRow]
  /\ held' = [held EXCEPT ![u] = 0]
  /\ UNCHANGED <<reservations, cache, cacheAge, balance, executor, lastSkip, blind>>

\* expected_unlock_ts comes within 72 hours; rows and copy hold the same stamp.
UnlockNears(u) ==
  LET Nearer(rows) == IF rows[u] = NoRow THEN rows ELSE [rows EXCEPT ![u].far = FALSE]
  IN  /\ vectors[u] # NoRow /\ vectors[u].far
      /\ vectors' = Nearer(vectors)
      /\ cache' = IF cache = NoCache THEN cache ELSE Nearer(cache)
      /\ UNCHANGED <<reservations, cacheAge, balance, executor, lastSkip, held, blind>>

\* The on-chain balance moves; an all-paper program never asks for it.
BalanceChanges ==
  /\ Paper # Engines
  /\ balance' \in Balances \cup {NoBalance}
  /\ balance' # balance
  /\ UNCHANGED <<reservations, vectors, cache, cacheAge, executor, lastSkip, held,
                 blind>>

\* Time passes.  Unless MayOverrun, an executor has recorded its vector, or given
\* up, while its reservation has more than the life of a copy to go.
Tick ==
  /\ \/ \E u \in Units : Live(u)
     \/ cache # NoCache /\ cacheAge <= CacheTTL
  /\ MayOverrun \/ \A u \in Units :
       executor[u] # NoExecutor /\ executor[u].phase = "executing" =>
         reservations[u].left > CacheTTL + 1
  /\ reservations' = [u \in Units |->
       IF Live(u) THEN [reservations[u] EXCEPT !.left = @ - 1] ELSE reservations[u]]
  /\ cacheAge' = IF cache # NoCache /\ cacheAge <= CacheTTL THEN cacheAge + 1
                 ELSE cacheAge
  /\ UNCHANGED <<vectors, cache, balance, executor, lastSkip, held, blind>>

\* The process dies and starts again: only the database survives.
Crash ==
  /\ reservations' = [u \in Units |-> NoReservation]
  /\ executor' = [u \in Units |-> NoExecutor]
  /\ cache' = NoCache /\ cacheAge' = 0
  /\ lastSkip' = NoSkip
  /\ UNCHANGED <<vectors, balance, held, blind>>

Init ==
  /\ reservations = [u \in Units |-> NoReservation]
  /\ vectors = [u \in Units |-> NoRow]
  /\ cache = NoCache /\ cacheAge = 0
  /\ balance \in Balances
  /\ executor = [u \in Units |-> NoExecutor]
  /\ lastSkip = NoSkip
  /\ held = [u \in Units |-> 0]
  /\ blind = {}

Next ==
  \/ \E o \in Opportunities : Refuse(o)
  \/ \E u \in Units, o \in Opportunities : Grant(u, o)
  \/ \E u \in Units : InsertVector(u)
  \/ \E u \in Units : Release(u)
  \/ \E u \in Units : Die(u)
  \/ \E u \in Units : Amend(u)
  \/ \E u \in Units : Close(u)
  \/ \E u \in Units : UnlockNears(u)
  \/ BalanceChanges
  \/ Tick
  \/ Crash

Spec == Init /\ [][Next]_vars

\* Time is the only thing the code can rely on: nobody has to release.
FairSpec == Spec /\ WF_vars(Tick)

-----------------------------------------------------------------------------
(* Properties *)

TypeOK ==
  /\ reservations \in [Units -> Reservation \cup {NoReservation}]
  /\ vectors \in Rows
  /\ cache \in Rows \cup {NoCache}
  /\ cacheAge \in 0 .. CacheTTL + 1
  /\ balance \in Balances \cup {NoBalance}
  /\ executor \in [Units -> Executor \cup {NoExecutor}]
  /\ lastSkip \in {SkipOrder[i] : i \in 1 .. 10} \cup {NoSkip}
  /\ held \in [Units -> 0 .. MaxAmount]
  /\ blind \subseteq Units

\* What is really at stake, whatever the allocator believes: the basis of the
\* open vectors and the money executors are spending, on opportunities in S.
AtStake(u, S) ==
  IF vectors[u] # NoRow THEN vectors[u].opp \in S
  ELSE /\ executor[u] # NoExecutor
       /\ executor[u].phase = "executing"
       /\ executor[u].opp \in S
Stakes(S) ==
  [u \in Units |-> IF ~AtStake(u, S) THEN 0
                   ELSE IF vectors[u] # NoRow THEN vectors[u].basis
                   ELSE executor[u].opp.amount]
Stake(S) == Total(Stakes(S), MaxAmount)
StakeCount(S) == Cardinality({u \in Units : AtStake(u, S)})

\* What of it was taken from the allocator: the amount that was reserved, less
\* what a row gave back by costing less at any time.
Takings(S) ==
  [u \in Units |-> IF ~AtStake(u, S) THEN 0
                   ELSE IF vectors[u] # NoRow THEN held[u]
                   ELSE executor[u].opp.amount]

\* What vectors cost beyond what was taken for them, which nobody asked the
\* allocator for: fills above the reserved amount (_paper_fill adds 2%), and
\* rows whose legs were rewritten.
Growth(S) == Beyond(Stakes(S), Takings(S), MaxAmount)

\* The row of u is in the copy; the copy has its present basis.
Shown(u) == cache[u] # NoRow /\ cache[u].opp = vectors[u].opp
Exact(u) == Expired \/ (Shown(u) /\ cache[u].basis = vectors[u].basis)

\* The copy and the reservations together never lose sight of a vector: a row
\* that a copy still in use does not show is covered by a live reservation of
\* the same opportunity (_open_vectors, reserve, release).
CacheCoversLedger ==
  ~Expired => \A u \in Units :
    vectors[u] # NoRow /\ ~Shown(u) =>
      Live(u) /\ reservations[u].opp = vectors[u].opp

\* A paper engine never has more at stake than its share of the paper world and
\* what its vectors cost beyond what was taken for them, however stale the copy
\* and whoever dies (available_for, reserve).
PaperBudget ==
  \A e \in Paper : Stake(OfEngine(e)) <= Gross(e) + Growth(OfEngine(e))

\* Concurrency caps of each engine and of each world hold for what is really
\* open or being executed (count_open, _count_open_in_world).
EngineConcurrency ==
  \A e \in Engines : StakeCount(OfEngine(e)) <= MaxConcurrent[e]
WorldConcurrency ==
  \A e \in Engines : StakeCount(OfWorld(e)) <= GlobalMax

\* What was granted with the event's rows in view never has more than the cap of
\* the event at stake in one world, growth apart; and what a failing query lets
\* in beside it is bounded by the reservations, which alone never exceed the cap
\* (_expected_deltaent_exposure).
Sighted(amounts) == [u \in Units |-> IF u \in blind THEN 0 ELSE amounts[u]]
EventExposureCap ==
  \A o \in Opportunities : o.event # NoEvent =>
    LET seen == Sighted(Stakes(OfEvent(o)))
    IN  /\ Total(seen, MaxAmount)
             <= EventCap + Beyond(seen, Sighted(Takings(OfEvent(o))), MaxAmount)
        /\ InFlight(OfEvent(o)) <= EventCap

Granted(u) == executor[u] = NoExecutor /\ executor'[u] # NoExecutor

\* What the copy or else the taking of a unit says is at stake on S.
Reckoned(S) ==
  [u \in Units |-> IF Exact(u) THEN Stakes(S)[u] ELSE Takings(S)[u]]

\* At the moment of a grant the engine's stake, the new one included, is within
\* its share of the balance of that moment, live balances included, but for the
\* growth of rows that the copy in use does not show as they are.
GrantWithinShare ==
  [][\A u \in Units, e \in Engines :
       Granted(u) /\ executor'[u].opp.engine = e =>
         Stake(OfEngine(e))' <= Gross(e)
           + Beyond(Stakes(OfEngine(e)), Reckoned(OfEngine(e)), MaxAmount)]_vars

\* Amounts without those of the units that have a live reservation.
Settled(amounts) == [u \in Units |-> IF Live(u) THEN 0 ELSE amounts[u]]

\* A grant keeps its nodes within their cap, counting the rows of the database
\* and not of the copy (_expected_deltaent_node_exposure), but for the units
\* whose reservations are live and for growth that the copy does not show.
GrantWithinNodeCap ==
  [][\A u \in Units : Granted(u) =>
       LET o == executor'[u].opp
           stakes == Settled(Stakes(OnNodes(o)))
           unseen == Beyond(stakes, Reckoned(OnNodes(o)), MaxAmount)
       IN  o.nodes # {} =>
             Total(stakes, MaxAmount) * Cardinality(o.nodes) + o.amount
               <= (NodeCap + unseen) * Cardinality(o.nodes)]_vars

\* The oracle engine is granted nothing while more than 60% of its allocation is
\* far from its unlock (is_e4_standby), with the same two exceptions.
FarSettled(amounts) ==
  [u \in Units |-> IF vectors[u] # NoRow /\ vectors[u].far /\ ~Live(u)
                     THEN amounts[u] ELSE 0]
GrantOutsideStandby ==
  [][\A u \in Units :
       Granted(u) /\ executor'[u].opp.engine = OracleEngine =>
         LET S == OfEngine(OracleEngine)
             stakes == FarSettled(Stakes(S))
         IN  100 * Total(stakes, MaxAmount)
               <= 60 * Allocation(OracleEngine)
                    + 100 * Beyond(stakes, Reckoned(S), MaxAmount)]_vars

\* The allocator implements the ledger of CapacityLedger: what is at stake on a
\* unit is taken within budget and places, one unit at a time, and then falls.
\* A row holds what it still has of that, not what it costs beyond.
Ledger == INSTANCE CapacityLedger WITH
  Budgeted <- Paper, Budget <- [e \in Paper |-> Percent(AllocationPct[e], PaperAllocation)],
  Places <- MaxConcurrent, Free <- NoRow,
  ledger <- [u \in Units |->
    IF ~AtStake(u, Opportunities) THEN NoRow
    ELSE IF vectors[u] # NoRow
      THEN [engine |-> vectors[u].opp.engine, amount |-> held[u]]
      ELSE [engine |-> executor[u].opp.engine, amount |-> executor[u].opp.amount]]
ImplementsLedger == Ledger!Spec

\* Capacity is not leaked: once an engine has nothing at stake for good, the
\* allocator comes to see nothing committed, although executors died holding
\* reservations and nobody tells the copy of a closed vector.
CapacityReturns ==
  \A e \in Engines :
    <>[](StakeCount(OfEngine(e)) = 0) => <>[](Committed(e) = 0)
=============================================================================
