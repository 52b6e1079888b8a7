----------------------- MODULE ResourceAllocatorProofs -----------------------
(***************************************************************************)
(* The allocator's caps hold for every set of engines, opportunities and   *)
(* constants, its grants are within what they were checked against, and it *)
(* implements CapacityLedger: all as long as executors record their        *)
(* vectors or give up while their reservations outlast a copy of the rows. *)
(***************************************************************************)
EXTENDS ResourceAllocator, FiniteSetTheorems, TLAPS

-----------------------------------------------------------------------------
(* Sums of amounts *)

\* A sum over finitely many keys is a number.
LEMMA TotalType ==
  ASSUME NEW S, IsFiniteSet(S), NEW max \in Nat, NEW f \in [S -> Nat]
  PROVE  IsFiniteSet(Coins(f, max)) /\ Total(f, max) \in Nat
<1>1. IsFiniteSet(1 .. max)
  BY FS_Interval
<1>2. IsFiniteSet(S \X (1 .. max))
  BY <1>1, FS_Product
<1>3. Coins(f, max) \subseteq S \X (1 .. max)
  BY DEF Coins
<1>4. IsFiniteSet(Coins(f, max))
  BY <1>2, <1>3, FS_Subset
<1> QED
  BY <1>4, FS_CardinalityType DEF Total

\* Amounts that g or h covers, key by key, add up to no more than g and h.
LEMMA TotalCovered ==
  ASSUME NEW S, IsFiniteSet(S), NEW max \in Nat,
         NEW f \in [S -> Nat], NEW g \in [S -> Nat], NEW h \in [S -> Nat],
         \A s \in S : f[s] <= g[s] \/ f[s] <= h[s]
  PROVE  Total(f, max) <= Total(g, max) + Total(h, max)
<1> DEFINE F == Coins(f, max)
           G == Coins(g, max)
           H == Coins(h, max)
<1>1. IsFiniteSet(F) /\ IsFiniteSet(G) /\ IsFiniteSet(H)
  BY TotalType
<1>2. F \subseteq G \cup H
  BY DEF Coins
<1> HIDE DEF F, G, H
<1>3. /\ IsFiniteSet(G \cup H)
      /\ Cardinality(G \cup H) = Cardinality(G) + Cardinality(H) - Cardinality(G \cap H)
  BY <1>1, FS_Union
<1>4. Cardinality(F) <= Cardinality(G \cup H)
  BY <1>2, <1>3, FS_Subset
<1>5. IsFiniteSet(G \cap H)
  BY <1>1, FS_Intersection
<1>6. /\ Cardinality(F) \in Nat /\ Cardinality(G) \in Nat /\ Cardinality(H) \in Nat
      /\ Cardinality(G \cap H) \in Nat /\ Cardinality(G \cup H) \in Nat
  BY <1>1, <1>3, <1>5, FS_CardinalityType
<1> QED
  BY <1>3, <1>4, <1>6 DEF Total, F, G, H

\* Sums are monotone.
LEMMA TotalMonotone ==
  ASSUME NEW S, IsFiniteSet(S), NEW max \in Nat,
         NEW f \in [S -> Nat], NEW g \in [S -> Nat],
         \A s \in S : f[s] <= g[s]
  PROVE  Total(f, max) <= Total(g, max)
<1>1. IsFiniteSet(Coins(f, max)) /\ IsFiniteSet(Coins(g, max))
  BY TotalType
<1>2. Coins(f, max) \subseteq Coins(g, max)
  BY DEF Coins
<1> QED
  BY <1>1, <1>2, FS_Subset DEF Total

\* Adding an amount of at most a under one key adds at most a to the sum.
LEMMA TotalPut ==
  ASSUME NEW S, IsFiniteSet(S), NEW max \in Nat,
         NEW f \in [S -> Nat], NEW g \in [S -> Nat],
         NEW u \in S, NEW a \in Nat, g[u] <= a,
         \A s \in S \ {u} : g[s] <= f[s]
  PROVE  Total(g, max) <= Total(f, max) + a
<1> DEFINE F == Coins(f, max)
           G == Coins(g, max)
           A == {u} \X (1 .. a)
<1>1. IsFiniteSet(F) /\ IsFiniteSet(G)
  BY TotalType
<1>2. IsFiniteSet(A) /\ Cardinality(A) = a
  <2>1. IsFiniteSet({u}) /\ Cardinality({u}) = 1
    BY FS_Singleton
  <2>2. IsFiniteSet(1 .. a) /\ Cardinality(1 .. a) = a
    BY FS_Interval
  <2>3. IsFiniteSet(A) /\ Cardinality(A) = 1 * a
    BY <2>1, <2>2, FS_Product
  <2> QED
    BY <2>3
<1>3. G \subseteq F \cup A
  BY DEF Coins
<1> HIDE DEF F, G, A
<1>4. /\ IsFiniteSet(F \cup A)
      /\ Cardinality(F \cup A) = Cardinality(F) + Cardinality(A) - Cardinality(F \cap A)
  BY <1>1, <1>2, FS_Union
<1>5. Cardinality(G) <= Cardinality(F \cup A)
  BY <1>3, <1>4, FS_Subset
<1>6. IsFiniteSet(F \cap A)
  BY <1>1, <1>2, FS_Intersection
<1>7. /\ Cardinality(F) \in Nat /\ Cardinality(G) \in Nat
      /\ Cardinality(F \cap A) \in Nat /\ Cardinality(F \cup A) \in Nat
  BY <1>1, <1>4, <1>6, FS_CardinalityType
<1> QED
  BY <1>2, <1>4, <1>5, <1>7 DEF Total, F, G

\* A sum is covered by the amounts g and by what goes beyond h, where g has at
\* least what h has.
LEMMA TotalBeyond ==
  ASSUME NEW S, IsFiniteSet(S), NEW max \in Nat,
         NEW f \in [S -> Nat], NEW g \in [S -> Nat], NEW h \in [S -> Nat],
         \A s \in S : f[s] > 0 => h[s] <= g[s]
  PROVE  /\ Total(f, max) <= Total(g, max) + Beyond(f, h, max)
         /\ Beyond(f, h, max) \in Nat
<1> DEFINE F == Coins(f, max)
           G == Coins(g, max)
           H == {c \in Coins(f, max) : c[2] > h[c[1]]}
<1>1. IsFiniteSet(F) /\ IsFiniteSet(G)
  BY TotalType
<1>2. H \subseteq F
  OBVIOUS
<1>3. F \subseteq G \cup H
  BY DEF Coins
<1> HIDE DEF F, G
<1>4. IsFiniteSet(H)
  BY <1>1, <1>2, FS_Subset
<1>5. Beyond(f, h, max) = Cardinality(H)
  BY DEF Beyond, F
<1> HIDE DEF H
<1>6. /\ IsFiniteSet(G \cup H)
      /\ Cardinality(G \cup H) = Cardinality(G) + Cardinality(H) - Cardinality(G \cap H)
  BY <1>1, <1>4, FS_Union
<1>7. Cardinality(F) <= Cardinality(G \cup H)
  BY <1>3, <1>6, FS_Subset
<1>8. IsFiniteSet(G \cap H)
  BY <1>1, <1>4, FS_Intersection
<1>9. /\ Cardinality(F) \in Nat /\ Cardinality(G) \in Nat /\ Cardinality(H) \in Nat
      /\ Cardinality(G \cap H) \in Nat /\ Cardinality(G \cup H) \in Nat
  BY <1>1, <1>4, <1>6, <1>8, FS_CardinalityType
<1> QED
  BY <1>5, <1>6, <1>7, <1>9 DEF Total, F, G

\* Amounts and bases are numbers.
LEMMA AreNumbers ==
  /\ \A basis \in Bases : basis \in Nat
  /\ \A o \in Opportunities : o.amount \in Nat
  BY AllocatorAssumption DEF Opportunity

-----------------------------------------------------------------------------
(* Type correctness *)

\* Every variable keeps its type, whatever executors and time do.
THEOREM TypeCorrect == Spec => []TypeOK
<1> USE AllocatorAssumption, NoneAssumption
<1>1. Init => TypeOK
  BY DEF Init, TypeOK, Rows
<1>2. TypeOK /\ [Next]_vars => TypeOK'
  <2> SUFFICES ASSUME TypeOK, [Next]_vars PROVE TypeOK'
    OBVIOUS
  <2>0. vectors \in Rows /\ OpenVectors \in Rows
    BY DEF TypeOK, OpenVectors, Expired
  <2>1. ASSUME NEW o \in Opportunities, Refuse(o) PROVE TypeOK'
    BY <2>0, <2>1 DEF TypeOK, Refuse
  <2>2. ASSUME NEW u \in Units, NEW o \in Opportunities, Grant(u, o) PROVE TypeOK'
    <3>1. blind' \subseteq Units
      BY <2>2 DEF TypeOK, Grant
    <3>2. /\ reservations' \in [Units -> Reservation \cup {NoReservation}]
          /\ executor' \in [Units -> Executor \cup {NoExecutor}]
      BY <2>2 DEF TypeOK, Grant, Reservation, Executor
    <3> QED
      BY <2>2, <3>1, <3>2 DEF TypeOK, Grant
  <2>3. ASSUME NEW u \in Units, InsertVector(u) PROVE TypeOK'
    <3>1. executor[u] \in Executor
      BY <2>3 DEF TypeOK, InsertVector
    <3>2. executor[u].opp \in Opportunities /\ executor[u].opp.amount \in 1 .. MaxAmount
          /\ executor[u].opp.far \in BOOLEAN
      BY <3>1 DEF Executor, Opportunity
    <3>3. vectors' \in Rows
      BY <2>0, <2>3, <3>2 DEF InsertVector, Rows, Row
    <3>4. executor' \in [Units -> Executor \cup {NoExecutor}]
      BY <2>3, <3>1 DEF TypeOK, InsertVector, Executor
    <3>5. held' \in [Units -> 0 .. MaxAmount]
      BY <2>3, <3>2 DEF TypeOK, InsertVector, Smaller
    <3> QED
      BY <2>3, <3>3, <3>4, <3>5 DEF TypeOK, InsertVector
  <2>4. ASSUME NEW u \in Units, Release(u) PROVE TypeOK'
    BY <2>4 DEF TypeOK, Release
  <2>5. ASSUME NEW u \in Units, Die(u) PROVE TypeOK'
    BY <2>5 DEF TypeOK, Die
  <2>12. ASSUME NEW u \in Units, Amend(u) PROVE TypeOK'
    <3>1. vectors' \in Rows
      BY <2>0, <2>12 DEF Amend, Rows, Row
    <3>2. held' \in [Units -> 0 .. MaxAmount]
      BY <2>12 DEF TypeOK, Amend, Smaller
    <3> QED
      BY <2>12, <3>1, <3>2 DEF TypeOK, Amend
  <2>6. ASSUME NEW u \in Units, Close(u) PROVE TypeOK'
    <3>1. vectors' \in Rows
      BY <2>0, <2>6 DEF Close, Rows
    <3>2. held' \in [Units -> 0 .. MaxAmount]
      BY <2>6 DEF TypeOK, Close
    <3> QED
      BY <2>6, <3>1, <3>2 DEF TypeOK, Close
  <2>7. ASSUME NEW u \in Units, UnlockNears(u) PROVE TypeOK'
    <3>1. ASSUME NEW rows \in Rows
          PROVE  (IF rows[u] = NoRow THEN rows
                  ELSE [rows EXCEPT ![u].far = FALSE]) \in Rows
      BY DEF Rows, Row
    <3>2. vectors' \in Rows /\ cache' \in Rows \cup {NoCache}
      BY <2>0, <2>7, <3>1 DEF TypeOK, UnlockNears
    <3> QED
      BY <2>7, <3>2 DEF TypeOK, UnlockNears
  <2>8. CASE BalanceChanges
    BY <2>8 DEF TypeOK, BalanceChanges
  <2>9. CASE Tick
    <3>1. reservations' \in [Units -> Reservation \cup {NoReservation}]
      BY <2>9 DEF TypeOK, Tick, Live, Reservation
    <3>2. cacheAge' \in 0 .. CacheTTL + 1
      BY <2>9 DEF TypeOK, Tick
    <3> QED
      BY <2>9, <3>1, <3>2 DEF TypeOK, Tick
  <2>10. CASE Crash
    BY <2>10 DEF TypeOK, Crash
  <2>11. CASE UNCHANGED vars
    BY <2>11 DEF TypeOK, vars
  <2> QED
    BY <2>1, <2>2, <2>3, <2>4, <2>5, <2>6, <2>7, <2>8, <2>9, <2>10, <2>11,
       <2>12 DEF Next
<1> QED
  BY <1>1, <1>2, PTL DEF Spec

-----------------------------------------------------------------------------
(* The inductive invariant *)

Executing(u) == executor[u] # NoExecutor /\ executor[u].phase = "executing"

\* While an executor is executing, its reservation has more than the life of a
\* copy to go, and the unit has no vector yet.
Reserved(u) ==
  Executing(u) =>
    /\ reservations[u] # NoReservation
    /\ reservations[u].opp = executor[u].opp
    /\ reservations[u].left > CacheTTL
    /\ vectors[u] = NoRow

\* What a row holds is neither more than it costs nor than was reserved for it.
HeldWithin(u) ==
  vectors[u] # NoRow => /\ held[u] <= vectors[u].basis
                        /\ held[u] <= vectors[u].opp.amount

\* Whoever is executing started after the copy was made, so that the copy has no
\* row for the unit; a row that both have is of the same vector, as near to its
\* unlock, and the copy has it at no less than what it holds.
CopyAgrees(u) ==
  cache # NoCache =>
    /\ Executing(u) => cache[u] = NoRow
    /\ vectors[u] # NoRow /\ cache[u] # NoRow =>
         /\ cache[u].opp = vectors[u].opp
         /\ cache[u].far = vectors[u].far
         /\ held[u] <= cache[u].basis

\* A row the copy does not show has a reservation that outlives the copy.
Outlives(u) ==
  cache # NoCache /\ cacheAge <= CacheTTL /\ vectors[u] # NoRow /\ cache[u] = NoRow =>
    /\ reservations[u] # NoReservation
    /\ reservations[u].opp = vectors[u].opp
    /\ reservations[u].left + cacheAge > CacheTTL

UnitInv(u) == Reserved(u) /\ HeldWithin(u) /\ CopyAgrees(u) /\ Outlives(u)
LedgerInv == TypeOK /\ \A u \in Units : UnitInv(u)

Nearer(rows, u) == [rows EXCEPT ![u].far = FALSE]
Amended(rows, u, basis) == [rows EXCEPT ![u].basis = basis]

\* v has in both the same row, but for the nearness of u's unlock.
Unlocked(next, rows, u, v) ==
  /\ (next[v] = NoRow) <=> (rows[v] = NoRow)
  /\ rows[v] # NoRow => /\ next[v].opp = rows[v].opp
                        /\ next[v].basis = rows[v].basis
                        /\ next[v].far = IF v = u THEN FALSE ELSE rows[v].far

\* A unit whose unlock comes near keeps its vector, and the others keep theirs.
LEMMA UnlockKeeps ==
  ASSUME NEW rows \in Rows, NEW u \in Units, rows[u] # NoRow, NEW v \in Units
  PROVE  Unlocked(Nearer(rows, u), rows, u, v)
<1> DEFINE next == Nearer(rows, u)
<1>1. CASE v # u
  <2>1. next[v] = rows[v]
    BY <1>1 DEF Rows, Nearer
  <2> QED
    BY <1>1, <2>1 DEF Unlocked
<1>2. CASE v = u
  <2>1. rows[u] \in Row
    BY DEF Rows
  <2>2. next[u] = [rows[u] EXCEPT !.far = FALSE]
    BY DEF Rows, Nearer
  <2>3. /\ next[u] \in Row /\ next[u].far = FALSE
        /\ next[u].opp = rows[u].opp /\ next[u].basis = rows[u].basis
    BY <2>1, <2>2 DEF Row
  <2>4. NoRow \notin Row
    BY NoneAssumption
  <2> QED
    BY <1>2, <2>1, <2>3, <2>4 DEF Unlocked
<1> QED
  BY <1>1, <1>2

\* An amended row keeps all but its basis, and the others stay as they are.
LEMMA AmendKeeps ==
  ASSUME NEW rows \in Rows, NEW u \in Units, rows[u] # NoRow, NEW v \in Units,
         NEW basis \in Bases
  PROVE  /\ (Amended(rows, u, basis)[v] = NoRow) <=> (rows[v] = NoRow)
         /\ rows[v] # NoRow => /\ Amended(rows, u, basis)[v].opp = rows[v].opp
                               /\ Amended(rows, u, basis)[v].far = rows[v].far
                               /\ Amended(rows, u, basis)[v].basis = IF v = u THEN basis ELSE rows[v].basis
<1> DEFINE next == Amended(rows, u, basis)
<1>1. CASE v # u
  <2>1. next[v] = rows[v]
    BY <1>1 DEF Rows, Amended
  <2> QED
    BY <1>1, <2>1
<1>2. CASE v = u
  <2>1. rows[u] \in Row
    BY DEF Rows
  <2>2. next[u] = [rows[u] EXCEPT !.basis = basis]
    BY DEF Rows, Amended
  <2>3. /\ next[u] \in Row /\ next[u].basis = basis
        /\ next[u].opp = rows[u].opp /\ next[u].far = rows[u].far
    BY <2>1, <2>2 DEF Row
  <2>4. NoRow \notin Row
    BY NoneAssumption
  <2> QED
    BY <1>2, <2>1, <2>3, <2>4
<1> QED
  BY <1>1, <1>2

\* What is not touched keeps its invariant, also when the copy goes.
LEMMA UntouchedUnit ==
  ASSUME NEW v \in Units, UnitInv(v),
         reservations'[v] = reservations[v], vectors'[v] = vectors[v],
         executor'[v] = executor[v], held'[v] = held[v],
         cache' = NoCache \/ UNCHANGED <<cache, cacheAge>>
  PROVE  UnitInv(v)'
<1>1. CASE cache' = NoCache
  BY <1>1 DEF UnitInv, Reserved, HeldWithin, CopyAgrees, Outlives, Executing
<1>2. CASE UNCHANGED <<cache, cacheAge>>
  BY <1>2 DEF UnitInv, Reserved, HeldWithin, CopyAgrees, Outlives, Executing
<1> QED
  BY <1>1, <1>2

\* The strengthening is inductive when executors record their vectors, or give up,
\* within their reservations.
LEMMA LedgerInvStep ==
  ASSUME ~MayOverrun, LedgerInv, TypeOK', [Next]_vars
  PROVE  LedgerInv'
<1> USE AllocatorAssumption, NoneAssumption
<1> SUFFICES ASSUME NEW v \in Units PROVE UnitInv(v)'
  BY DEF LedgerInv
<1>b. /\ \A basis \in Bases : basis \in Nat
      /\ \A o \in Opportunities : o.amount \in Nat
  BY AreNumbers
<1>0. /\ TypeOK /\ UnitInv(v)
      /\ executor[v] \in Executor \cup {NoExecutor}
      /\ vectors \in Rows /\ (cache = NoCache \/ cache \in Rows)
      /\ cacheAge \in Nat /\ held[v] \in Nat
      /\ reservations[v] # NoReservation => reservations[v].left \in Nat
  BY DEF LedgerInv, TypeOK, Reservation
<1>1. ASSUME NEW o \in Opportunities, Refuse(o) PROVE UnitInv(v)'
  <2>1. UNCHANGED <<reservations, vectors, executor, held>>
    BY <1>1 DEF Refuse
  <2>2. \/ UNCHANGED <<cache, cacheAge>>
        \/ cache' = OpenVectors /\ cacheAge' = IF Expired THEN 0 ELSE cacheAge
    BY <1>1 DEF Refuse
  <2>3. CASE UNCHANGED <<cache, cacheAge>>
    BY <1>0, <2>1, <2>3, UntouchedUnit
  <2>4. CASE Expired /\ cache' = vectors
    <3>1. Reserved(v)' /\ HeldWithin(v)'
      BY <1>0, <2>1 DEF UnitInv, Reserved, HeldWithin, Executing
    <3>2. CopyAgrees(v)' /\ Outlives(v)'
      BY <1>0, <2>1, <2>4 DEF UnitInv, Reserved, HeldWithin, CopyAgrees, Outlives, Executing
    <3> QED
      BY <3>1, <3>2 DEF UnitInv
  <2> QED
    BY <2>2, <2>3, <2>4 DEF OpenVectors
<1>2. ASSUME NEW u \in Units, NEW o \in Opportunities, Grant(u, o) PROVE UnitInv(v)'
  <2>0. cache' = NoCache /\ UNCHANGED <<vectors, held>>
    BY <1>2 DEF Grant
  <2>1. CASE v # u
    <3>1. executor'[v] = executor[v] /\ reservations'[v] = reservations[v]
      BY <1>2, <2>1 DEF Grant, LedgerInv, TypeOK
    <3> QED
      BY <1>0, <2>0, <3>1, UntouchedUnit
  <2>2. CASE v = u
    <3>1. /\ executor'[u] = [opp |-> o, phase |-> "executing"]
          /\ reservations'[u] = [opp |-> o, left |-> ReservationTTL]
          /\ vectors'[u] = NoRow
      BY <1>2 DEF Grant, Idle, LedgerInv, TypeOK
    <3>2. [opp |-> o, left |-> ReservationTTL] \in Reservation
      BY DEF Reservation
    <3>3. Reserved(v)'
      BY <2>2, <3>1, <3>2 DEF Reserved, Executing
    <3> QED
      BY <2>0, <2>2, <3>1, <3>3 DEF UnitInv, HeldWithin, CopyAgrees, Outlives
  <2> QED
    BY <2>1, <2>2
<1>3. ASSUME NEW u \in Units, InsertVector(u) PROVE UnitInv(v)'
  <2>1. PICK basis \in Bases :
          /\ vectors' = [vectors EXCEPT ![u] = [opp |-> executor[u].opp, basis |-> basis,
                                                far |-> executor[u].opp.far]]
          /\ held' = [held EXCEPT ![u] = Smaller(basis, executor[u].opp.amount)]
    BY <1>3 DEF InsertVector
  <2>2. /\ Executing(u) /\ executor' = [executor EXCEPT ![u].phase = "recorded"]
        /\ UNCHANGED <<reservations, cache, cacheAge>>
    BY <1>3 DEF InsertVector, Executing
  <2>3. CASE v # u
    <3>1. vectors'[v] = vectors[v] /\ held'[v] = held[v] /\ executor'[v] = executor[v]
      BY <1>0, <2>1, <2>2, <2>3 DEF TypeOK, Rows
    <3> QED
      BY <1>0, <2>2, <3>1, UntouchedUnit
  <2>4. CASE v = u
    <3>1. /\ executor[u] \in Executor /\ executor[u].opp \in Opportunities
          /\ executor[u].opp.amount \in Nat /\ basis \in Nat
      BY <1>0, <2>2, <2>4 DEF Executor, Executing, Opportunity
    <3>2. /\ vectors'[u] = [opp |-> executor[u].opp, basis |-> basis,
                            far |-> executor[u].opp.far]
          /\ held'[u] = Smaller(basis, executor[u].opp.amount)
      BY <1>0, <2>1 DEF TypeOK, Rows
    <3>3. executor'[u].phase = "recorded"
      BY <1>0, <2>2, <2>4, <3>1 DEF TypeOK, Executor
    <3>4. /\ reservations[u] # NoReservation /\ reservations[u].opp = executor[u].opp
          /\ reservations[u].left > CacheTTL
          /\ cache # NoCache => cache[u] = NoRow
      BY <1>0, <2>2, <2>4 DEF UnitInv, Reserved, CopyAgrees
    <3>5. Reserved(v)'
      BY <2>4, <3>3 DEF Reserved, Executing
    <3>6. HeldWithin(v)'
      BY <2>4, <3>1, <3>2 DEF HeldWithin, Smaller
    <3>7. CopyAgrees(v)'
      BY <2>2, <2>4, <3>3, <3>4 DEF CopyAgrees, Executing
    <3>8. Outlives(v)'
      BY <1>0, <2>2, <2>4, <3>2, <3>4 DEF Outlives
    <3> QED
      BY <3>5, <3>6, <3>7, <3>8 DEF UnitInv
  <2> QED
    BY <2>3, <2>4
<1>4. ASSUME NEW u \in Units, Release(u) PROVE UnitInv(v)'
  <2>0. cache' = NoCache /\ UNCHANGED <<vectors, held>>
    BY <1>4 DEF Release
  <2>1. CASE v # u
    <3>1. executor'[v] = executor[v] /\ reservations'[v] = reservations[v]
      BY <1>0, <1>4, <2>1 DEF Release, TypeOK
    <3> QED
      BY <1>0, <2>0, <3>1, UntouchedUnit
  <2>2. CASE v = u
    <3>1. executor'[v] = NoExecutor
      BY <1>0, <1>4, <2>2 DEF Release, TypeOK
    <3> QED
      BY <1>0, <2>0, <3>1
         DEF UnitInv, Reserved, HeldWithin, CopyAgrees, Outlives, Executing
  <2> QED
    BY <2>1, <2>2
<1>5. ASSUME NEW u \in Units, Die(u) PROVE UnitInv(v)'
  <2>0. /\ UNCHANGED <<reservations, vectors, cache, cacheAge, held>>
        /\ executor'[v] \in {executor[v], NoExecutor}
    BY <1>0, <1>5 DEF Die, TypeOK
  <2>1. CASE executor'[v] = executor[v]
    BY <1>0, <2>0, <2>1, UntouchedUnit
  <2>2. CASE executor'[v] = NoExecutor
    BY <1>0, <2>0, <2>2
       DEF UnitInv, Reserved, HeldWithin, CopyAgrees, Outlives, Executing
  <2> QED
    BY <2>0, <2>1, <2>2
<1>6. ASSUME NEW u \in Units, Amend(u) PROVE UnitInv(v)'
  <2>1. PICK basis \in Bases :
          /\ vectors' = [vectors EXCEPT ![u].basis = basis]
          /\ held' = [held EXCEPT ![u] = Smaller(@, basis)]
    BY <1>6 DEF Amend
  <2>2. vectors[u] # NoRow /\ UNCHANGED <<reservations, cache, cacheAge, executor>>
    BY <1>6 DEF Amend
  <2>3. /\ (vectors'[v] = NoRow) <=> (vectors[v] = NoRow)
        /\ vectors[v] # NoRow =>
             /\ vectors'[v].opp = vectors[v].opp
             /\ vectors'[v].far = vectors[v].far
             /\ vectors'[v].basis = IF v = u THEN basis ELSE vectors[v].basis
    <3>1. vectors' = Amended(vectors, u, basis)
      BY <2>1 DEF Amended
    <3>2. vectors \in Rows /\ vectors[u] # NoRow /\ basis \in Bases
      BY <1>0, <2>2
    <3>3. /\ (Amended(vectors, u, basis)[v] = NoRow) <=> (vectors[v] = NoRow)
          /\ vectors[v] # NoRow =>
               /\ Amended(vectors, u, basis)[v].opp = vectors[v].opp
               /\ Amended(vectors, u, basis)[v].far = vectors[v].far
               /\ Amended(vectors, u, basis)[v].basis
                    = IF v = u THEN basis ELSE vectors[v].basis
      BY <3>2, AmendKeeps
    <3> QED
      BY <3>1, <3>3, Zenon
  <2>4. /\ held'[v] = IF v = u THEN Smaller(held[v], basis) ELSE held[v]
        /\ basis \in Nat
    BY <1>0, <2>1 DEF TypeOK
  <2>5. held'[v] <= held[v] /\ held'[v] \in Nat /\ (v = u => held'[v] <= basis)
    BY <1>0, <2>4 DEF Smaller
  <2>6. Reserved(v)'
    BY <1>0, <2>2, <2>3 DEF UnitInv, Reserved, Executing
  <2>7. HeldWithin(v)'
    <3> SUFFICES ASSUME vectors'[v] # NoRow
                 PROVE  held'[v] <= vectors'[v].basis /\ held'[v] <= vectors'[v].opp.amount
      BY DEF HeldWithin
    <3>0. vectors[v] \in Row
      BY <1>0, <2>3 DEF Rows
    <3>1. vectors[v].opp.amount \in Nat /\ vectors[v].basis \in Nat
      <4>1. vectors[v].opp \in Opportunities /\ vectors[v].basis \in Bases
        BY <3>0 DEF Row
      <4> QED
        BY <1>b, <4>1
    <3>2. held[v] <= vectors[v].basis /\ held[v] <= vectors[v].opp.amount
      BY <1>0, <2>3 DEF UnitInv, HeldWithin
    <3> QED
      BY <1>0, <2>3, <2>5, <3>1, <3>2
  <2>8. CopyAgrees(v)'
    <3> SUFFICES ASSUME cache # NoCache
                 PROVE  /\ Executing(v) => cache[v] = NoRow
                        /\ vectors[v] # NoRow /\ cache[v] # NoRow =>
                             /\ cache[v].opp = vectors'[v].opp
                             /\ cache[v].far = vectors'[v].far
                             /\ held'[v] <= cache[v].basis
      BY <2>2, <2>3 DEF CopyAgrees, Executing
    <3>0. cache[v] # NoRow => cache[v] \in Row
      BY <1>0 DEF Rows
    <3>1. cache[v] # NoRow => cache[v].basis \in Nat
      BY <1>b, <3>0 DEF Row
    <3>2. CopyAgrees(v)
      BY <1>0 DEF UnitInv
    <3> QED
      BY <1>0, <2>3, <2>5, <3>1, <3>2 DEF CopyAgrees
  <2>9. Outlives(v)'
    BY <1>0, <2>2, <2>3 DEF UnitInv, Outlives
  <2> QED
    BY <2>6, <2>7, <2>8, <2>9 DEF UnitInv
<1>7. ASSUME NEW u \in Units, Close(u) PROVE UnitInv(v)'
  <2>0. UNCHANGED <<reservations, cache, cacheAge, executor>>
    BY <1>7 DEF Close
  <2>1. CASE v # u
    <3>1. vectors'[v] = vectors[v] /\ held'[v] = held[v]
      BY <1>0, <1>7, <2>1 DEF Close, TypeOK, Rows
    <3> QED
      BY <1>0, <2>0, <3>1, UntouchedUnit
  <2>2. CASE v = u
    <3>1. vectors'[v] = NoRow
      BY <1>0, <1>7, <2>2 DEF Close, Rows
    <3> QED
      BY <1>0, <2>0, <3>1
         DEF UnitInv, Reserved, HeldWithin, CopyAgrees, Outlives, Executing
  <2> QED
    BY <2>1, <2>2
<1>8. ASSUME NEW u \in Units, UnlockNears(u) PROVE UnitInv(v)'
  <2>1. /\ vectors[u] # NoRow /\ vectors' = [vectors EXCEPT ![u].far = FALSE]
        /\ UNCHANGED <<reservations, cacheAge, executor, held>>
        /\ cache' = IF cache = NoCache \/ cache[u] = NoRow THEN cache
                    ELSE [cache EXCEPT ![u].far = FALSE]
    BY <1>8 DEF UnlockNears
  <2>2. /\ (vectors'[v] = NoRow) <=> (vectors[v] = NoRow)
        /\ vectors[v] # NoRow =>
             /\ vectors'[v].opp = vectors[v].opp
             /\ vectors'[v].basis = vectors[v].basis
             /\ vectors'[v].far = IF v = u THEN FALSE ELSE vectors[v].far
    <3>1. vectors' = Nearer(vectors, u)
      BY <2>1 DEF Nearer
    <3>2. vectors \in Rows /\ vectors[u] # NoRow
      BY <1>0, <2>1
    <3>3. Unlocked(Nearer(vectors, u), vectors, u, v)
      BY <3>2, UnlockKeeps
    <3>4. Unlocked(vectors', vectors, u, v)
      BY <3>1, <3>3
    <3> QED
      BY <3>4 DEF Unlocked
  <2>3. /\ (cache' = NoCache) <=> (cache = NoCache)
        /\ cache # NoCache =>
             /\ (cache'[v] = NoRow) <=> (cache[v] = NoRow)
             /\ cache[v] # NoRow =>
                  /\ cache'[v].opp = cache[v].opp
                  /\ cache'[v].basis = cache[v].basis
                  /\ cache'[v].far = IF v = u THEN FALSE ELSE cache[v].far
    <3>1. CASE cache = NoCache
      BY <2>1, <3>1
    <3>2. CASE cache # NoCache /\ cache[u] = NoRow
      <4>1. v = u => cache[v] = NoRow
        BY <3>2
      <4> QED
        BY <2>1, <3>2, <4>1
    <3>3. CASE cache # NoCache /\ cache[u] # NoRow
      <4>1. cache \in Rows /\ cache' = [cache EXCEPT ![u].far = FALSE]
        BY <1>0, <2>1, <3>3
      <4>2. /\ (cache'[v] = NoRow) <=> (cache[v] = NoRow)
            /\ cache[v] # NoRow =>
                 /\ cache'[v].opp = cache[v].opp
                 /\ cache'[v].basis = cache[v].basis
                 /\ cache'[v].far = IF v = u THEN FALSE ELSE cache[v].far
        <5>1. cache' = Nearer(cache, u)
          BY <4>1 DEF Nearer
        <5>2. Unlocked(Nearer(cache, u), cache, u, v)
          BY <3>3, <4>1, UnlockKeeps
        <5>3. Unlocked(cache', cache, u, v)
          BY <5>1, <5>2
        <5> QED
          BY <5>3 DEF Unlocked
      <4>3. cache' \in Rows
        <5>1. cache[u] \in Row
          BY <3>3, <4>1 DEF Rows
        <5>2. [cache[u] EXCEPT !.far = FALSE] \in Row
          BY <5>1 DEF Row
        <5> QED
          BY <4>1, <5>2 DEF Rows
      <4> QED
        BY <3>3, <4>2, <4>3
    <3> QED
      BY <3>1, <3>2, <3>3
  <2>4. Reserved(v)'
    BY <1>0, <2>1, <2>2 DEF UnitInv, Reserved, Executing
  <2>5. HeldWithin(v)'
    BY <1>0, <2>1, <2>2 DEF UnitInv, HeldWithin
  <2>6. CopyAgrees(v)'
    <3>1. CopyAgrees(v)
      BY <1>0 DEF UnitInv
    <3> QED
      BY <2>1, <2>2, <2>3, <3>1 DEF CopyAgrees, Executing
  <2>7. Outlives(v)'
    <3>1. Outlives(v)
      BY <1>0 DEF UnitInv
    <3> QED
      BY <2>1, <2>2, <2>3, <3>1 DEF Outlives
  <2> QED
    BY <2>4, <2>5, <2>6, <2>7 DEF UnitInv
<1>9. CASE BalanceChanges
  BY <1>0, <1>9, UntouchedUnit DEF BalanceChanges
<1>10. CASE Tick
  <2>1. ASSUME reservations[v] # NoReservation
        PROVE  /\ reservations'[v] # NoReservation
               /\ reservations'[v].opp = reservations[v].opp
               /\ reservations[v].left > 0 =>
                    reservations'[v].left = reservations[v].left - 1
    BY <1>0, <1>10, <2>1 DEF Tick, Live, TypeOK, Reservation
  <2>2. UNCHANGED <<vectors, cache, executor, held>>
    BY <1>10 DEF Tick
  <2>3. Reserved(v)'
    <3> SUFFICES ASSUME Executing(v)
                 PROVE  /\ reservations'[v] # NoReservation
                        /\ reservations'[v].opp = executor[v].opp
                        /\ reservations'[v].left > CacheTTL
                        /\ vectors[v] = NoRow
      BY <2>2 DEF Reserved, Executing
    <3>1. /\ reservations[v] # NoReservation /\ reservations[v].opp = executor[v].opp
          /\ vectors[v] = NoRow
      BY <1>0 DEF UnitInv, Reserved
    <3>2. reservations[v].left > CacheTTL + 1
      BY <1>10 DEF Tick, Executing
    <3> QED
      BY <1>0, <2>1, <3>1, <3>2
  <2>4. HeldWithin(v)' /\ CopyAgrees(v)'
    BY <1>0, <2>2 DEF UnitInv, HeldWithin, CopyAgrees, Executing
  <2>5. Outlives(v)'
    <3> SUFFICES ASSUME cache # NoCache, cacheAge' <= CacheTTL, vectors[v] # NoRow,
                        cache[v] = NoRow
                 PROVE  /\ reservations'[v] # NoReservation
                        /\ reservations'[v].opp = vectors[v].opp
                        /\ reservations'[v].left + cacheAge' > CacheTTL
      BY <2>2 DEF Outlives
    <3>1. cacheAge <= CacheTTL /\ cacheAge' = cacheAge + 1
      BY <1>0, <1>10 DEF Tick
    <3>2. /\ reservations[v] # NoReservation /\ reservations[v].opp = vectors[v].opp
          /\ reservations[v].left + cacheAge > CacheTTL
      BY <1>0, <3>1 DEF UnitInv, Outlives
    <3> QED
      BY <1>0, <2>1, <3>1, <3>2
  <2> QED
    BY <2>3, <2>4, <2>5 DEF UnitInv
<1>11. CASE Crash
  <2>1. executor'[v] = NoExecutor /\ cache' = NoCache /\ UNCHANGED <<vectors, held>>
    BY <1>11 DEF Crash
  <2> QED
    BY <1>0, <2>1 DEF UnitInv, Reserved, HeldWithin, CopyAgrees, Outlives, Executing
<1>12. CASE UNCHANGED vars
  BY <1>0, <1>12, UntouchedUnit DEF vars
<1> QED
  BY <1>1, <1>2, <1>3, <1>4, <1>5, <1>6, <1>7, <1>8, <1>9, <1>10, <1>11, <1>12 DEF Next

\* The invariant of every unit holds in every reachable state.
LEMMA LedgerInvariant ==
  ASSUME ~MayOverrun PROVE Spec => []LedgerInv
<1>1. ASSUME Init, NEW u \in Units PROVE UnitInv(u)
  BY <1>1 DEF Init, UnitInv, Reserved, HeldWithin, CopyAgrees, Outlives, Executing
<1>2. LedgerInv /\ TypeOK' /\ [Next]_vars => LedgerInv'
  BY LedgerInvStep
<1>3. Init /\ TypeOK => LedgerInv
  BY <1>1 DEF LedgerInv
<1> QED
  BY <1>2, <1>3, TypeCorrect, PTL DEF Spec

\* Between them, the copy in use and the live reservations account for every
\* open vector, however stale the copy is.
THEOREM CopyCoversLedger ==
  ASSUME ~MayOverrun PROVE Spec => []CacheCoversLedger
<1>1. LedgerInv => CacheCoversLedger
  <2> SUFFICES ASSUME LedgerInv, ~Expired, NEW u \in Units, vectors[u] # NoRow, ~Shown(u)
               PROVE  Live(u) /\ reservations[u].opp = vectors[u].opp
    BY DEF CacheCoversLedger
  <2>1. /\ cache # NoCache /\ cacheAge <= CacheTTL /\ cacheAge \in Nat
        /\ reservations[u] # NoReservation => reservations[u].left \in Nat
    BY AllocatorAssumption DEF Expired, LedgerInv, TypeOK, Reservation
  <2>2. UnitInv(u)
    BY DEF LedgerInv
  <2>3. cache[u] = NoRow
    BY <2>1, <2>2 DEF UnitInv, CopyAgrees, Shown
  <2>4. /\ reservations[u] # NoReservation /\ reservations[u].opp = vectors[u].opp
        /\ reservations[u].left + cacheAge > CacheTTL
    BY <2>1, <2>2, <2>3 DEF UnitInv, Outlives
  <2> QED
    BY <2>1, <2>4, AllocatorAssumption DEF Live
<1> QED
  BY <1>1, LedgerInvariant, PTL

-----------------------------------------------------------------------------
(* The caps *)

\* What the checks of reserve() add up.
Basis(rows, S) == [u \in Units |-> IF rows[u] # NoRow /\ rows[u].opp \in S
                                     THEN rows[u].basis ELSE 0]
Leased(S) == [u \in Units |-> IF Live(u) /\ reservations[u].opp \in S
                                THEN reservations[u].opp.amount ELSE 0]

\* What was taken from the allocator, in all.
Taken(S) == Total(Takings(S), MaxAmount)

\* What the variables hold are opportunities and numbers.
LEMMA Parts ==
  ASSUME TypeOK, NEW u \in Units
  PROVE  /\ executor[u] # NoExecutor => /\ executor[u].opp \in Opportunities
                                        /\ executor[u].opp.amount \in Nat
         /\ reservations[u] # NoReservation => /\ reservations[u].opp \in Opportunities
                                               /\ reservations[u].opp.amount \in Nat
                                               /\ reservations[u].left \in Nat
         /\ vectors[u] # NoRow => /\ vectors[u].opp \in Opportunities
                                  /\ vectors[u].opp.amount \in Nat
                                  /\ vectors[u].basis \in Nat
         /\ held[u] \in Nat
         /\ \A rows \in Rows : rows[u] # NoRow => rows[u].basis \in Nat
<1> USE AllocatorAssumption
<1>1. \A o \in Opportunities : o.amount \in Nat
  BY AreNumbers
<1>2. /\ executor[u] # NoExecutor => executor[u].opp \in Opportunities
      /\ reservations[u] # NoReservation => /\ reservations[u].opp \in Opportunities
                                            /\ reservations[u].left \in Nat
      /\ vectors[u] # NoRow => vectors[u].opp \in Opportunities
  BY DEF TypeOK, Rows, Row, Executor, Reservation
<1>3. \A rows \in Rows : rows[u] # NoRow => rows[u].basis \in Nat
  <2>1. \A rows \in Rows : rows[u] # NoRow => rows[u] \in Row
    BY DEF Rows
  <2>2. \A row \in Row : row.basis \in Bases
    BY DEF Row
  <2>3. \A basis \in Bases : basis \in Nat
    BY AreNumbers
  <2> QED
    BY <2>1, <2>2, <2>3
<1>4. held[u] \in Nat
  BY DEF TypeOK
<1>5. vectors[u] # NoRow => vectors[u].basis \in Nat
  BY <1>3 DEF TypeOK
<1> QED
  BY <1>1, <1>2, <1>3, <1>4, <1>5

\* All sums are of numbers over finitely many units.
LEMMA SumTypes ==
  ASSUME TypeOK, NEW S \in SUBSET Opportunities
  PROVE  /\ Stakes(S) \in [Units -> Nat] /\ Takings(S) \in [Units -> Nat]
         /\ Leased(S) \in [Units -> Nat] /\ Reckoned(S) \in [Units -> Nat]
         /\ \A rows \in Rows : Basis(rows, S) \in [Units -> Nat]
         /\ OpenVectors \in Rows
<1>1. Stakes(S) \in [Units -> Nat]
  BY Parts DEF Stakes, AtStake
<1>2. Takings(S) \in [Units -> Nat]
  BY Parts DEF Takings, AtStake
<1>3. Leased(S) \in [Units -> Nat]
  BY Parts DEF Leased, Live
<1>4. Reckoned(S) \in [Units -> Nat]
  BY <1>1, <1>2 DEF Reckoned
<1>5. \A rows \in Rows : Basis(rows, S) \in [Units -> Nat]
  BY Parts DEF Basis
<1>6. OpenVectors \in Rows
  BY DEF OpenVectors, Expired, TypeOK
<1> QED
  BY <1>1, <1>2, <1>3, <1>4, <1>5, <1>6

\* The sums of the next state are of numbers, too.
LEMMA NextSumTypes ==
  ASSUME NEW S \in SUBSET Opportunities
  PROVE  TypeOK' => /\ Stakes(S)' \in [Units -> Nat] /\ Takings(S)' \in [Units -> Nat]
                    /\ Leased(S)' \in [Units -> Nat]
<1> USE AllocatorAssumption
<1> SUFFICES ASSUME TypeOK'
             PROVE  /\ Stakes(S)' \in [Units -> Nat] /\ Takings(S)' \in [Units -> Nat]
                    /\ Leased(S)' \in [Units -> Nat]
  OBVIOUS
<1>1. \A o \in Opportunities : o.amount \in Nat
  BY AreNumbers
<1>2. \A u \in Units :
        /\ executor'[u] # NoExecutor => executor'[u].opp \in Opportunities
        /\ reservations'[u] # NoReservation => reservations'[u].opp \in Opportunities
        /\ vectors'[u] # NoRow => vectors'[u].basis \in Nat
        /\ held'[u] \in Nat
  <2> SUFFICES ASSUME NEW u \in Units
               PROVE  /\ executor'[u] # NoExecutor => executor'[u].opp \in Opportunities
                      /\ reservations'[u] # NoReservation =>
                           reservations'[u].opp \in Opportunities
                      /\ vectors'[u] # NoRow => vectors'[u].basis \in Nat
                      /\ held'[u] \in Nat
    OBVIOUS
  <2>1. vectors'[u] # NoRow => vectors'[u] \in Row
    BY DEF TypeOK, Rows
  <2>2. \A row \in Row : row.basis \in Bases
    BY DEF Row
  <2>3. \A basis \in Bases : basis \in Nat
    BY AreNumbers
  <2>4. /\ executor'[u] # NoExecutor => executor'[u].opp \in Opportunities
        /\ reservations'[u] # NoReservation => reservations'[u].opp \in Opportunities
    BY DEF TypeOK, Executor, Reservation
  <2>5. held'[u] \in Nat
    BY DEF TypeOK
  <2> QED
    BY <2>1, <2>2, <2>3, <2>4, <2>5
<1>3. Stakes(S)' \in [Units -> Nat]
  BY <1>1, <1>2 DEF Stakes, AtStake
<1>4. Takings(S)' \in [Units -> Nat]
  BY <1>1, <1>2 DEF Takings, AtStake
<1>5. Leased(S)' \in [Units -> Nat]
  BY <1>1, <1>2 DEF Leased, Live
<1> QED
  BY <1>3, <1>4, <1>5

\* Unit by unit: what was taken is no more than what the allocator has of a unit,
\* from a copy that shows it as it is or from what was taken, and that no more than
\* what is at stake.
LEMMA TakenReckoned ==
  ASSUME LedgerInv, NEW S \in SUBSET Opportunities, NEW u \in Units
  PROVE  Takings(S)[u] <= Reckoned(S)[u] /\ Reckoned(S)[u] <= Stakes(S)[u]
<1>1. /\ Takings(S)[u] \in Nat /\ Stakes(S)[u] \in Nat
      /\ Takings(S)[u] = IF ~AtStake(u, S) THEN 0
                         ELSE IF vectors[u] # NoRow THEN held[u]
                         ELSE executor[u].opp.amount
      /\ Stakes(S)[u] = IF ~AtStake(u, S) THEN 0
                        ELSE IF vectors[u] # NoRow THEN vectors[u].basis
                        ELSE executor[u].opp.amount
  <2>1. Takings(S)[u] \in Nat /\ Stakes(S)[u] \in Nat
    BY SumTypes DEF LedgerInv
  <2> QED
    BY <2>1 DEF Takings, Stakes
<1>2. vectors[u] # NoRow => held[u] <= vectors[u].basis
  BY DEF LedgerInv, UnitInv, HeldWithin
<1>3. Takings(S)[u] <= Stakes(S)[u]
  BY <1>1, <1>2
<1> QED
  BY <1>1, <1>3 DEF Reckoned

\* Unit by unit, what the allocator has of what is at stake is in the rows it reads,
\* copied or not, or in a live reservation.
LEMMA ReckonedSeen ==
  ASSUME LedgerInv, NEW S \in SUBSET Opportunities, NEW u \in Units, AtStake(u, S),
         NEW rows \in {vectors, OpenVectors}
  PROVE  \/ /\ rows[u] # NoRow /\ rows[u].opp \in S
            /\ Reckoned(S)[u] <= rows[u].basis
            /\ vectors[u] # NoRow /\ rows[u].far = vectors[u].far
         \/ /\ Live(u) /\ reservations[u].opp \in S
            /\ Reckoned(S)[u] <= reservations[u].opp.amount
<1> USE AllocatorAssumption, NoneAssumption
<1>0. /\ Reckoned(S)[u] \in Nat /\ cacheAge \in Nat
      /\ UnitInv(u) /\ TypeOK
      /\ Reckoned(S)[u] = IF Exact(u) THEN Stakes(S)[u] ELSE Takings(S)[u]
      /\ Stakes(S)[u] = IF vectors[u] # NoRow THEN vectors[u].basis
                        ELSE executor[u].opp.amount
      /\ Takings(S)[u] = IF vectors[u] # NoRow THEN held[u]
                         ELSE executor[u].opp.amount
  <2>1. Reckoned(S)[u] \in Nat /\ cacheAge \in Nat
    BY SumTypes DEF LedgerInv, TypeOK
  <2>2. Reckoned(S)[u] = IF Exact(u) THEN Stakes(S)[u] ELSE Takings(S)[u]
    BY DEF Reckoned
  <2>3. /\ Stakes(S)[u] = IF vectors[u] # NoRow THEN vectors[u].basis
                          ELSE executor[u].opp.amount
        /\ Takings(S)[u] = IF vectors[u] # NoRow THEN held[u]
                           ELSE executor[u].opp.amount
    BY DEF Stakes, Takings
  <2> QED
    BY <2>1, <2>2, <2>3 DEF LedgerInv
<1>1. CASE vectors[u] # NoRow /\ rows = vectors
  <2>1. Reckoned(S)[u] <= vectors[u].basis
    BY <1>0, <1>1, TakenReckoned
  <2> QED
    BY <1>1, <2>1 DEF AtStake
<1>2. CASE vectors[u] # NoRow /\ rows = cache /\ ~Expired /\ cache[u] # NoRow
  <2>1. /\ cache # NoCache /\ cache[u].opp = vectors[u].opp
        /\ cache[u].far = vectors[u].far /\ held[u] <= cache[u].basis
    BY <1>0, <1>2 DEF Expired, UnitInv, CopyAgrees
  <2>2. Reckoned(S)[u] <= cache[u].basis
    <3>1. CASE Exact(u)
      <4>1. cache[u].basis = vectors[u].basis
        BY <1>2, <3>1 DEF Exact
      <4> QED
        BY <1>0, <1>2, <3>1, <4>1
    <3>2. CASE ~Exact(u)
      BY <1>0, <1>2, <2>1, <3>2
    <3> QED
      BY <3>1, <3>2
  <2> QED
    BY <1>2, <2>1, <2>2 DEF AtStake
<1>3. CASE vectors[u] # NoRow /\ ~Expired /\ cache[u] = NoRow
  <2>1. /\ reservations[u] # NoReservation /\ reservations[u].opp = vectors[u].opp
        /\ reservations[u].left + cacheAge > CacheTTL
        /\ cacheAge <= CacheTTL
    BY <1>0, <1>3 DEF UnitInv, Outlives, Expired
  <2>2. ~Exact(u)
    BY <1>3 DEF Exact, Shown
  <2>3. held[u] <= vectors[u].opp.amount /\ reservations[u].left \in Nat
    BY <1>0, <1>3, <2>1, Parts DEF UnitInv, HeldWithin
  <2> QED
    BY <1>0, <1>3, <2>1, <2>2, <2>3 DEF AtStake, Live
<1>4. CASE vectors[u] = NoRow
  <2>1. /\ reservations[u] # NoReservation /\ reservations[u].opp = executor[u].opp
        /\ reservations[u].left > CacheTTL
    BY <1>0, <1>4 DEF UnitInv, Reserved, Executing, AtStake
  <2>2. reservations[u].left \in Nat
    BY <1>0, <2>1, Parts
  <2> QED
    BY <1>0, <1>4, <2>1, <2>2 DEF AtStake, Live
<1>5. rows = vectors \/ (rows = cache /\ ~Expired)
  BY DEF OpenVectors
<1> QED
  BY <1>1, <1>2, <1>3, <1>4, <1>5

\* So the sum and the count that reserve() compares with a cap are at least
\* what was taken, and what the allocator has of what is at stake.
LEMMA StakeCovered ==
  ASSUME LedgerInv, NEW S \in SUBSET Opportunities,
         NEW rows \in {vectors, OpenVectors}
  PROVE  /\ Total(Reckoned(S), MaxAmount) <= RowBasis(rows, S) + InFlight(S)
         /\ Taken(S) <= RowBasis(rows, S) + InFlight(S)
         /\ StakeCount(S) <= RowCount(rows, S) + LiveCount(S)
         /\ Taken(S) \in Nat /\ RowBasis(rows, S) \in Nat /\ InFlight(S) \in Nat
         /\ Total(Reckoned(S), MaxAmount) \in Nat
         /\ StakeCount(S) \in Nat /\ RowCount(rows, S) \in Nat
         /\ LiveCount(S) \in Nat
<1> USE AllocatorAssumption
<1>0. /\ Takings(S) \in [Units -> Nat] /\ Leased(S) \in [Units -> Nat]
      /\ Basis(rows, S) \in [Units -> Nat] /\ Reckoned(S) \in [Units -> Nat]
  <2>1. rows \in Rows
    BY SumTypes DEF LedgerInv, TypeOK
  <2> QED
    BY <2>1, SumTypes DEF LedgerInv
<1>1. /\ Total(Takings(S), MaxAmount) \in Nat /\ Total(Leased(S), MaxAmount) \in Nat
      /\ Total(Basis(rows, S), MaxAmount) \in Nat
      /\ Total(Reckoned(S), MaxAmount) \in Nat
  BY <1>0, TotalType
<1>2. /\ RowBasis(rows, S) = Total(Basis(rows, S), MaxAmount)
      /\ InFlight(S) = Total(Leased(S), MaxAmount)
  BY DEF RowBasis, InFlight, Basis, Leased
<1>3. Total(Reckoned(S), MaxAmount)
        <= Total(Basis(rows, S), MaxAmount) + Total(Leased(S), MaxAmount)
  <2>1. \A u \in Units : \/ Reckoned(S)[u] <= Basis(rows, S)[u]
                         \/ Reckoned(S)[u] <= Leased(S)[u]
    <3> SUFFICES ASSUME NEW u \in Units
                 PROVE  \/ Reckoned(S)[u] <= Basis(rows, S)[u]
                        \/ Reckoned(S)[u] <= Leased(S)[u]
      OBVIOUS
    <3>1. CASE AtStake(u, S)
      BY <3>1, ReckonedSeen DEF Basis, Leased
    <3>2. CASE ~AtStake(u, S)
      <4>1. Stakes(S)[u] = 0
        BY <3>2 DEF Stakes
      <4> QED
        BY <1>0, <4>1, TakenReckoned
    <3> QED
      BY <3>1, <3>2
  <2> QED
    BY <1>0, <2>1, TotalCovered
<1>4. Total(Takings(S), MaxAmount) <= Total(Reckoned(S), MaxAmount)
  BY <1>0, TakenReckoned, TotalMonotone
<1>5. /\ StakeCount(S) <= RowCount(rows, S) + LiveCount(S)
      /\ StakeCount(S) \in Nat /\ RowCount(rows, S) \in Nat /\ LiveCount(S) \in Nat
  <2> DEFINE A == {u \in Units : AtStake(u, S)}
             R == {u \in Units : rows[u] # NoRow /\ rows[u].opp \in S}
             L == {u \in Units : Live(u) /\ reservations[u].opp \in S}
  <2>1. A \subseteq R \cup L
    BY ReckonedSeen
  <2>2. A \subseteq Units /\ R \subseteq Units /\ L \subseteq Units
    OBVIOUS
  <2>3. StakeCount(S) = Cardinality(A) /\ RowCount(rows, S) = Cardinality(R)
        /\ LiveCount(S) = Cardinality(L)
    BY DEF StakeCount, RowCount, LiveCount
  <2> HIDE DEF A, R, L
  <2>4. IsFiniteSet(A) /\ IsFiniteSet(R) /\ IsFiniteSet(L)
    BY <2>2, FS_Subset
  <2>5. /\ IsFiniteSet(R \cup L) /\ IsFiniteSet(R \cap L)
        /\ Cardinality(R \cup L) = Cardinality(R) + Cardinality(L) - Cardinality(R \cap L)
    BY <2>4, FS_Union, FS_Intersection
  <2>6. Cardinality(A) <= Cardinality(R \cup L)
    BY <2>1, <2>5, FS_Subset
  <2>7. /\ Cardinality(A) \in Nat /\ Cardinality(R) \in Nat /\ Cardinality(L) \in Nat
        /\ Cardinality(R \cap L) \in Nat /\ Cardinality(R \cup L) \in Nat
    BY <2>4, <2>5, FS_CardinalityType
  <2> QED
    BY <2>3, <2>5, <2>6, <2>7
<1> QED
  BY <1>1, <1>2, <1>3, <1>4, <1>5 DEF Taken

\* What is at stake is what was taken, and growth.
LEMMA StakeGrows ==
  ASSUME LedgerInv, NEW S \in SUBSET Opportunities
  PROVE  /\ Stake(S) <= Taken(S) + Growth(S)
         /\ Stake(S) \in Nat /\ Taken(S) \in Nat /\ Growth(S) \in Nat
<1> USE AllocatorAssumption
<1>1. Stakes(S) \in [Units -> Nat] /\ Takings(S) \in [Units -> Nat]
  BY SumTypes DEF LedgerInv
<1>2. \A u \in Units : Takings(S)[u] <= Takings(S)[u]
  BY <1>1
<1>3. /\ Total(Stakes(S), MaxAmount)
           <= Total(Takings(S), MaxAmount) + Beyond(Stakes(S), Takings(S), MaxAmount)
      /\ Beyond(Stakes(S), Takings(S), MaxAmount) \in Nat
  BY <1>1, <1>2, TotalBeyond
<1>4. Total(Stakes(S), MaxAmount) \in Nat /\ Total(Takings(S), MaxAmount) \in Nat
  BY <1>1, TotalType
<1> QED
  BY <1>3, <1>4 DEF Stake, Taken, Growth

\* What a step that grants nothing does to one unit: its row stays and holds no
\* more than before, or comes from the executor that was spending and holds no more
\* than was reserved, or the unit has no row and no new executor.
Settles(v) ==
  \/ /\ vectors'[v] # NoRow /\ vectors[v] # NoRow
     /\ vectors'[v].opp = vectors[v].opp /\ held'[v] <= held[v]
  \/ /\ vectors'[v] # NoRow /\ vectors[v] = NoRow
     /\ Executing(v)
     /\ vectors'[v].opp = executor[v].opp
     /\ held'[v] <= executor[v].opp.amount
  \/ /\ vectors'[v] = NoRow
     /\ Executing(v)' => executor'[v] = executor[v] /\ vectors[v] = NoRow

\* A step that grants nothing settles every unit.
LEMMA StepSettles ==
  ASSUME LedgerInv, [Next]_vars,
         \A u \in Units, o \in Opportunities : ~Grant(u, o), NEW v \in Units
  PROVE  Settles(v) /\ blind' = blind
<1> USE AllocatorAssumption, NoneAssumption
<1>0. /\ Executing(v) => vectors[v] = NoRow
      /\ executor[v] \in Executor \cup {NoExecutor}
      /\ held[v] \in Nat /\ TypeOK
  BY DEF LedgerInv, UnitInv, Reserved, TypeOK
<1>b. \A basis \in Bases : basis \in Nat
  BY AreNumbers
<1>r. vectors \in Rows
  BY <1>0 DEF TypeOK
<1>1. ASSUME UNCHANGED <<vectors, executor, held>> PROVE Settles(v)
  BY <1>0, <1>1 DEF Settles, Executing
<1>2. ASSUME NEW u \in Units, InsertVector(u) PROVE Settles(v)
  <2>1. PICK basis \in Bases :
          /\ vectors' = [vectors EXCEPT ![u] = [opp |-> executor[u].opp, basis |-> basis,
                                                far |-> executor[u].opp.far]]
          /\ held' = [held EXCEPT ![u] = Smaller(basis, executor[u].opp.amount)]
    BY <1>2 DEF InsertVector
  <2>2. /\ Executing(u) /\ executor' = [executor EXCEPT ![u].phase = "recorded"]
    BY <1>2 DEF InsertVector, Executing
  <2>3. CASE u = v
    <3>1. vectors[v] = NoRow
      BY <1>0, <2>2, <2>3
    <3>2. /\ executor[v].opp \in Opportunities /\ executor[v].opp.amount \in Nat
          /\ executor[v].opp.far \in BOOLEAN /\ basis \in Nat
      BY <1>0, <1>b, <2>2, <2>3 DEF Executor, Executing, Opportunity
    <3>3. /\ vectors'[v] = [opp |-> executor[v].opp, basis |-> basis,
                            far |-> executor[v].opp.far]
          /\ held'[v] = Smaller(basis, executor[v].opp.amount)
      BY <1>0, <2>1, <2>3 DEF TypeOK, Rows
    <3>4. vectors'[v] \in Row
      BY <3>2, <3>3 DEF Row
    <3>5. vectors'[v] # NoRow /\ vectors'[v].opp = executor[v].opp
      BY <3>3, <3>4
    <3>6. held'[v] <= executor[v].opp.amount
      BY <3>2, <3>3 DEF Smaller
    <3> QED
      BY <2>2, <2>3, <3>1, <3>5, <3>6 DEF Settles
  <2>4. CASE u # v
    <3>1. vectors'[v] = vectors[v] /\ held'[v] = held[v] /\ executor'[v] = executor[v]
      BY <1>0, <2>1, <2>2, <2>4 DEF TypeOK, Rows
    <3> QED
      BY <1>0, <3>1 DEF Settles, Executing
  <2> QED
    BY <2>3, <2>4
<1>3. ASSUME NEW u \in Units, Release(u) \/ Die(u) PROVE Settles(v)
  <2>1. /\ UNCHANGED <<vectors, held>>
        /\ executor'[v] = executor[v] \/ executor'[v] = NoExecutor
    BY <1>0, <1>3 DEF Release, Die, TypeOK
  <2> QED
    BY <1>0, <2>1 DEF Settles, Executing
<1>4. ASSUME NEW u \in Units, Close(u) PROVE Settles(v)
  <2>1. /\ executor' = executor
        /\ vectors'[v] = NoRow \/ (vectors'[v] = vectors[v] /\ held'[v] = held[v])
    BY <1>0, <1>4 DEF Close, TypeOK, Rows
  <2>2. vectors'[v] = NoRow => v = u \/ vectors[v] = NoRow
    BY <1>0, <1>4 DEF Close, Rows
  <2>3. vectors[u] # NoRow
    BY <1>4 DEF Close
  <2> QED
    BY <1>0, <2>1, <2>2, <2>3 DEF Settles, Executing
<1>5. ASSUME NEW u \in Units, UnlockNears(u) PROVE Settles(v)
  <2>1. /\ vectors[u] # NoRow /\ vectors' = Nearer(vectors, u)
        /\ UNCHANGED <<executor, held>>
    BY <1>5 DEF UnlockNears, Nearer
  <2>2. Unlocked(Nearer(vectors, u), vectors, u, v)
    BY <1>r, <2>1, UnlockKeeps
  <2>3. /\ (vectors'[v] = NoRow) <=> (vectors[v] = NoRow)
        /\ vectors[v] # NoRow => vectors'[v].opp = vectors[v].opp
    BY <2>1, <2>2 DEF Unlocked
  <2> QED
    BY <1>0, <2>1, <2>3 DEF Settles, Executing
<1>6. ASSUME NEW u \in Units, Amend(u) PROVE Settles(v)
  <2>1. PICK basis \in Bases :
          /\ vectors' = Amended(vectors, u, basis)
          /\ held' = [held EXCEPT ![u] = Smaller(@, basis)]
    BY <1>6 DEF Amend, Amended
  <2>2. vectors[u] # NoRow /\ executor' = executor
    BY <1>6 DEF Amend
  <2>3. /\ (Amended(vectors, u, basis)[v] = NoRow) <=> (vectors[v] = NoRow)
        /\ vectors[v] # NoRow => Amended(vectors, u, basis)[v].opp = vectors[v].opp
    BY <1>r, <2>2, AmendKeeps
  <2>4. /\ (vectors'[v] = NoRow) <=> (vectors[v] = NoRow)
        /\ vectors[v] # NoRow => vectors'[v].opp = vectors[v].opp
    BY <2>1, <2>3, Zenon
  <2>5. held'[v] = IF v = u THEN Smaller(held[v], basis) ELSE held[v]
    BY <1>0, <2>1 DEF TypeOK
  <2>6. held'[v] <= held[v]
    BY <1>0, <1>b, <2>5 DEF Smaller
  <2> QED
    BY <1>0, <2>2, <2>4, <2>6 DEF Settles, Executing
<1>7. ASSUME Crash PROVE Settles(v)
  <2>1. executor'[v] = NoExecutor /\ UNCHANGED <<vectors, held>>
    BY <1>7 DEF Crash
  <2> QED
    BY <1>0, <2>1 DEF Settles, Executing
<1>8. ASSUME NEW o \in Opportunities, Refuse(o) PROVE UNCHANGED <<vectors, executor, held>>
  BY <1>8 DEF Refuse
<1>9. BalanceChanges \/ Tick \/ UNCHANGED vars => UNCHANGED <<vectors, executor, held>>
  BY DEF BalanceChanges, Tick, vars
<1>10. Settles(v)
  BY <1>1, <1>2, <1>3, <1>4, <1>5, <1>6, <1>7, <1>8, <1>9 DEF Next
<1>11. blind' = blind
  BY DEF Next, Refuse, InsertVector, Release, Die, Amend, Close, UnlockNears,
         BalanceChanges, Tick, Crash, vars
<1> QED
  BY <1>10, <1>11

\* So no such step raises what was taken for a unit.
LEMMA TakingsFall ==
  ASSUME LedgerInv, NEW S \in SUBSET Opportunities, [Next]_vars,
         \A u \in Units, o \in Opportunities : ~Grant(u, o), NEW v \in Units
  PROVE  /\ AtStake(v, S)' => AtStake(v, S)
         /\ Takings(S)'[v] <= Takings(S)[v]
<1>0. Takings(S) \in [Units -> Nat]
  BY SumTypes DEF LedgerInv
<1>1. Settles(v)
  BY StepSettles
<1>2. /\ Takings(S)[v] = IF ~AtStake(v, S) THEN 0
                         ELSE IF vectors[v] # NoRow THEN held[v]
                         ELSE executor[v].opp.amount
      /\ Takings(S)'[v] = IF ~AtStake(v, S)' THEN 0
                          ELSE IF vectors'[v] # NoRow THEN held'[v]
                          ELSE executor'[v].opp.amount
  BY DEF Takings
<1>3. Takings(S)[v] \in Nat
  BY <1>0
<1>4. AtStake(v, S)' => AtStake(v, S)
  BY <1>1 DEF Settles, AtStake, Executing
<1>5. CASE ~AtStake(v, S)'
  BY <1>2, <1>3, <1>4, <1>5
<1>6. CASE AtStake(v, S)'
  <2>1. \/ /\ held'[v] <= held[v]
           /\ Takings(S)[v] = held[v] /\ Takings(S)'[v] = held'[v]
        \/ /\ held'[v] <= executor[v].opp.amount
           /\ Takings(S)[v] = executor[v].opp.amount /\ Takings(S)'[v] = held'[v]
        \/ Takings(S)'[v] = Takings(S)[v]
    BY <1>1, <1>2, <1>4, <1>6 DEF Settles, AtStake, Executing
  <2> QED
    BY <1>3, <1>4, <2>1
<1> QED
  BY <1>4, <1>5, <1>6

\* A grant puts the opportunity's amount on its unit and leaves the others alone.
LEMMA GrantPuts ==
  ASSUME LedgerInv, NEW S \in SUBSET Opportunities, NEW u \in Units,
         NEW o \in Opportunities, Grant(u, o)
  PROVE  /\ vectors' = vectors /\ executor[u] = NoExecutor /\ vectors[u] = NoRow
         /\ o.amount \in Nat
         /\ AtStake(u, S)' <=> o \in S
         /\ Stakes(S)'[u] = IF o \in S THEN o.amount ELSE 0
         /\ Takings(S)'[u] = IF o \in S THEN o.amount ELSE 0
         /\ \A v \in Units \ {u} : /\ AtStake(v, S)' <=> AtStake(v, S)
                                   /\ Stakes(S)'[v] = Stakes(S)[v]
                                   /\ Takings(S)'[v] = Takings(S)[v]
<1> USE AllocatorAssumption, NoneAssumption
<1>1. /\ vectors' = vectors /\ vectors[u] = NoRow /\ executor[u] = NoExecutor
      /\ held' = held
      /\ executor' = [executor EXCEPT ![u] = [opp |-> o, phase |-> "executing"]]
      /\ [opp |-> o, phase |-> "executing"] \in Executor
      /\ o.amount \in Nat
  BY DEF Grant, Idle, Executor, Opportunity
<1>2. \A v \in Units \ {u} : AtStake(v, S)' <=> AtStake(v, S)
  BY <1>1 DEF AtStake, LedgerInv, TypeOK
<1>3. \A v \in Units \ {u} : Stakes(S)'[v] = Stakes(S)[v] /\ Takings(S)'[v] = Takings(S)[v]
  BY <1>1, <1>2 DEF Stakes, Takings, LedgerInv, TypeOK
<1>4. executor'[u] = [opp |-> o, phase |-> "executing"] /\ executor'[u] # NoExecutor
  BY <1>1 DEF LedgerInv, TypeOK
<1>5. AtStake(u, S)' <=> o \in S
  BY <1>1, <1>4 DEF AtStake
<1>6. /\ Stakes(S)'[u] = IF o \in S THEN o.amount ELSE 0
      /\ Takings(S)'[u] = IF o \in S THEN o.amount ELSE 0
  BY <1>1, <1>4, <1>5 DEF Stakes, Takings
<1> QED
  BY <1>1, <1>2, <1>3, <1>5, <1>6

\* A step raises what was taken on S, and the count of the stakes, only if it grants
\* an opportunity in S, and then by that opportunity.
LEMMA StakeStep ==
  ASSUME LedgerInv, TypeOK', [Next]_vars, NEW S \in SUBSET Opportunities
  PROVE  \/ Taken(S)' <= Taken(S) /\ StakeCount(S)' <= StakeCount(S)
         \/ \E u \in Units, o \in S :
              /\ Grant(u, o)
              /\ Taken(S)' <= Taken(S) + o.amount
              /\ StakeCount(S)' <= StakeCount(S) + 1
<1> USE AllocatorAssumption, NoneAssumption
<1> DEFINE A == {u \in Units : AtStake(u, S)}
           B == {u \in Units : AtStake(u, S)'}
<1>0. /\ Takings(S) \in [Units -> Nat] /\ Takings(S)' \in [Units -> Nat]
      /\ IsFiniteSet(A) /\ IsFiniteSet(B)
  <2>1. A \subseteq Units /\ B \subseteq Units
    OBVIOUS
  <2>2. IsFiniteSet(A) /\ IsFiniteSet(B)
    BY <2>1, FS_Subset
  <2> QED
    BY <2>2, SumTypes, NextSumTypes DEF LedgerInv
<1>1. Taken(S)' = Total(Takings(S)', MaxAmount) /\ StakeCount(S)' = Cardinality(B)
      /\ Taken(S) = Total(Takings(S), MaxAmount) /\ StakeCount(S) = Cardinality(A)
  BY DEF Taken, StakeCount
<1>2. ASSUME \A v \in Units : /\ AtStake(v, S)' => AtStake(v, S)
                              /\ Takings(S)'[v] <= Takings(S)[v]
      PROVE  Taken(S)' <= Taken(S) /\ StakeCount(S)' <= StakeCount(S)
  <2>1. Total(Takings(S)', MaxAmount) <= Total(Takings(S), MaxAmount)
    BY <1>0, <1>2, TotalMonotone
  <2>2. B \subseteq A
    BY <1>2
  <2>3. Cardinality(B) <= Cardinality(A)
    BY <1>0, <2>2, FS_Subset
  <2> QED
    BY <1>1, <2>1, <2>3
<1>3. CASE \A u \in Units, o \in Opportunities : ~Grant(u, o)
  BY <1>2, <1>3, TakingsFall
<1>4. ASSUME NEW u \in Units, NEW o \in Opportunities, Grant(u, o)
      PROVE  /\ o \in S => /\ Taken(S)' <= Taken(S) + o.amount
                           /\ StakeCount(S)' <= StakeCount(S) + 1
             /\ o \notin S => Taken(S)' <= Taken(S) /\ StakeCount(S)' <= StakeCount(S)
  <2>1. /\ o.amount \in Nat
        /\ AtStake(u, S)' <=> o \in S
        /\ Takings(S)'[u] = IF o \in S THEN o.amount ELSE 0
        /\ \A v \in Units \ {u} : /\ AtStake(v, S)' <=> AtStake(v, S)
                                  /\ Takings(S)'[v] = Takings(S)[v]
    BY <1>4, GrantPuts
  <2>2. CASE o \in S
    <3>1. Total(Takings(S)', MaxAmount) <= Total(Takings(S), MaxAmount) + o.amount
      <4>1. Takings(S)'[u] <= o.amount
        BY <2>1, <2>2
      <4>2. \A v \in Units \ {u} : Takings(S)'[v] <= Takings(S)[v]
        BY <1>0, <2>1
      <4> QED
        BY <1>0, <2>1, <4>1, <4>2, TotalPut
    <3>2. B \subseteq A \cup {u}
      BY <2>1
    <3>3. /\ IsFiniteSet(A \cup {u})
          /\ Cardinality(A \cup {u}) <= Cardinality(A) + 1
          /\ Cardinality(B) <= Cardinality(A \cup {u})
      <4>1. Cardinality(A) \in Nat
        BY <1>0, FS_CardinalityType
      <4> HIDE DEF A, B
      <4>2. /\ IsFiniteSet(A \cup {u})
            /\ Cardinality(A \cup {u}) = IF u \in A THEN Cardinality(A) ELSE Cardinality(A) + 1
        BY <1>0, FS_AddElement
      <4>3. Cardinality(B) <= Cardinality(A \cup {u})
        BY <3>2, <4>2, FS_Subset
      <4> QED
        BY <4>1, <4>2, <4>3
    <3>4. Cardinality(B) <= Cardinality(A) + 1
      <4> HIDE DEF A, B
      <4>1. Cardinality(A) \in Nat /\ Cardinality(B) \in Nat /\ Cardinality(A \cup {u}) \in Nat
        BY <1>0, <3>3, FS_CardinalityType
      <4> QED
        BY <3>3, <4>1
    <3> QED
      BY <1>1, <2>2, <3>1, <3>4
  <2>3. CASE o \notin S
    <3>1. \A v \in Units : /\ AtStake(v, S)' => AtStake(v, S)
                           /\ Takings(S)'[v] <= Takings(S)[v]
      BY <1>0, <2>1, <2>3
    <3> QED
      BY <1>2, <2>3, <3>1
  <2> QED
    BY <2>2, <2>3
<1>5. CASE \E u \in Units, o \in Opportunities : Grant(u, o)
  BY <1>4, <1>5
<1> QED
  BY <1>3, <1>5

-----------------------------------------------------------------------------
(* The caps, in every state *)

\* What reserve() has checked when it grants o.
LEMMA GrantChecks ==
  ASSUME NEW u \in Units, NEW o \in Opportunities, Grant(u, o)
  PROVE  /\ ~(Committed(o.engine) + o.amount > Gross(o.engine))
         /\ ~(CountOpen(o.engine) >= MaxConcurrent[o.engine])
         /\ ~(CountOpenInWorld(o.engine) >= GlobalMax)
         /\ \E failed \in BOOLEAN :
              /\ blind' = IF failed THEN blind \cup {u} ELSE blind \ {u}
              /\ o.event # NoEvent => ~(EventExposure(o, failed) + o.amount > EventCap)
<1>1. PICK failed \in QueryFails(o) :
        /\ \A i \in 1 .. 10 : ~Refuses(i, o, failed)
        /\ blind' = IF failed THEN blind \cup {u} ELSE blind \ {u}
  BY DEF Grant
<1>2. ~Refuses(5, o, failed) /\ ~Refuses(7, o, failed)
      /\ ~Refuses(8, o, failed) /\ ~Refuses(10, o, failed)
  BY <1>1
<1>3. ~OverEventCap(o, failed) /\ ~OverShare(o)
      /\ ~(CountOpen(o.engine) >= MaxConcurrent[o.engine])
      /\ ~(CountOpenInWorld(o.engine) >= GlobalMax)
  BY <1>2 DEF Refuses
<1>4. Known(o) /\ failed \in BOOLEAN
  BY DEF Grant, QueryFails
<1> QED
  BY <1>1, <1>3, <1>4 DEF OverEventCap, OverShare

\* The sets over which the caps are taken are sets of opportunities.
LEMMA CapSets ==
  /\ \A e \in Engines : OfEngine(e) \in SUBSET Opportunities
  /\ \A e \in Engines : OfWorld(e) \in SUBSET Opportunities
  /\ \A o \in Opportunities : OfEvent(o) \in SUBSET Opportunities
  /\ \A o \in Opportunities : o.engine \in Engines /\ o.amount \in Nat
  BY AllocatorAssumption DEF OfEngine, OfWorld, OfEvent, Opportunity

\* What was taken by a paper engine is always within its share of the paper world.
TakenWithinShare == \A e \in Paper : Taken(OfEngine(e)) <= Gross(e)

\* No paper engine ever has more than its share of the paper world at stake, but
\* for what its vectors cost beyond what was taken for them.
THEOREM PaperBudgetHolds ==
  ASSUME ~MayOverrun PROVE Spec => []PaperBudget
<1> USE AllocatorAssumption
<1>1. \A e \in Paper : Gross(e) \in Nat /\ e \in Engines
  BY DEF Gross, Percent, Allocation
<1>2. Init => TakenWithinShare
  <2> SUFFICES ASSUME Init, NEW e \in Paper PROVE Taken(OfEngine(e)) <= Gross(e)
    BY DEF TakenWithinShare
  <2>1. Coins(Takings(OfEngine(e)), MaxAmount) = {}
    BY DEF Init, Coins, Takings, AtStake
  <2>2. Taken(OfEngine(e)) = 0
    BY <2>1, FS_EmptySet DEF Taken, Total
  <2> QED
    BY <1>1, <2>2
<1>3. LedgerInv /\ TypeOK' /\ TakenWithinShare /\ [Next]_vars => TakenWithinShare'
  <2> SUFFICES ASSUME LedgerInv, TypeOK', TakenWithinShare, [Next]_vars, NEW e \in Paper
               PROVE  Taken(OfEngine(e))' <= Gross(e)
    BY DEF TakenWithinShare, Gross, Allocation
  <2>1. /\ OfEngine(e) \in SUBSET Opportunities
        /\ Taken(OfEngine(e)) <= Gross(e) /\ Gross(e) \in Nat
    BY <1>1, CapSets DEF TakenWithinShare
  <2>2. Taken(OfEngine(e)) \in Nat /\ Taken(OfEngine(e))' \in Nat
    BY <2>1, StakeCovered, NextSumTypes, TotalType DEF Taken
  <2>3. CASE Taken(OfEngine(e))' <= Taken(OfEngine(e))
    BY <2>1, <2>2, <2>3
  <2>4. ASSUME NEW u \in Units, NEW o \in OfEngine(e), Grant(u, o),
               Taken(OfEngine(e))' <= Taken(OfEngine(e)) + o.amount
        PROVE  Taken(OfEngine(e))' <= Gross(e)
    <3>1. o \in Opportunities /\ o.engine = e /\ o.amount \in Nat
      BY CapSets DEF OfEngine
    <3>2. ~(Committed(e) + o.amount > Gross(e))
      BY <2>4, <3>1, GrantChecks
    <3>3. Taken(OfEngine(e)) <= Committed(e) /\ Committed(e) \in Nat
      BY <2>1, StakeCovered DEF Committed
    <3> QED
      BY <2>1, <2>2, <2>4, <3>1, <3>2, <3>3
  <2> QED
    BY <2>1, <2>3, <2>4, StakeStep
<1>4. LedgerInv /\ TakenWithinShare => PaperBudget
  <2> SUFFICES ASSUME LedgerInv, TakenWithinShare, NEW e \in Paper
               PROVE  Stake(OfEngine(e)) <= Gross(e) + Growth(OfEngine(e))
    BY DEF PaperBudget
  <2>1. OfEngine(e) \in SUBSET Opportunities /\ Gross(e) \in Nat
    BY <1>1, CapSets
  <2>2. /\ Stake(OfEngine(e)) <= Taken(OfEngine(e)) + Growth(OfEngine(e))
        /\ Stake(OfEngine(e)) \in Nat /\ Taken(OfEngine(e)) \in Nat
        /\ Growth(OfEngine(e)) \in Nat
    BY <2>1, StakeGrows
  <2>3. Taken(OfEngine(e)) <= Gross(e)
    BY DEF TakenWithinShare
  <2> QED
    BY <2>1, <2>2, <2>3
<1> QED
  BY <1>2, <1>3, <1>4, LedgerInvariant, TypeCorrect, PTL DEF Spec

\* No engine ever has more vectors open or being executed than its cap.
THEOREM EngineConcurrencyHolds ==
  ASSUME ~MayOverrun PROVE Spec => []EngineConcurrency
<1> USE AllocatorAssumption
<1>1. Init => EngineConcurrency
  <2> SUFFICES ASSUME Init, NEW e \in Engines
               PROVE  StakeCount(OfEngine(e)) <= MaxConcurrent[e]
    BY DEF EngineConcurrency
  <2>1. {u \in Units : AtStake(u, OfEngine(e))} = {}
    BY DEF Init, AtStake
  <2>2. StakeCount(OfEngine(e)) = 0
    BY <2>1, FS_EmptySet DEF StakeCount
  <2>3. MaxConcurrent[e] \in Nat
    OBVIOUS
  <2> QED
    BY <2>2, <2>3
<1>2. LedgerInv /\ TypeOK' /\ EngineConcurrency /\ [Next]_vars => EngineConcurrency'
  <2> SUFFICES ASSUME LedgerInv, TypeOK', EngineConcurrency, [Next]_vars, NEW e \in Engines
               PROVE  StakeCount(OfEngine(e))' <= MaxConcurrent[e]
    BY DEF EngineConcurrency
  <2>1. /\ OfEngine(e) \in SUBSET Opportunities
        /\ StakeCount(OfEngine(e)) <= MaxConcurrent[e] /\ MaxConcurrent[e] \in Nat
    BY CapSets DEF EngineConcurrency
  <2>2. StakeCount(OfEngine(e)) \in Nat /\ StakeCount(OfEngine(e))' \in Nat
    <3>1. IsFiniteSet({u \in Units : AtStake(u, OfEngine(e))'})
      BY FS_Subset
    <3> QED
      BY <2>1, <3>1, StakeCovered, FS_CardinalityType DEF StakeCount
  <2>3. CASE StakeCount(OfEngine(e))' <= StakeCount(OfEngine(e))
    BY <2>1, <2>2, <2>3
  <2>4. ASSUME NEW u \in Units, NEW o \in OfEngine(e), Grant(u, o),
               StakeCount(OfEngine(e))' <= StakeCount(OfEngine(e)) + 1
        PROVE  StakeCount(OfEngine(e))' <= MaxConcurrent[e]
    <3>1. o \in Opportunities /\ o.engine = e
      BY DEF OfEngine
    <3>2. ~(CountOpen(e) >= MaxConcurrent[e])
      BY <2>4, <3>1, GrantChecks
    <3>3. StakeCount(OfEngine(e)) <= CountOpen(e) /\ CountOpen(e) \in Nat
      BY <2>1, StakeCovered DEF CountOpen
    <3> QED
      BY <2>1, <2>2, <2>4, <3>2, <3>3
  <2> QED
    BY <2>1, <2>3, <2>4, StakeStep
<1> QED
  BY <1>1, <1>2, LedgerInvariant, TypeCorrect, PTL DEF Spec

\* Neither world ever has more vectors open or being executed than the global cap.
THEOREM WorldConcurrencyHolds ==
  ASSUME ~MayOverrun PROVE Spec => []WorldConcurrency
<1> USE AllocatorAssumption
<1>1. Init => WorldConcurrency
  <2> SUFFICES ASSUME Init, NEW e \in Engines PROVE StakeCount(OfWorld(e)) <= GlobalMax
    BY DEF WorldConcurrency
  <2>1. {u \in Units : AtStake(u, OfWorld(e))} = {}
    BY DEF Init, AtStake
  <2>2. StakeCount(OfWorld(e)) = 0
    BY <2>1, FS_EmptySet DEF StakeCount
  <2>3. GlobalMax \in Nat
    OBVIOUS
  <2> QED
    BY <2>2, <2>3
<1>2. LedgerInv /\ TypeOK' /\ WorldConcurrency /\ [Next]_vars => WorldConcurrency'
  <2> SUFFICES ASSUME LedgerInv, TypeOK', WorldConcurrency, [Next]_vars, NEW e \in Engines
               PROVE  StakeCount(OfWorld(e))' <= GlobalMax
    BY DEF WorldConcurrency
  <2>1. /\ OfWorld(e) \in SUBSET Opportunities
        /\ StakeCount(OfWorld(e)) <= GlobalMax /\ GlobalMax \in Nat
    BY CapSets DEF WorldConcurrency
  <2>2. StakeCount(OfWorld(e)) \in Nat /\ StakeCount(OfWorld(e))' \in Nat
    <3>1. IsFiniteSet({u \in Units : AtStake(u, OfWorld(e))'})
      BY FS_Subset
    <3> QED
      BY <2>1, <3>1, StakeCovered, FS_CardinalityType DEF StakeCount
  <2>3. CASE StakeCount(OfWorld(e))' <= StakeCount(OfWorld(e))
    BY <2>1, <2>2, <2>3
  <2>4. ASSUME NEW u \in Units, NEW o \in OfWorld(e), Grant(u, o),
               StakeCount(OfWorld(e))' <= StakeCount(OfWorld(e)) + 1
        PROVE  StakeCount(OfWorld(e))' <= GlobalMax
    <3>1. o \in Opportunities /\ o.engine \in World(e)
      BY DEF OfWorld
    <3>2. World(o.engine) = World(e)
      BY <3>1 DEF World
    <3>3. ~(CountOpenInWorld(e) >= GlobalMax)
      BY <2>4, <3>1, <3>2, GrantChecks DEF CountOpenInWorld, OfWorld
    <3>4. StakeCount(OfWorld(e)) <= CountOpenInWorld(e) /\ CountOpenInWorld(e) \in Nat
      BY <2>1, StakeCovered DEF CountOpenInWorld
    <3> QED
      BY <2>1, <2>2, <2>4, <3>3, <3>4
  <2> QED
    BY <2>1, <2>3, <2>4, StakeStep
<1> QED
  BY <1>1, <1>2, LedgerInvariant, TypeCorrect, PTL DEF Spec


\* What was taken for an event by grants that had its rows in view, and what is
\* reserved for it, are each within the cap of the event.
SightedTaken(o) == Total(Sighted(Takings(OfEvent(o))), MaxAmount)
SightedWithinCap ==
  \A o \in Opportunities : o.event # NoEvent =>
    SightedTaken(o) <= EventCap /\ InFlight(OfEvent(o)) <= EventCap

\* Sums of what is in view are of numbers.
LEMMA SightedType ==
  ASSUME NEW o \in Opportunities
  PROVE  /\ TypeOK => /\ Sighted(Stakes(OfEvent(o))) \in [Units -> Nat]
                      /\ Sighted(Takings(OfEvent(o))) \in [Units -> Nat]
                      /\ SightedTaken(o) \in Nat
         /\ TypeOK' => /\ Sighted(Takings(OfEvent(o)))' \in [Units -> Nat]
                       /\ SightedTaken(o)' \in Nat
<1> USE AllocatorAssumption
<1>0. OfEvent(o) \in SUBSET Opportunities
  BY CapSets
<1>1. TypeOK => /\ Stakes(OfEvent(o)) \in [Units -> Nat]
                /\ Takings(OfEvent(o)) \in [Units -> Nat]
  BY <1>0, SumTypes
<1>2. TypeOK => /\ Sighted(Stakes(OfEvent(o))) \in [Units -> Nat]
                /\ Sighted(Takings(OfEvent(o))) \in [Units -> Nat]
  BY <1>1 DEF Sighted
<1>3. TypeOK' => Takings(OfEvent(o))' \in [Units -> Nat]
  BY <1>0, NextSumTypes
<1>4. TypeOK' => Sighted(Takings(OfEvent(o)))' \in [Units -> Nat]
  BY <1>3 DEF Sighted
<1>5. TypeOK => SightedTaken(o) \in Nat
  BY <1>2, TotalType DEF SightedTaken
<1>6. TypeOK' => SightedTaken(o)' \in Nat
  BY <1>4, TotalType DEF SightedTaken
<1> QED
  BY <1>2, <1>4, <1>5, <1>6

\* A grant for the event of o was checked against all that was taken for it, or
\* against what is reserved for it only.
LEMMA EventChecks ==
  ASSUME LedgerInv, NEW o \in Opportunities, o.event # NoEvent,
         NEW u \in Units, NEW p \in OfEvent(o), Grant(u, p)
  PROVE  \/ /\ blind' = blind \ {u}
            /\ Taken(OfEvent(o)) + p.amount <= EventCap
            /\ InFlight(OfEvent(o)) + p.amount <= EventCap
         \/ /\ blind' = blind \cup {u}
            /\ InFlight(OfEvent(o)) + p.amount <= EventCap
<1> USE AllocatorAssumption
<1> DEFINE rows == vectors
<1>1. /\ p \in Opportunities /\ p.amount \in Nat
      /\ p.event = o.event /\ p.engine \in World(o.engine)
  BY CapSets DEF OfEvent, OfWorld
<1>2. World(p.engine) = World(o.engine)
  BY <1>1 DEF World
<1>3. OfEvent(p) = OfEvent(o)
  BY <1>1, <1>2 DEF OfEvent, OfWorld
<1>4. PICK failed \in BOOLEAN :
        /\ blind' = IF failed THEN blind \cup {u} ELSE blind \ {u}
        /\ ~(EventExposure(p, failed) + p.amount > EventCap)
  BY <1>1, GrantChecks
<1>5. ~((IF failed THEN 0 ELSE RowBasis(rows, OfEvent(o)))
          + InFlight(OfEvent(o)) + p.amount > EventCap)
  BY <1>3, <1>4 DEF EventExposure
<1>6. rows \in {vectors, OpenVectors} /\ OfEvent(o) \in SUBSET Opportunities
  BY CapSets
<1> HIDE DEF rows
<1>7. /\ Taken(OfEvent(o)) <= RowBasis(rows, OfEvent(o)) + InFlight(OfEvent(o))
      /\ Taken(OfEvent(o)) \in Nat
      /\ RowBasis(rows, OfEvent(o)) \in Nat /\ InFlight(OfEvent(o)) \in Nat
  BY <1>6, StakeCovered
<1>8. CASE failed
  BY <1>1, <1>4, <1>5, <1>7, <1>8
<1>9. CASE ~failed
  BY <1>1, <1>4, <1>5, <1>7, <1>9
<1> QED
  BY <1>8, <1>9

\* A step keeps what is in view within the cap.
LEMMA SightedStep ==
  ASSUME LedgerInv, TypeOK', [Next]_vars, NEW o \in Opportunities, o.event # NoEvent,
         SightedTaken(o) <= EventCap
  PROVE  SightedTaken(o)' <= EventCap
<1> USE AllocatorAssumption
<1> DEFINE S == OfEvent(o)
           F == Sighted(Takings(S))
           G == Sighted(Takings(S))'
<1>1. /\ S \in SUBSET Opportunities /\ TypeOK
      /\ Takings(S) \in [Units -> Nat] /\ Takings(S)' \in [Units -> Nat]
  BY CapSets, SumTypes, NextSumTypes DEF LedgerInv
<1>2. /\ F \in [Units -> Nat] /\ G \in [Units -> Nat]
      /\ SightedTaken(o) \in Nat /\ SightedTaken(o)' \in Nat
  BY <1>1, SightedType
<1>3. /\ SightedTaken(o) = Total(F, MaxAmount) /\ SightedTaken(o)' = Total(G, MaxAmount)
  BY DEF SightedTaken
<1>4. /\ \A v \in Units : F[v] = IF v \in blind THEN 0 ELSE Takings(S)[v]
      /\ \A v \in Units : G[v] = IF v \in blind' THEN 0 ELSE Takings(S)'[v]
  BY DEF Sighted
<1> HIDE DEF F, G
<1>5. ASSUME \A v \in Units : G[v] <= F[v] PROVE SightedTaken(o)' <= EventCap
  <2>1. Total(G, MaxAmount) <= Total(F, MaxAmount)
    BY <1>2, <1>5, TotalMonotone
  <2> QED
    BY <1>2, <1>3, <2>1
<1>6. CASE \A u \in Units, p \in Opportunities : ~Grant(u, p)
  <2>1. /\ blind' = blind
        /\ \A v \in Units : Takings(S)'[v] <= Takings(S)[v]
    <3>1. \A v \in Units : Takings(S)'[v] <= Takings(S)[v] /\ blind' = blind
      BY <1>1, <1>6, TakingsFall, StepSettles
    <3>2. CASE Units = {}
      <4>1. blind' = {} /\ blind = {}
        BY <1>1, <3>2 DEF TypeOK
      <4> QED
        BY <3>1, <4>1
    <3> QED
      BY <3>1, <3>2
  <2>2. \A v \in Units : G[v] <= F[v]
    <3> SUFFICES ASSUME NEW v \in Units PROVE G[v] <= F[v]
      OBVIOUS
    <3>1. Takings(S)[v] \in Nat /\ Takings(S)'[v] \in Nat
      BY <1>1
    <3> QED
      BY <1>4, <2>1, <3>1
  <2> QED
    BY <1>5, <2>2
<1>7. ASSUME NEW u \in Units, NEW p \in Opportunities, Grant(u, p)
      PROVE  SightedTaken(o)' <= EventCap
  <2>1. /\ p.amount \in Nat
        /\ Takings(S)'[u] = IF p \in S THEN p.amount ELSE 0
        /\ \A v \in Units \ {u} : Takings(S)'[v] = Takings(S)[v]
    BY <1>1, <1>7, GrantPuts
  <2>2. blind' = blind \ {u} \/ blind' = blind \cup {u}
    BY <1>7, GrantChecks
  <2>3. \A v \in Units \ {u} : G[v] = F[v]
    BY <1>4, <2>1, <2>2
  <2>4. CASE p \notin S \/ u \in blind'
    <3>1. G[u] = 0
      BY <1>4, <2>1, <2>4
    <3>2. \A v \in Units : G[v] <= F[v]
      BY <1>2, <2>3, <3>1
    <3> QED
      BY <1>5, <3>2
  <2>5. CASE p \in S /\ u \notin blind'
    <3>1. Taken(S) + p.amount <= EventCap
      BY <1>7, <2>5, EventChecks
    <3>2. Total(F, MaxAmount) <= Taken(S)
      <4>1. \A v \in Units : F[v] <= Takings(S)[v]
        <5> SUFFICES ASSUME NEW v \in Units PROVE F[v] <= Takings(S)[v]
          OBVIOUS
        <5>1. Takings(S)[v] \in Nat
          BY <1>1
        <5> QED
          BY <1>4, <5>1
      <4> QED
        BY <1>1, <1>2, <4>1, TotalMonotone DEF Taken
    <3>3. Total(G, MaxAmount) <= Total(F, MaxAmount) + p.amount
      <4>1. G[u] <= p.amount
        BY <1>4, <2>1, <2>5
      <4>2. \A v \in Units \ {u} : G[v] <= F[v]
        BY <1>2, <2>3
      <4> QED
        BY <1>2, <2>1, <4>1, <4>2, TotalPut
    <3>4. Taken(S) \in Nat /\ Total(F, MaxAmount) \in Nat /\ Total(G, MaxAmount) \in Nat
      BY <1>1, <1>2, TotalType DEF Taken
    <3> QED
      BY <1>3, <2>1, <3>1, <3>2, <3>3, <3>4
  <2> QED
    BY <2>4, <2>5
<1> QED
  BY <1>6, <1>7

\* A step keeps what is reserved for an event within the cap.
LEMMA InFlightStep ==
  ASSUME LedgerInv, TypeOK', [Next]_vars, NEW o \in Opportunities, o.event # NoEvent,
         InFlight(OfEvent(o)) <= EventCap
  PROVE  InFlight(OfEvent(o))' <= EventCap
<1> USE AllocatorAssumption, NoneAssumption
<1> DEFINE S == OfEvent(o)
           F == Leased(S)
           G == Leased(S)'
<1>1. S \in SUBSET Opportunities /\ TypeOK
  BY CapSets DEF LedgerInv
<1>2. F \in [Units -> Nat] /\ G \in [Units -> Nat]
  BY <1>1, SumTypes, NextSumTypes
<1>3. InFlight(S) = Total(F, MaxAmount) /\ InFlight(S)' = Total(G, MaxAmount)
  BY DEF InFlight, Leased
<1>4. Total(F, MaxAmount) \in Nat /\ Total(G, MaxAmount) \in Nat
  BY <1>2, TotalType
<1>5. /\ \A v \in Units : F[v] = IF Live(v) /\ reservations[v].opp \in S
                                  THEN reservations[v].opp.amount ELSE 0
      /\ \A v \in Units : G[v] = IF Live(v)' /\ reservations'[v].opp \in S
                                  THEN reservations'[v].opp.amount ELSE 0
  BY DEF Leased
<1> HIDE DEF F, G
<1>6. ASSUME NEW v \in Units,
             \/ reservations'[v] = reservations[v]
             \/ reservations'[v] = NoReservation
             \/ /\ Live(v) /\ reservations'[v].opp = reservations[v].opp
      PROVE  G[v] <= F[v]
  <2>1. F[v] \in Nat
    BY <1>2
  <2> QED
    BY <1>5, <1>6, <2>1 DEF Live
<1>7. ASSUME \A v \in Units : G[v] <= F[v] PROVE InFlight(S)' <= EventCap
  <2>1. Total(G, MaxAmount) <= Total(F, MaxAmount)
    BY <1>2, <1>7, TotalMonotone
  <2> QED
    BY <1>3, <1>4, <2>1
<1>8. CASE reservations' = reservations
  BY <1>6, <1>7, <1>8
<1>9. ASSUME NEW u \in Units, NEW p \in Opportunities, Grant(u, p)
      PROVE  InFlight(S)' <= EventCap
  <2>1. /\ reservations' =
             [reservations EXCEPT ![u] = [opp |-> p, left |-> ReservationTTL]]
        /\ ~Live(u)
    BY <1>9 DEF Grant, Idle
  <2>2. /\ reservations'[u] = [opp |-> p, left |-> ReservationTTL]
        /\ \A v \in Units \ {u} : reservations'[v] = reservations[v]
    BY <1>1, <2>1 DEF TypeOK
  <2>3. reservations'[u].opp = p /\ p.amount \in Nat
    BY <2>2, AreNumbers
  <2>4. \A v \in Units \ {u} : G[v] <= F[v]
    BY <1>6, <2>2
  <2>5. CASE p \in S
    <3>1. InFlight(S) + p.amount <= EventCap
      BY <1>9, <2>5, EventChecks
    <3>2. G[u] <= p.amount
      BY <1>5, <2>3
    <3>3. Total(G, MaxAmount) <= Total(F, MaxAmount) + p.amount
      BY <1>2, <2>3, <2>4, <3>2, TotalPut
    <3> QED
      BY <1>3, <1>4, <2>3, <3>1, <3>3
  <2>6. CASE p \notin S
    <3>1. G[u] = 0
      BY <1>5, <2>3, <2>6
    <3>2. F[u] \in Nat
      BY <1>2
    <3>3. \A v \in Units : G[v] <= F[v]
      BY <2>4, <3>1, <3>2
    <3> QED
      BY <1>7, <3>3
  <2> QED
    BY <2>5, <2>6
<1>10. ASSUME NEW u \in Units, Release(u) PROVE InFlight(S)' <= EventCap
  <2>1. \A v \in Units : reservations'[v] \in {reservations[v], NoReservation}
    BY <1>1, <1>10 DEF Release, TypeOK
  <2> QED
    BY <1>6, <1>7, <2>1
<1>11. CASE Tick
  <2>1. \A v \in Units :
          \/ reservations'[v] = reservations[v]
          \/ Live(v) /\ reservations'[v].opp = reservations[v].opp
    BY <1>1, <1>11 DEF Tick, TypeOK, Live, Reservation
  <2> QED
    BY <1>6, <1>7, <2>1
<1>12. CASE Crash
  <2>1. \A v \in Units : reservations'[v] = NoReservation
    BY <1>12 DEF Crash
  <2> QED
    BY <1>6, <1>7, <2>1
<1>13. ASSUME NEW u \in Units,
              InsertVector(u) \/ Die(u) \/ Amend(u) \/ Close(u) \/ UnlockNears(u)
       PROVE  reservations' = reservations
  BY <1>13 DEF InsertVector, Die, Amend, Close, UnlockNears
<1>14. ASSUME NEW p \in Opportunities, Refuse(p) PROVE reservations' = reservations
  BY <1>14 DEF Refuse
<1>15. BalanceChanges \/ UNCHANGED vars => reservations' = reservations
  BY DEF BalanceChanges, vars
<1> QED
  BY <1>8, <1>9, <1>10, <1>11, <1>12, <1>13, <1>14, <1>15 DEF Next

\* No event has more at stake in one of the worlds than its cap and the growth, as
\* far as its grants saw its rows, and no failing query lets reservations exceed it.
THEOREM EventExposureHolds ==
  ASSUME ~MayOverrun PROVE Spec => []EventExposureCap
<1> USE AllocatorAssumption
<1>1. Init => SightedWithinCap
  <2> SUFFICES ASSUME Init, NEW o \in Opportunities
               PROVE  SightedTaken(o) <= EventCap /\ InFlight(OfEvent(o)) <= EventCap
    BY DEF SightedWithinCap
  <2>1. /\ Coins(Sighted(Takings(OfEvent(o))), MaxAmount) = {}
        /\ Coins(Leased(OfEvent(o)), MaxAmount) = {}
    BY DEF Init, Coins, Sighted, Takings, AtStake, Leased, Live
  <2>2. SightedTaken(o) = 0 /\ InFlight(OfEvent(o)) = 0
    BY <2>1, FS_EmptySet DEF SightedTaken, Total, InFlight, Leased
  <2> QED
    BY <2>2
<1>2. LedgerInv /\ TypeOK' /\ SightedWithinCap /\ [Next]_vars => SightedWithinCap'
  BY SightedStep, InFlightStep DEF SightedWithinCap
<1>3. LedgerInv /\ SightedWithinCap => EventExposureCap
  <2> SUFFICES ASSUME LedgerInv, SightedWithinCap, NEW o \in Opportunities,
                      o.event # NoEvent
               PROVE  Total(Sighted(Stakes(OfEvent(o))), MaxAmount)
                        <= EventCap + Beyond(Sighted(Stakes(OfEvent(o))),
                                             Sighted(Takings(OfEvent(o))), MaxAmount)
    BY DEF EventExposureCap, SightedWithinCap
  <2>1. /\ Sighted(Stakes(OfEvent(o))) \in [Units -> Nat]
        /\ Sighted(Takings(OfEvent(o))) \in [Units -> Nat]
    BY SightedType DEF LedgerInv
  <2>2. \A u \in Units :
          Sighted(Takings(OfEvent(o)))[u] <= Sighted(Takings(OfEvent(o)))[u]
    BY <2>1
  <2>3. /\ Total(Sighted(Stakes(OfEvent(o))), MaxAmount)
             <= Total(Sighted(Takings(OfEvent(o))), MaxAmount)
                  + Beyond(Sighted(Stakes(OfEvent(o))),
                           Sighted(Takings(OfEvent(o))), MaxAmount)
        /\ Beyond(Sighted(Stakes(OfEvent(o))), Sighted(Takings(OfEvent(o))),
                  MaxAmount) \in Nat
    BY <2>1, <2>2, TotalBeyond
  <2>4. /\ Total(Sighted(Takings(OfEvent(o))), MaxAmount) <= EventCap
        /\ Total(Sighted(Takings(OfEvent(o))), MaxAmount) \in Nat
        /\ Total(Sighted(Stakes(OfEvent(o))), MaxAmount) \in Nat
    BY <2>1, TotalType DEF SightedWithinCap, SightedTaken
  <2> QED
    BY <2>3, <2>4
<1> QED
  BY <1>1, <1>2, <1>3, LedgerInvariant, TypeCorrect, PTL DEF Spec

-----------------------------------------------------------------------------
(* What holds at the moment of a grant *)

\* Only a grant gives a unit an executor.
LEMMA GrantedBy ==
  ASSUME TypeOK, [Next]_vars, NEW u \in Units, Granted(u)
  PROVE  \E o \in Opportunities : Grant(u, o) /\ executor'[u].opp = o
<1> USE AllocatorAssumption, NoneAssumption
<1>1. executor[u] = NoExecutor /\ executor'[u] # NoExecutor
      /\ executor \in [Units -> Executor \cup {NoExecutor}]
  BY DEF Granted, TypeOK
<1>2. ASSUME NEW v \in Units, NEW o \in Opportunities, Grant(v, o)
      PROVE  \E p \in Opportunities : Grant(u, p) /\ executor'[u].opp = p
  <2>1. executor' = [executor EXCEPT ![v] = [opp |-> o, phase |-> "executing"]]
    BY <1>2 DEF Grant
  <2>2. v = u /\ executor'[u].opp = o
    BY <1>1, <2>1
  <2> QED
    BY <1>2, <2>2
<1>3. ASSUME NEW v \in Units, InsertVector(v) \/ Release(v) \/ Die(v) PROVE FALSE
  <2>1. CASE v = u
    BY <1>1, <1>3, <2>1 DEF InsertVector, Release, Die
  <2>2. CASE v # u
    BY <1>1, <1>3, <2>2 DEF InsertVector, Release, Die
  <2> QED
    BY <2>1, <2>2
<1>4. ASSUME NEW v \in Units, Amend(v) \/ Close(v) \/ UnlockNears(v) PROVE FALSE
  BY <1>1, <1>4 DEF Amend, Close, UnlockNears
<1>5. ASSUME NEW o \in Opportunities, Refuse(o) PROVE FALSE
  BY <1>1, <1>5 DEF Refuse
<1>6. ~(BalanceChanges \/ Tick \/ Crash \/ UNCHANGED vars)
  BY <1>1 DEF BalanceChanges, Tick, Crash, vars
<1> QED
  BY <1>2, <1>3, <1>4, <1>5, <1>6 DEF Next

\* A balance that reserve() knows is a number, and so is the share of it.
LEMMA KnownShare ==
  ASSUME TypeOK, NEW o \in Opportunities, Known(o)
  PROVE  Allocation(o.engine) \in Nat /\ Gross(o.engine) \in Nat
<1> USE AllocatorAssumption, NoneAssumption
<1>1. o.engine \in Engines
  BY CapSets
<1>2. Allocation(o.engine) \in Nat
  BY <1>1 DEF Known, Allocation, TypeOK
<1>3. AllocationPct[o.engine] \in Nat
  BY <1>1
<1> QED
  BY <1>2, <1>3 DEF Gross, Percent

\* At a grant the engine's stake, the new one included, is within its share of the

\* At a grant the engine's stake, the new one included, is within its share of the
\* balance of that moment, a live one included, but for growth the copy does not show.
THEOREM GrantWithinShareHolds ==
  ASSUME ~MayOverrun PROVE Spec => GrantWithinShare
<1> USE AllocatorAssumption
<1>1. ASSUME LedgerInv, TypeOK', [Next]_vars, NEW u \in Units, NEW e \in Engines,
             Granted(u), executor'[u].opp.engine = e
      PROVE  Stake(OfEngine(e))' <= Gross(e)
               + Beyond(Stakes(OfEngine(e)), Reckoned(OfEngine(e)), MaxAmount)
  <2> DEFINE S == OfEngine(e)
             unseen == Beyond(Stakes(S), Reckoned(S), MaxAmount)
             F == Stakes(S)
             G == Stakes(S)'
  <2>1. PICK o \in Opportunities : Grant(u, o) /\ executor'[u].opp = o
    BY <1>1, GrantedBy DEF LedgerInv
  <2>2. o.engine = e /\ o.amount \in Nat /\ S \in SUBSET Opportunities
    BY <1>1, <2>1, CapSets
  <2>3. Known(o) /\ ~(Committed(e) + o.amount > Gross(e))
    BY <2>1, <2>2, GrantChecks DEF Grant
  <2>4. Gross(e) \in Nat
    BY <1>1, <2>2, <2>3, KnownShare DEF LedgerInv
  <2>5. F \in [Units -> Nat] /\ Reckoned(S) \in [Units -> Nat] /\ G \in [Units -> Nat]
    BY <1>1, <2>2, SumTypes, NextSumTypes DEF LedgerInv
  <2>6. /\ Total(Reckoned(S), MaxAmount) <= Committed(e)
        /\ Committed(e) \in Nat /\ Total(Reckoned(S), MaxAmount) \in Nat
    BY <1>1, <2>2, StakeCovered DEF Committed
  <2>7. /\ Total(F, MaxAmount) <= Total(Reckoned(S), MaxAmount) + unseen
        /\ unseen \in Nat
    <3>1. \A v \in Units : Reckoned(S)[v] <= Reckoned(S)[v]
      BY <2>5
    <3> QED
      BY <2>5, <3>1, TotalBeyond
  <2>8. Total(G, MaxAmount) <= Total(F, MaxAmount) + o.amount
    <3>1. /\ G[u] <= o.amount
          /\ \A v \in Units \ {u} : G[v] = F[v]
      BY <1>1, <2>1, <2>2, GrantPuts
    <3>2. \A v \in Units \ {u} : G[v] <= F[v]
      BY <2>5, <3>1
    <3> QED
      BY <2>2, <2>5, <3>1, <3>2, TotalPut
  <2>9. /\ Total(F, MaxAmount) \in Nat /\ Total(G, MaxAmount) \in Nat
        /\ Stake(S)' = Total(G, MaxAmount)
    BY <2>5, TotalType DEF Stake
  <2> HIDE DEF S, unseen, F, G
  <2>10. Stake(S)' <= Gross(e) + unseen
    BY <2>2, <2>3, <2>4, <2>6, <2>7, <2>8, <2>9
  <2> QED
    BY <2>10 DEF S, unseen
<1>2. LedgerInv /\ TypeOK' /\ [Next]_vars =>
        [\A u \in Units, e \in Engines :
           Granted(u) /\ executor'[u].opp.engine = e =>
             Stake(OfEngine(e))' <= Gross(e)
               + Beyond(Stakes(OfEngine(e)), Reckoned(OfEngine(e)), MaxAmount)]_vars
  BY <1>1
<1> QED
  BY <1>2, LedgerInvariant, TypeCorrect, PTL DEF Spec, GrantWithinShare

\* A grant keeps its nodes within their cap, counting the rows of the database and
\* not of the copy, but for live reservations and for growth the copy does not show.
THEOREM GrantWithinNodeCapHolds ==
  ASSUME ~MayOverrun PROVE Spec => GrantWithinNodeCap
<1> USE AllocatorAssumption
<1>1. ASSUME LedgerInv, [Next]_vars, NEW u \in Units, NEW o \in Opportunities,
             Grant(u, o), o.nodes # {}
      PROVE  Total(Settled(Stakes(OnNodes(o))), MaxAmount) * Cardinality(o.nodes)
                 + o.amount
               <= (NodeCap + Beyond(Settled(Stakes(OnNodes(o))), Reckoned(OnNodes(o)),
                                    MaxAmount))
                    * Cardinality(o.nodes)
  <2> DEFINE S == OnNodes(o)
             n == Cardinality(o.nodes)
             F == Settled(Stakes(S))
             shown == RowBasis(OpenVectors, S)
             stake == Total(F, MaxAmount)
             unseen == Beyond(F, Reckoned(S), MaxAmount)
  <2>1. S \in SUBSET Opportunities
    BY DEF OnNodes, OfWorld
  <2>2. n \in Nat /\ o.amount \in Nat
    <3>1. o.nodes \subseteq Nodes
      BY DEF Opportunity
    <3> QED
      BY <3>1, FS_Subset, FS_CardinalityType, CapSets
  <2>3. ~(shown * n + o.amount > NodeCap * n)
    <3>1. PICK failed \in QueryFails(o) : ~Refuses(6, o, failed)
      BY <1>1 DEF Grant
    <3> QED
      BY <1>1, <3>1 DEF Refuses, OverNodeCap, NodeExposure
  <2>4. /\ Stakes(S) \in [Units -> Nat] /\ Reckoned(S) \in [Units -> Nat]
        /\ Basis(OpenVectors, S) \in [Units -> Nat]
    BY <1>1, <2>1, SumTypes DEF LedgerInv
  <2>5. F \in [Units -> Nat]
    BY <2>4 DEF Settled
  <2>6. \A v \in Units : F[v] > 0 => Reckoned(S)[v] <= Basis(OpenVectors, S)[v]
    <3> SUFFICES ASSUME NEW v \in Units, F[v] > 0
                 PROVE  Reckoned(S)[v] <= Basis(OpenVectors, S)[v]
      OBVIOUS
    <3>1. ~Live(v) /\ Stakes(S)[v] > 0
      BY DEF Settled
    <3>2. AtStake(v, S)
      BY <3>1 DEF Stakes
    <3>3. /\ OpenVectors[v] # NoRow /\ OpenVectors[v].opp \in S
          /\ Reckoned(S)[v] <= OpenVectors[v].basis
      BY <1>1, <2>1, <3>1, <3>2, ReckonedSeen
    <3> QED
      BY <3>3 DEF Basis
  <2>7. /\ stake <= Total(Basis(OpenVectors, S), MaxAmount) + unseen
        /\ unseen \in Nat
    BY <2>4, <2>5, <2>6, TotalBeyond
  <2>8. stake <= shown + unseen /\ stake \in Nat /\ shown \in Nat
    BY <2>4, <2>5, <2>7, TotalType DEF RowBasis, Basis
  <2>9. NodeCap \in Nat
    OBVIOUS
  <2> HIDE DEF S, n, F, shown, stake, unseen
  <2>10. stake * n <= (shown + unseen) * n
    BY <2>2, <2>7, <2>8
  <2>11. /\ (shown + unseen) * n = shown * n + unseen * n
         /\ (NodeCap + unseen) * n = NodeCap * n + unseen * n
    BY <2>2, <2>7, <2>8, <2>9
  <2>12. /\ stake * n \in Nat /\ shown * n \in Nat /\ unseen * n \in Nat
         /\ NodeCap * n \in Nat
    BY <2>2, <2>7, <2>8, <2>9
  <2>13. stake * n + o.amount <= (NodeCap + unseen) * n
    BY <2>2, <2>3, <2>10, <2>11, <2>12
  <2> QED
    BY <2>13 DEF S, n, F, stake, unseen
<1>2. LedgerInv /\ [Next]_vars =>
        [\A u \in Units : Granted(u) =>
           LET o == executor'[u].opp
               stakes == Settled(Stakes(OnNodes(o)))
               unseen == Beyond(stakes, Reckoned(OnNodes(o)), MaxAmount)
           IN  o.nodes # {} =>
                 Total(stakes, MaxAmount) * Cardinality(o.nodes) + o.amount
                   <= (NodeCap + unseen) * Cardinality(o.nodes)]_vars
  BY <1>1, GrantedBy DEF LedgerInv
<1> QED
  BY <1>2, LedgerInvariant, PTL DEF Spec, GrantWithinNodeCap

\* The oracle engine is granted nothing while more than 60% of its allocation is far
\* from its unlock, with the same two exceptions.
THEOREM GrantOutsideStandbyHolds ==
  ASSUME ~MayOverrun PROVE Spec => GrantOutsideStandby
<1> USE AllocatorAssumption, NoneAssumption
<1>1. ASSUME LedgerInv, NEW u \in Units, NEW o \in Opportunities,
             Grant(u, o), o.engine = OracleEngine
      PROVE  100 * Total(FarSettled(Stakes(OfEngine(OracleEngine))), MaxAmount)
               <= 60 * Allocation(OracleEngine)
                    + 100 * Beyond(FarSettled(Stakes(OfEngine(OracleEngine))),
                                   Reckoned(OfEngine(OracleEngine)), MaxAmount)
  <2> DEFINE S == OfEngine(OracleEngine)
             F == FarSettled(Stakes(S))
             unseen == Beyond(F, Reckoned(S), MaxAmount)
             far == [v \in Units |-> IF /\ OpenVectors[v] # NoRow
                                        /\ OpenVectors[v].opp.engine = OracleEngine
                                        /\ OpenVectors[v].far
                                      THEN OpenVectors[v].basis ELSE 0]
  <2>1. /\ OracleEngine \in Engines /\ S \in SUBSET Opportunities
        /\ o.amount \in Nat \ {0}
    BY <1>1, CapSets DEF Opportunity
  <2>2. /\ Known(o) /\ Allocation(OracleEngine) \in Nat /\ Gross(OracleEngine) \in Nat
        /\ Committed(OracleEngine) + o.amount <= Gross(OracleEngine)
        /\ Committed(OracleEngine) \in Nat
    <3>1. Known(o)
      BY <1>1 DEF Grant
    <3>2. ~(Committed(OracleEngine) + o.amount > Gross(OracleEngine))
      BY <1>1, GrantChecks
    <3>3. Committed(OracleEngine) \in Nat
      BY <1>1, <2>1, StakeCovered DEF Committed
    <3>4. Allocation(OracleEngine) \in Nat /\ Gross(OracleEngine) \in Nat
      BY <1>1, <3>1, KnownShare DEF LedgerInv
    <3> QED
      BY <2>1, <3>1, <3>2, <3>3, <3>4
  <2>3. Allocation(OracleEngine) > 0
    <3>1. CASE Allocation(OracleEngine) = 0
      <4>1. AllocationPct[OracleEngine] \in Nat
        BY <2>1
      <4>2. Gross(OracleEngine) = 0
        BY <3>1, <4>1 DEF Gross, Percent
      <4> QED
        BY <2>1, <2>2, <4>2
    <3> QED
      BY <2>2, <3>1
  <2>4. ~(100 * Total(far, MaxAmount) > 60 * Allocation(OracleEngine))
    <3>1. PICK failed \in QueryFails(o) : ~Refuses(9, o, failed)
      BY <1>1 DEF Grant
    <3>2. ~Standby
      BY <1>1, <2>2, <3>1 DEF Refuses
    <3> QED
      BY <2>3, <3>2 DEF Standby
  <2>5. /\ Stakes(S) \in [Units -> Nat] /\ Reckoned(S) \in [Units -> Nat]
        /\ OpenVectors \in Rows
    BY <1>1, <2>1, SumTypes DEF LedgerInv
  <2>6. F \in [Units -> Nat]
    BY <2>5 DEF FarSettled
  <2>7. far \in [Units -> Nat]
    <3>1. \A v \in Units : OpenVectors[v] # NoRow => OpenVectors[v].basis \in Nat
      BY <1>1, <2>5, Parts DEF LedgerInv
    <3> QED
      BY <3>1
  <2>8. \A v \in Units : F[v] > 0 => Reckoned(S)[v] <= far[v]
    <3> SUFFICES ASSUME NEW v \in Units, F[v] > 0 PROVE Reckoned(S)[v] <= far[v]
      OBVIOUS
    <3>1. ~Live(v) /\ Stakes(S)[v] > 0 /\ vectors[v] # NoRow /\ vectors[v].far
      BY DEF FarSettled
    <3>2. AtStake(v, S)
      BY <3>1 DEF Stakes
    <3>3. /\ OpenVectors[v] # NoRow /\ OpenVectors[v].opp \in S
          /\ Reckoned(S)[v] <= OpenVectors[v].basis
          /\ OpenVectors[v].far = vectors[v].far
      BY <1>1, <2>1, <3>1, <3>2, ReckonedSeen
    <3>4. OpenVectors[v].opp.engine = OracleEngine
      BY <3>3 DEF OfEngine
    <3> QED
      BY <3>1, <3>3, <3>4
  <2> HIDE DEF F, far
  <2>9. /\ Total(F, MaxAmount) <= Total(far, MaxAmount) + unseen
        /\ unseen \in Nat
    BY <2>5, <2>6, <2>7, <2>8, TotalBeyond
  <2>10. Total(F, MaxAmount) \in Nat /\ Total(far, MaxAmount) \in Nat
    BY <2>6, <2>7, TotalType
  <2> HIDE DEF unseen
  <2>11. 100 * Total(F, MaxAmount) <= 60 * Allocation(OracleEngine) + 100 * unseen
    BY <2>2, <2>4, <2>9, <2>10
  <2> QED
    BY <2>11 DEF F, unseen
<1>2. LedgerInv /\ [Next]_vars =>
        [\A u \in Units :
           Granted(u) /\ executor'[u].opp.engine = OracleEngine =>
             LET S == OfEngine(OracleEngine)
                 stakes == FarSettled(Stakes(S))
             IN  100 * Total(stakes, MaxAmount)
                   <= 60 * Allocation(OracleEngine)
                        + 100 * Beyond(stakes, Reckoned(S), MaxAmount)]_vars
  BY <1>1, GrantedBy DEF LedgerInv
<1> QED
  BY <1>2, LedgerInvariant, PTL DEF Spec, GrantOutsideStandby

-----------------------------------------------------------------------------
(* The allocator implements the ledger *)

\* What the refinement mapping of ResourceAllocator writes in the ledger.
Entry(u) ==
  IF ~AtStake(u, Opportunities) THEN NoRow
  ELSE IF vectors[u] # NoRow
    THEN [engine |-> vectors[u].opp.engine, amount |-> held[u]]
    ELSE [engine |-> executor[u].opp.engine, amount |-> executor[u].opp.amount]
Entries == [u \in Units |-> Entry(u)]
Holding == [engine: Engines, amount: 0 .. MaxAmount]
EngineOf(u) == IF vectors[u] # NoRow THEN vectors[u].opp.engine ELSE executor[u].opp.engine

\* A unit has an entry exactly if something is at stake on it, that of its engine.
LEMMA EntryIs ==
  ASSUME TypeOK, NEW u \in Units
  PROVE  /\ ~AtStake(u, Opportunities) => Entry(u) = NoRow
         /\ AtStake(u, Opportunities) =>
              /\ Entry(u) \in Holding /\ Entry(u) # NoRow
              /\ \A e \in Engines :
                   /\ AtStake(u, OfEngine(e)) <=> Entry(u).engine = e
                   /\ AtStake(u, OfEngine(e)) => Entry(u).amount = Takings(OfEngine(e))[u]
         /\ \A e \in Engines : AtStake(u, OfEngine(e)) => AtStake(u, Opportunities)
<1> USE AllocatorAssumption, NoneAssumption
<1>1. /\ vectors[u] # NoRow => /\ vectors[u].opp \in Opportunities
                               /\ held[u] \in 0 .. MaxAmount
      /\ executor[u] # NoExecutor => executor[u].opp \in Opportunities
      /\ \A o \in Opportunities : o.engine \in Engines /\ o.amount \in 1 .. MaxAmount
  BY DEF TypeOK, Rows, Row, Executor, Opportunity
<1>2. \A e \in Engines : AtStake(u, OfEngine(e)) => AtStake(u, Opportunities)
  BY DEF AtStake, OfEngine
<1>3. ASSUME AtStake(u, Opportunities)
      PROVE  /\ Entry(u) \in Holding /\ Entry(u) # NoRow
             /\ \A e \in Engines :
                  /\ AtStake(u, OfEngine(e)) <=> Entry(u).engine = e
                  /\ AtStake(u, OfEngine(e)) => Entry(u).amount = Takings(OfEngine(e))[u]
  <2>1. CASE vectors[u] # NoRow
    <3>1. Entry(u) = [engine |-> vectors[u].opp.engine, amount |-> held[u]]
      BY <1>3, <2>1 DEF Entry
    <3>2. Entry(u) \in Holding
      BY <1>1, <2>1, <3>1 DEF Holding
    <3>3. \A e \in Engines : AtStake(u, OfEngine(e)) <=> Entry(u).engine = e
      BY <1>1, <2>1, <3>1 DEF AtStake, OfEngine
    <3>4. \A e \in Engines :
            AtStake(u, OfEngine(e)) => Entry(u).amount = Takings(OfEngine(e))[u]
      BY <2>1, <3>1 DEF Takings
    <3> QED
      BY <3>2, <3>3, <3>4 DEF Holding
  <2>2. CASE vectors[u] = NoRow
    <3>1. /\ Entry(u) = [engine |-> executor[u].opp.engine,
                         amount |-> executor[u].opp.amount]
          /\ executor[u] # NoExecutor /\ executor[u].phase = "executing"
      BY <1>3, <2>2 DEF Entry, AtStake
    <3>2. Entry(u) \in Holding
      BY <1>1, <3>1 DEF Holding
    <3>3. \A e \in Engines : AtStake(u, OfEngine(e)) <=> Entry(u).engine = e
      BY <1>1, <2>2, <3>1 DEF AtStake, OfEngine
    <3>4. \A e \in Engines :
            AtStake(u, OfEngine(e)) => Entry(u).amount = Takings(OfEngine(e))[u]
      BY <2>2, <3>1 DEF Takings
    <3> QED
      BY <3>2, <3>3, <3>4 DEF Holding
  <2> QED
    BY <2>1, <2>2
<1>4. ~AtStake(u, Opportunities) => Entry(u) = NoRow
  BY DEF Entry
<1> QED
  BY <1>2, <1>3, <1>4

\* What the ledger says an engine holds is what was taken for it, and where it has a stake.
LEMMA HeldIsTaken ==
  ASSUME TypeOK, NEW e \in Engines
  PROVE  /\ Total([u \in Units |-> IF Entries[u] # NoRow /\ Entries[u].engine = e
                                     THEN Entries[u].amount ELSE 0], MaxAmount)
              = Taken(OfEngine(e))
         /\ {u \in Units : Entries[u] # NoRow /\ Entries[u].engine = e}
              = {u \in Units : AtStake(u, OfEngine(e))}
<1> DEFINE amounts == [u \in Units |-> IF Entries[u] # NoRow /\ Entries[u].engine = e
                                      THEN Entries[u].amount ELSE 0]
<1>1. \A u \in Units : AtStake(u, OfEngine(e)) <=> Entries[u] # NoRow /\ Entries[u].engine = e
  BY EntryIs DEF Entries
<1>2. \A u \in Units : amounts[u] = Takings(OfEngine(e))[u]
  <2> SUFFICES ASSUME NEW u \in Units PROVE amounts[u] = Takings(OfEngine(e))[u]
    OBVIOUS
  <2>1. CASE AtStake(u, OfEngine(e))
    <3>1. amounts[u] = Entry(u).amount
      BY <1>1, <2>1 DEF Entries
    <3> QED
      BY <2>1, <3>1, EntryIs
  <2>2. CASE ~AtStake(u, OfEngine(e))
    BY <1>1, <2>2 DEF Takings
  <2> QED
    BY <2>1, <2>2
<1>3. amounts = Takings(OfEngine(e))
  BY <1>2 DEF Takings
<1> QED
  BY <1>1, <1>3 DEF Taken

\* The ledger counts and adds up as the allocator does.
LEMMA LedgerCounts ==
  /\ \A S : Ledger!Cardinality(S) = Cardinality(S)
  /\ \A amounts, max : Ledger!Total(amounts, max) = Total(amounts, max)
<1>1. \A S : Ledger!Cardinality(S) = Cardinality(S)
  BY Zenon DEF Ledger!Cardinality, Cardinality
<1>2. \A amounts, max : Ledger!Coins(amounts, max) = Coins(amounts, max)
  BY Zenon DEF Ledger!Coins, Coins
<1> QED
  BY <1>1, <1>2, Zenon DEF Ledger!Total, Total

\* A grant takes from the ledger what it grants.
LEMMA GrantTakes ==
  ASSUME LedgerInv, TypeOK', NEW u \in Units, NEW o \in Opportunities, Grant(u, o)
  PROVE  Ledger!Take(u, o.engine, o.amount)
<1> USE AllocatorAssumption, NoneAssumption
<1> DEFINE e == o.engine
           S == OfEngine(e)
<1>1. e \in Engines /\ o.amount \in Nat /\ S \in SUBSET Opportunities
  BY CapSets
<1>2. /\ vectors' = vectors /\ held' = held /\ vectors[u] = NoRow /\ executor[u] = NoExecutor
      /\ executor' = [executor EXCEPT ![u] = [opp |-> o, phase |-> "executing"]]
      /\ [opp |-> o, phase |-> "executing"] \in Executor /\ Known(o)
  BY DEF Grant, Idle, Executor
<1>3. Entries[u] = NoRow
  BY <1>2 DEF Entries, Entry, AtStake
<1>4. e \in Paper =>
        Taken(S) + o.amount <= Percent(AllocationPct[e], PaperAllocation)
  <2> SUFFICES ASSUME e \in Paper
               PROVE  Taken(S) + o.amount <= Percent(AllocationPct[e], PaperAllocation)
    OBVIOUS
  <2>1. Gross(e) = Percent(AllocationPct[e], PaperAllocation) /\ Gross(e) \in Nat
    BY <1>1 DEF Gross, Percent, Allocation
  <2>2. Taken(S) <= Committed(e) /\ Committed(e) \in Nat /\ Taken(S) \in Nat
    BY <1>1, StakeCovered DEF Committed
  <2>3. ~(Committed(e) + o.amount > Gross(e))
    BY GrantChecks
  <2> HIDE DEF e, S
  <2> QED
    BY <1>1, <2>1, <2>2, <2>3
<1>5. StakeCount(S) < MaxConcurrent[e]
  <2>1. StakeCount(S) <= CountOpen(e) /\ CountOpen(e) \in Nat /\ StakeCount(S) \in Nat
    BY <1>1, StakeCovered DEF CountOpen
  <2>2. ~(CountOpen(e) >= MaxConcurrent[e]) /\ MaxConcurrent[e] \in Nat
    BY <1>1, GrantChecks
  <2> HIDE DEF e, S
  <2> QED
    BY <2>1, <2>2
<1>6. Entries' = [Entries EXCEPT ![u] = [engine |-> e, amount |-> o.amount]]
  <2>1. \A v \in Units \ {u} : Entry(v)' = Entry(v)
    BY <1>2 DEF Entry, AtStake, LedgerInv, TypeOK
  <2>2. executor'[u] = [opp |-> o, phase |-> "executing"] /\ executor'[u] # NoExecutor
    BY <1>2 DEF LedgerInv, TypeOK
  <2>3. Entry(u)' = [engine |-> e, amount |-> o.amount]
    BY <1>2, <2>2 DEF Entry, AtStake
  <2> HIDE DEF e
  <2> QED
    BY <2>1, <2>3 DEF Entries
<1>7. /\ Total([v \in Units |-> IF Entries[v] # NoRow /\ Entries[v].engine = e
                                  THEN Entries[v].amount ELSE 0], MaxAmount) = Taken(S)
      /\ Cardinality({v \in Units : Entries[v] # NoRow /\ Entries[v].engine = e})
           = StakeCount(S)
  BY <1>1, HeldIsTaken DEF StakeCount, LedgerInv
<1> HIDE DEF e, S
<1>8. Ledger!Held(e) = Taken(S) /\ Cardinality(Ledger!Holders(e)) = StakeCount(S)
  BY <1>7, LedgerCounts, Zenon DEF Ledger!Held, Ledger!Holders, Entries, Entry
<1>9. /\ [v \in Units |-> Entry(v)] = Entries
      /\ e \in Paper => [p \in Paper |-> Percent(AllocationPct[p], PaperAllocation)][e]
                          = Percent(AllocationPct[e], PaperAllocation)
  BY DEF Entries
<1>10. Ledger!Take(u, e, o.amount)
  <2>1. Entry(u) = NoRow
    BY <1>3 DEF Entries
  <2> QED
    BY <1>4, <1>5, <1>6, <1>8, <1>9, <2>1, LedgerCounts DEF Ledger!Take, Entries, Entry
<1> QED
  BY <1>10 DEF e

\* A step that grants nothing lets entries fall.
LEMMA OthersFall ==
  ASSUME LedgerInv, TypeOK', [Next]_vars,
         \A u \in Units, o \in Opportunities : ~Grant(u, o)
  PROVE  Ledger!Fall
<1> USE AllocatorAssumption, NoneAssumption
<1>1. Entries' \in [Units -> Holding \cup {NoRow}]
  <2> SUFFICES ASSUME NEW u \in Units PROVE Entry(u)' \in Holding \cup {NoRow}
    BY DEF Entries
  <2>1. /\ vectors'[u] # NoRow => /\ vectors'[u].opp \in Opportunities
                                  /\ held'[u] \in 0 .. MaxAmount
        /\ executor'[u] # NoExecutor => executor'[u].opp \in Opportunities
        /\ \A o \in Opportunities : o.engine \in Engines /\ o.amount \in 1 .. MaxAmount
    BY DEF TypeOK, Rows, Row, Executor, Opportunity
  <2> QED
    BY <2>1 DEF Entry, AtStake, Holding
<1>2. ASSUME NEW u \in Units
      PROVE  \/ Entries'[u] = Entries[u]
             \/ Entries'[u] = NoRow
             \/ /\ NoRow \notin {Entries[u], Entries'[u]}
                /\ Entries'[u].engine = Entries[u].engine
                /\ Entries'[u].amount <= Entries[u].amount
  <2>1. Settles(u) /\ Entries[u] = Entry(u) /\ Entries'[u] = Entry(u)'
    BY StepSettles DEF Entries
  <2>2. /\ vectors[u] # NoRow => vectors[u].opp \in Opportunities
        /\ vectors'[u] # NoRow => vectors'[u].opp \in Opportunities
        /\ executor[u] # NoExecutor => executor[u].opp \in Opportunities
    BY DEF LedgerInv, TypeOK, Rows, Row, Executor
  <2>3. CASE /\ vectors'[u] # NoRow /\ vectors[u] # NoRow
             /\ vectors'[u].opp = vectors[u].opp /\ held'[u] <= held[u]
    <3>1. /\ Entry(u) = [engine |-> vectors[u].opp.engine, amount |-> held[u]]
          /\ Entry(u)' = [engine |-> vectors'[u].opp.engine, amount |-> held'[u]]
      BY <2>2, <2>3 DEF Entry, AtStake
    <3>2. /\ vectors[u].opp.engine \in Engines /\ held[u] \in 0 .. MaxAmount
          /\ held'[u] \in 0 .. MaxAmount
      BY <2>2, <2>3, CapSets DEF LedgerInv, TypeOK
    <3>3. Entry(u) # NoRow /\ Entry(u)' # NoRow
      BY <2>3, <3>1, <3>2
    <3> QED
      BY <2>1, <2>3, <3>1, <3>3
  <2>4. CASE /\ vectors'[u] # NoRow /\ vectors[u] = NoRow
             /\ executor[u] # NoExecutor /\ executor[u].phase = "executing"
             /\ vectors'[u].opp = executor[u].opp
             /\ held'[u] <= executor[u].opp.amount
    <3>1. /\ Entry(u) = [engine |-> executor[u].opp.engine,
                         amount |-> executor[u].opp.amount]
          /\ Entry(u)' = [engine |-> vectors'[u].opp.engine, amount |-> held'[u]]
      BY <2>2, <2>4 DEF Entry, AtStake
    <3>2. Entry(u) # NoRow
      BY <2>2, <2>4, EntryIs DEF AtStake, LedgerInv
    <3>3. Entry(u)' # NoRow
      <4>1. vectors'[u].opp.engine \in Engines /\ held'[u] \in 0 .. MaxAmount
        BY <2>2, <2>4, CapSets DEF TypeOK, Rows, Row
      <4> QED
        BY <3>1, <4>1
    <3> QED
      BY <2>1, <2>4, <3>1, <3>2, <3>3
  <2>5. CASE /\ vectors'[u] = NoRow
             /\ executor'[u] # NoExecutor /\ executor'[u].phase = "executing" =>
                  executor'[u] = executor[u] /\ vectors[u] = NoRow
    <3>1. CASE AtStake(u, Opportunities)'
      BY <2>1, <2>2, <2>5, <3>1 DEF Entry, AtStake
    <3>2. CASE ~AtStake(u, Opportunities)'
      BY <2>1, <3>2 DEF Entry
    <3> QED
      BY <3>1, <3>2
  <2> QED
    BY <2>1, <2>3, <2>4, <2>5 DEF Settles, Executing
<1> QED
  BY <1>1, <1>2 DEF Ledger!Fall, Ledger!Holding, Entries, Entry, Holding

\* The allocator implements CapacityLedger: units take within budget and places, one
\* at a time, and what they hold otherwise only falls.
THEOREM LedgerImplemented ==
  ASSUME ~MayOverrun PROVE Spec => ImplementsLedger
<1>1. Init => Ledger!Init
  BY DEF Init, Ledger!Init, AtStake
<1>2. ASSUME LedgerInv, TypeOK', [Next]_vars PROVE Ledger!Next
  <2>1. ASSUME NEW u \in Units, NEW o \in Opportunities, Grant(u, o) PROVE Ledger!Next
    <3>1. o.engine \in Engines /\ o.amount \in 1 .. MaxAmount
      BY AllocatorAssumption DEF Opportunity
    <3>2. Ledger!Take(u, o.engine, o.amount)
      BY <1>2, <2>1, GrantTakes
    <3> QED
      BY <3>1, <3>2 DEF Ledger!Next
  <2>2. CASE \A u \in Units, o \in Opportunities : ~Grant(u, o)
    BY <1>2, <2>2, OthersFall DEF Ledger!Next
  <2> QED
    BY <2>1, <2>2
<1> QED
  BY <1>1, <1>2, LedgerInvariant, TypeCorrect, PTL DEF Spec, ImplementsLedger, Ledger!Spec
=============================================================================
