----------------------- MODULE MetricConsensusProofs -----------------------
(***************************************************************************)
(* For any number of feeds, liars and outages, and whatever the limits: a  *)
(* feed that is warm has warmed up on its latest connection.               *)
(***************************************************************************)
EXTENDS MetricConsensus, FiniteSetTheorems, WellFoundedInduction, TLAPS

Ticks == [ts: 0 .. MaxNow, metric: Metrics]

\* The ticks an exchange that does not lie may have sent.
HonestTicks == {t \in Ticks : t.ts \in 0 .. now /\ t.metric = Truth(t.ts)}

Honest == \A f \in Feeds \ Liars : feed[f].history \in Seq(HonestTicks)

IInv == TypeOK /\ WarmIsOfThisConnection
CInv == Honest /\ ConsensusTrue

-----------------------------------------------------------------------------
(* The median *)

\* A set of natural numbers that is not empty has a least element.
LEMMA Least ==
  ASSUME NEW S \in SUBSET Nat, S # {}
  PROVE  \E n \in S : \A m \in S : n <= m
<1>1. \E n \in S : \A m \in S : ~(<<m, n>> \in OpToRel(<, Nat))
  <2>1. IsWellFoundedOn(OpToRel(<, Nat), Nat)
    BY NatLessThanWellFounded
  <2> DEFINE R == OpToRel(<, Nat)
  <2> HIDE DEF R
  <2>2. IsWellFoundedOn(R, Nat)
    BY <2>1 DEF R
  <2>3. \E x \in S : \A y \in S : ~(<<y, x>> \in R)
    BY <2>2, WFMin
  <2> QED
    BY <2>3 DEF R
<1>2. PICK n \in S : \A m \in S : ~(<<m, n>> \in OpToRel(<, Nat))
  BY <1>1
<1>3. \A m \in S : ~(m < n)
  BY <1>2 DEF OpToRel
<1> QED
  BY <1>3

\* How many of a set have a metric up to a limit, and how many one below it.
UpTo(B, xs, x) == {i \in B : xs[i] <= x}
Below(B, xs, x) == {i \in B : xs[i] < x}

LEMMA PartsFinite ==
  ASSUME NEW B, IsFiniteSet(B), NEW C \in SUBSET B
  PROVE  /\ IsFiniteSet(C) /\ Cardinality(C) \in Nat /\ Cardinality(B) \in Nat
         /\ Cardinality(C) <= Cardinality(B)
BY FS_Subset, FS_CardinalityType

\* Of finitely many metrics one is the greatest: that below which there are most.
LEMMA Greatest ==
  ASSUME NEW B, IsFiniteSet(B), B # {}, NEW xs, \A i \in B : xs[i] \in Nat
  PROVE  \E i \in B : \A j \in B : xs[j] <= xs[i]
<1> DEFINE Above == {Cardinality(B) - Cardinality(UpTo(B, xs, xs[i])) : i \in B}
<1>1. ASSUME NEW i \in B
      PROVE  /\ IsFiniteSet(UpTo(B, xs, xs[i])) /\ Cardinality(UpTo(B, xs, xs[i])) \in Nat
             /\ Cardinality(UpTo(B, xs, xs[i])) <= Cardinality(B) /\ Cardinality(B) \in Nat
  <2>1. UpTo(B, xs, xs[i]) \in SUBSET B
    BY DEF UpTo
  <2> QED
    BY <2>1, PartsFinite
<1>2. Above \in SUBSET Nat /\ Above # {}
  BY <1>1
<1> HIDE DEF Above
<1>3. PICK a \in Above : \A b \in Above : a <= b
  BY <1>2, Least
<1> USE DEF Above
<1>4. PICK i \in B : a = Cardinality(B) - Cardinality(UpTo(B, xs, xs[i]))
  BY <1>3
<1>5. ASSUME NEW j \in B PROVE xs[j] <= xs[i]
  <2>1. SUFFICES ASSUME xs[i] < xs[j] PROVE FALSE
    OBVIOUS
  <2>2. /\ UpTo(B, xs, xs[i]) \cup {j} \in SUBSET UpTo(B, xs, xs[j])
        /\ j \notin UpTo(B, xs, xs[i])
    BY <2>1 DEF UpTo
  <2>3. Cardinality(UpTo(B, xs, xs[i]) \cup {j}) = Cardinality(UpTo(B, xs, xs[i])) + 1
    BY <1>1, <2>2, FS_AddElement
  <2>4. Cardinality(UpTo(B, xs, xs[i]) \cup {j}) <= Cardinality(UpTo(B, xs, xs[j]))
    BY <1>1, <2>2, FS_Subset
  <2>5. a <= Cardinality(B) - Cardinality(UpTo(B, xs, xs[j]))
    BY <1>3
  <2> QED
    BY <1>1, <1>4, <2>3, <2>4, <2>5
<1> QED
  BY <1>5

\* The metric at a place: so many are up to it, and fewer are below it.
LEMMA AtPlaceIs ==
  ASSUME NEW D, IsFiniteSet(D), NEW xs \in [D -> Nat], NEW k \in 1 .. Cardinality(D)
  PROVE  /\ AtPlace(xs, k) \in Nat /\ \E l \in D : AtPlace(xs, k) = xs[l]
         /\ Cardinality(UpTo(D, xs, AtPlace(xs, k))) >= k
         /\ Cardinality(Below(D, xs, AtPlace(xs, k))) < k
         /\ \A i \in D : Cardinality(UpTo(D, xs, xs[i])) >= k => AtPlace(xs, k) <= xs[i]
<1> DEFINE S == {x \in Range(xs) : Cardinality(UpTo(D, xs, x)) >= k}
           m == AtPlace(xs, k)
<1>0. Cardinality(D) \in Nat /\ D # {}
  BY FS_CardinalityType, FS_EmptySet
<1>1. Range(xs) = {xs[i] : i \in D} /\ Range(xs) \subseteq Nat
  BY DEF Range
<1>2. S # {}
  <2>1. PICK i \in D : \A j \in D : xs[j] <= xs[i]
    BY <1>0, Greatest
  <2>2. UpTo(D, xs, xs[i]) = D
    BY <2>1 DEF UpTo
  <2> QED
    BY <1>0, <1>1, <2>2
<1>3. m = Min(S)
  BY DEF AtPlace, UpTo
<1>4. S \in SUBSET Nat
  BY <1>1
<1> HIDE DEF S, m
<1>5. m \in S /\ \A x \in S : m <= x
  <2>1. \E n \in S : \A x \in S : n <= x
    BY <1>2, <1>4, Least
  <2> QED
    BY <1>3, <2>1 DEF Min
<1>6. /\ m \in Nat /\ \E l \in D : m = xs[l]
      /\ Cardinality(UpTo(D, xs, m)) >= k
      /\ \A i \in D : Cardinality(UpTo(D, xs, xs[i])) >= k => m <= xs[i]
  BY <1>1, <1>4, <1>5 DEF S
<1>7. Cardinality(Below(D, xs, m)) < k
  <2> DEFINE B == Below(D, xs, m)
  <2>1. B \in SUBSET D /\ IsFiniteSet(B) /\ Cardinality(B) \in Nat
    <3>1. B \in SUBSET D
      BY DEF Below
    <3> QED
      BY <3>1, PartsFinite
  <2>2. CASE B = {}
    BY <2>2, FS_EmptySet
  <2>3. CASE B # {}
    <3>1. PICK i \in B : \A j \in B : xs[j] <= xs[i]
      BY <2>1, <2>3, Greatest
    <3>2. i \in D /\ xs[i] < m
      BY <3>1 DEF Below
    <3>3. B \in SUBSET UpTo(D, xs, xs[i]) /\ UpTo(D, xs, xs[i]) \in SUBSET D
      BY <2>1, <3>1 DEF UpTo
    <3>4. /\ IsFiniteSet(UpTo(D, xs, xs[i])) /\ Cardinality(UpTo(D, xs, xs[i])) \in Nat
          /\ Cardinality(B) <= Cardinality(UpTo(D, xs, xs[i]))
      BY <3>3, PartsFinite
    <3>5. ~(Cardinality(UpTo(D, xs, xs[i])) >= k)
      BY <1>6, <3>2
    <3> QED
      BY <2>1, <3>4, <3>5
  <2> QED
    BY <2>2, <2>3
<1> QED
  BY <1>6, <1>7 DEF m

\* A set that is larger than another has a member that is not in it.
LEMMA Outvoted ==
  ASSUME NEW D, IsFiniteSet(D), NEW C \in SUBSET D, NEW L \in SUBSET D,
         Cardinality(C) > Cardinality(L)
  PROVE  \E i \in C : i \notin L
<1> SUFFICES ASSUME C \subseteq L PROVE FALSE
  OBVIOUS
<1>1. IsFiniteSet(L) /\ Cardinality(L) \in Nat
  BY PartsFinite
<1>2. Cardinality(C) \in Nat /\ Cardinality(C) <= Cardinality(L)
  BY <1>1, PartsFinite
<1> QED
  BY <1>1, <1>2

\* Whichever fewer than half of the metrics are wrong, the median lies between two
\* that are not.
LEMMA MedianBetween ==
  ASSUME NEW D, IsFiniteSet(D), NEW xs \in [D -> Nat], NEW L \in SUBSET D,
         2 * Cardinality(L) < Cardinality(D)
  PROVE  \E i, j \in D \ L : 2 * xs[i] <= DoubledMedian(xs) /\ DoubledMedian(xs) <= 2 * xs[j]
<1> DEFINE n == Cardinality(D)
<1>1. n \in Nat /\ Cardinality(L) \in Nat /\ IsFiniteSet(L)
  BY PartsFinite
\* Up to a metric that is not below one of the first places there are enough,
<1>2. ASSUME NEW k \in 1 .. n, k > Cardinality(L)
      PROVE  \E i \in D \ L : xs[i] <= AtPlace(xs, k)
  <2> DEFINE C == UpTo(D, xs, AtPlace(xs, k))
  <2>1. C \in SUBSET D /\ Cardinality(C) >= k
    BY AtPlaceIs DEF UpTo
  <2>2. Cardinality(C) > Cardinality(L)
    <3>1. Cardinality(C) \in Nat
      BY <2>1, PartsFinite
    <3> QED
      BY <1>1, <1>2, <2>1, <3>1
  <2>3. \E i \in C : i \notin L
    BY <2>1, <2>2, Outvoted
  <2> QED
    BY <2>3 DEF UpTo
\* and so there are from one of the last.
<1>3. ASSUME NEW k \in 1 .. n, n - k + 1 > Cardinality(L)
      PROVE  \E j \in D \ L : AtPlace(xs, k) <= xs[j]
  <2> DEFINE B == Below(D, xs, AtPlace(xs, k))
             C == D \ B
  <2>1. AtPlace(xs, k) \in Nat /\ Cardinality(B) < k
    BY AtPlaceIs
  <2>2. B \in SUBSET D /\ IsFiniteSet(B) /\ Cardinality(B) \in Nat /\ D \cap B = B
    <3>1. B \in SUBSET D
      BY DEF Below
    <3> QED
      BY <3>1, PartsFinite
  <2>3. Cardinality(C) = n - Cardinality(B)
    BY <2>2, FS_Difference
  <2>4. Cardinality(C) > Cardinality(L)
    BY <1>1, <1>3, <2>1, <2>2, <2>3
  <2>5. PICK j \in C : j \notin L
    <3>1. C \in SUBSET D
      OBVIOUS
    <3> HIDE DEF C
    <3> QED
      BY <2>4, <3>1, Outvoted
  <2>6. ~(xs[j] < AtPlace(xs, k)) /\ j \in D /\ xs[j] \in Nat
    BY <2>5 DEF Below
  <2> QED
    BY <2>1, <2>5, <2>6
<1>4. DoubledMedian(xs) = IF n % 2 = 1 THEN 2 * AtPlace(xs, (n + 1) \div 2)
                          ELSE AtPlace(xs, n \div 2) + AtPlace(xs, n \div 2 + 1)
  BY DEF DoubledMedian
<1> HIDE DEF n
<1>5. CASE n % 2 = 1
  <2> DEFINE k == (n + 1) \div 2
  <2>1. k \in 1 .. n /\ k > Cardinality(L) /\ n - k + 1 > Cardinality(L)
    BY <1>1, <1>5 DEF n
  <2> HIDE DEF k
  <2>2. PICK i \in D \ L : xs[i] <= AtPlace(xs, k)
    BY <1>2, <2>1
  <2>3. PICK j \in D \ L : AtPlace(xs, k) <= xs[j]
    BY <1>3, <2>1
  <2>4. AtPlace(xs, k) \in Nat
    BY <2>1, AtPlaceIs DEF n
  <2>5. DoubledMedian(xs) = 2 * AtPlace(xs, k)
    BY <1>4, <1>5 DEF k
  <2>6. 2 * xs[i] <= 2 * AtPlace(xs, k) /\ 2 * AtPlace(xs, k) <= 2 * xs[j]
    <3>1. xs[i] \in Nat /\ xs[j] \in Nat
      OBVIOUS
    <3> QED
      BY <2>2, <2>3, <2>4, <3>1
  <2> QED
    BY <2>5, <2>6
<1>6. CASE n % 2 # 1
  <2> DEFINE k == n \div 2
  <2>1. /\ k \in 1 .. n /\ k + 1 \in 1 .. n
        /\ k > Cardinality(L) /\ n - (k + 1) + 1 > Cardinality(L)
    <3>1. n = 2 * k /\ k \in Nat
      BY <1>1, <1>6
    <3>2. 2 * Cardinality(L) < n
      BY DEF n
    <3> HIDE DEF k
    <3> QED
      BY <1>1, <3>1, <3>2
  <2>2. DoubledMedian(xs) = AtPlace(xs, k) + AtPlace(xs, k + 1)
    BY <1>4, <1>6
  <2> HIDE DEF k
  <2>3. PICK i \in D \ L : xs[i] <= AtPlace(xs, k)
    BY <1>2, <2>1
  <2>4. PICK j \in D \ L : AtPlace(xs, k + 1) <= xs[j]
    BY <1>3, <2>1
  <2>5. /\ AtPlace(xs, k) \in Nat /\ AtPlace(xs, k + 1) \in Nat
        /\ AtPlace(xs, k) <= AtPlace(xs, k + 1)
    <3>1. /\ AtPlace(xs, k) \in Nat
          /\ \A l \in D : Cardinality(UpTo(D, xs, xs[l])) >= k => AtPlace(xs, k) <= xs[l]
      BY <2>1, AtPlaceIs DEF n
    <3>2. /\ AtPlace(xs, k + 1) \in Nat
          /\ Cardinality(UpTo(D, xs, AtPlace(xs, k + 1))) >= k + 1
      BY <2>1, AtPlaceIs DEF n
    <3>3. PICK l \in D : AtPlace(xs, k + 1) = xs[l]
      BY <2>1, AtPlaceIs DEF n
    <3>4. Cardinality(UpTo(D, xs, xs[l])) \in Nat
      <4>1. UpTo(D, xs, xs[l]) \in SUBSET D
        BY DEF UpTo
      <4> QED
        BY <4>1, PartsFinite
    <3>5. k \in Nat /\ Cardinality(UpTo(D, xs, xs[l])) >= k + 1
      BY <2>1, <3>2, <3>3
    <3>6. AtPlace(xs, k) <= xs[l]
      BY <3>1, <3>4, <3>5
    <3> QED
      BY <3>1, <3>2, <3>3, <3>6
  <2>6. /\ 2 * xs[i] <= AtPlace(xs, k) + AtPlace(xs, k + 1)
        /\ AtPlace(xs, k) + AtPlace(xs, k + 1) <= 2 * xs[j]
    <3>1. xs[i] \in Nat /\ xs[j] \in Nat
      OBVIOUS
    <3> QED
      BY <2>3, <2>4, <2>5, <3>1
  <2> QED
    BY <2>2, <2>6
<1> QED
  BY <1>5, <1>6

-----------------------------------------------------------------------------
(* What the operations of a feed do to it *)

\* The last ticks of a history are a history.
LEMMA NewestIs ==
  ASSUME NEW T, NEW s \in Seq(T), NEW n \in Nat \ {0}
  PROVE  Newest(s, n) \in Seq(T) /\ Len(Newest(s, n)) <= n
<1>1. CASE Len(s) <= n
  BY <1>1 DEF Newest
<1>2. CASE Len(s) > n
  <2>1. /\ Len(s) - n + 1 \in 1 .. Len(s) /\ Len(s) \in Nat
        /\ Newest(s, n) = SubSeq(s, Len(s) - n + 1, Len(s))
    BY <1>2 DEF Newest
  <2>2. SubSeq(s, Len(s) - n + 1, Len(s)) \in Seq(T)
    BY <2>1
  <2>3. Len(SubSeq(s, Len(s) - n + 1, Len(s))) = n
    BY <2>1
  <2> QED
    BY <2>1, <2>2, <2>3
<1> QED
  BY <1>1, <1>2

\* A connection starts the warm-up again.
LEMMA OnConnectIs ==
  ASSUME NEW f \in Feed
  PROVE  /\ OnConnect(f) \in Feed /\ OnConnect(f).history = f.history
         /\ ~OnConnect(f).warm
<1>1. PurgeCount \in 0 .. PurgeCount /\ 0 \in 0 .. WarmupMinTicks
  BY FeedAssumption
<1>2. OnConnect(f) = [f EXCEPT !.connected = TRUE, !.purge = PurgeCount,
                               !.since = 0, !.warm = FALSE]
  BY DEF OnConnect
<1> QED
  BY <1>1, <1>2 DEF Feed

\* A check of the warm-up changes nothing but that the feed may be warm, and then its
\* ticks of this connection are enough.
LEMMA CheckWarmupIs ==
  ASSUME NEW f \in Feed
  PROVE  /\ CheckWarmup(f) \in Feed
         /\ CheckWarmup(f).history = f.history /\ CheckWarmup(f).purge = f.purge
         /\ CheckWarmup(f).since = f.since
         /\ CheckWarmup(f).warm => f.warm \/ f.since >= WarmupMinTicks
<1>1. PICK w : /\ CheckWarmup(f) = [f EXCEPT !.warm = f.warm \/ w]
               /\ w \in BOOLEAN /\ (w => f.since >= WarmupMinTicks)
  <2> DEFINE recent == SelectSeq(f.history,
                         LAMBDA t : t.ts >= Last(f.history).ts - WarmupWindow)
             enough == /\ f.since >= WarmupMinTicks
                       /\ Len(recent) >= WarmupMinTicks
                       /\ Steady(MetricsOf(recent))
  <2>1. CheckWarmup(f) = [f EXCEPT !.warm = f.warm \/ enough]
    BY DEF CheckWarmup
  <2>2. enough \in BOOLEAN
    OBVIOUS
  <2>3. enough => f.since >= WarmupMinTicks
    OBVIOUS
  <2> HIDE DEF enough
  <2> QED
    BY <2>1, <2>2, <2>3
<1>2. f.warm \/ w \in BOOLEAN
  BY <1>1 DEF Feed
<1> QED
  BY <1>1, <1>2 DEF Feed

\* What becomes of a tick: thrown away while the cache is purged, rejected, or kept.
LEMMA HandleTickIs ==
  ASSUME NEW f \in Feed, NEW tick \in Ticks, Len(f.history) <= HistorySize
  PROVE  /\ HandleTick(f, tick) \in Feed /\ Len(HandleTick(f, tick).history) <= HistorySize
         /\ \A T : f.history \in Seq(T) /\ tick \in T => HandleTick(f, tick).history \in Seq(T)
         /\ f.purge > 0 => HandleTick(f, tick).warm = f.warm
         /\ f.purge = 0 /\ ~PassesVarianceGuard(f, tick.metric) => HandleTick(f, tick) = f
         /\ f.purge = 0 /\ PassesVarianceGuard(f, tick.metric) =>
              /\ HandleTick(f, tick).purge = 0
              /\ f.since >= WarmupMinTicks => HandleTick(f, tick).since >= WarmupMinTicks
              /\ HandleTick(f, tick).warm =>
                   f.warm \/ HandleTick(f, tick).since >= WarmupMinTicks
<1> USE FeedAssumption
<1>1. CASE f.purge > 0
  <2>1. HandleTick(f, tick) = [f EXCEPT !.purge = f.purge - 1]
    BY <1>1 DEF HandleTick
  <2>2. f.purge \in 0 .. PurgeCount /\ f.purge - 1 \in 0 .. PurgeCount /\ f.purge # 0
    BY <1>1 DEF Feed
  <2> QED
    BY <2>1, <2>2 DEF Feed
<1>2. CASE f.purge = 0 /\ ~PassesVarianceGuard(f, tick.metric)
  <2>1. HandleTick(f, tick) = f
    BY <1>2 DEF HandleTick
  <2> QED
    BY <1>2, <2>1
<1>3. CASE f.purge = 0 /\ PassesVarianceGuard(f, tick.metric)
  <2> DEFINE h == Newest(Append(f.history, tick), HistorySize)
             s == IF f.since < WarmupMinTicks THEN f.since + 1 ELSE f.since
             g == [f EXCEPT !.history = h, !.since = s]
  <2>1. HandleTick(f, tick) = CheckWarmup(g)
    BY <1>3 DEF HandleTick
  <2>0. ASSUME NEW T, f.history \in Seq(T), tick \in T
        PROVE  h \in Seq(T) /\ Len(h) <= HistorySize
    <3>1. Append(f.history, tick) \in Seq(T)
      BY <2>0
    <3> QED
      BY <3>1, NewestIs
  <2>2. h \in Seq(Ticks) /\ Len(h) <= HistorySize
    BY <2>0 DEF Feed, Ticks
  <2>3. s \in 0 .. WarmupMinTicks /\ (f.since >= WarmupMinTicks => s >= WarmupMinTicks)
    BY DEF Feed
  <2> HIDE DEF h, s
  <2>4. /\ g \in Feed /\ g.history = h /\ g.since = s /\ g.purge = f.purge /\ g.warm = f.warm
    BY <2>2, <2>3 DEF Feed, Ticks
  <2> HIDE DEF g
  <2> QED
    BY <1>3, <2>0, <2>1, <2>2, <2>3, <2>4, CheckWarmupIs
<1>4. f.purge > 0 \/ f.purge = 0
  BY DEF Feed
<1> QED
  BY <1>1, <1>2, <1>3, <1>4

-----------------------------------------------------------------------------
(* The invariant *)

\* Every initial state satisfies IInv.
LEMMA InitIInv == Init => IInv
<1> SUFFICES ASSUME Init PROVE IInv
  OBVIOUS
<1>1. PICK m \in Metrics : truth = <<m>>
  BY DEF Init
<1>2. truth \in Seq(Metrics) /\ now \in 0 .. MaxNow
  BY <1>1, ConsensusAssumption DEF now
<1>3. NewFeed \in Feed /\ Len(NewFeed.history) = 0 /\ ~NewFeed.warm
  BY FeedAssumption DEF NewFeed, Feed
<1> QED
  BY <1>2, <1>3, FeedAssumption DEF Init, IInv, TypeOK, WarmIsOfThisConnection

\* IInv is inductive.
LEMMA NextIInv == IInv /\ [Next]_vars => IInv'
<1> SUFFICES ASSUME IInv, [Next]_vars PROVE IInv'
  OBVIOUS
<1>0. /\ feed \in [Feeds -> Feed] /\ here \subseteq Feeds
      /\ \A f \in Feeds : Len(feed[f].history) <= HistorySize
      /\ truth \in Seq(Metrics) /\ now \in 0 .. MaxNow
  BY DEF IInv, TypeOK
<1>1. ASSUME NEW f \in Feeds, Connect(f) PROVE IInv'
  <2>1. /\ feed' = [feed EXCEPT ![f] = OnConnect(feed[f])] /\ here' = here \ {f}
        /\ UNCHANGED <<last, truth>>
    BY <1>1 DEF Connect
  <2>2. /\ OnConnect(feed[f]) \in Feed /\ ~OnConnect(feed[f]).warm
        /\ OnConnect(feed[f]).history = feed[f].history
    BY <1>0, OnConnectIs
  <2> QED
    BY <1>0, <2>1, <2>2 DEF IInv, TypeOK, WarmIsOfThisConnection, now
<1>2. ASSUME NEW f \in Feeds, NEW ts \in 0 .. now, NEW metric \in Metrics,
             Tick(f, ts, metric)
      PROVE  IInv'
  <2> DEFINE tick == [ts |-> ts, metric |-> metric]
             g == HandleTick(feed[f], tick)
  <2>1. /\ feed' = [feed EXCEPT ![f] = g] /\ UNCHANGED <<last, truth>>
        /\ here' = IF feed[f].purge = 0 /\ PassesVarianceGuard(feed[f], metric)
                   THEN here \cup {f} ELSE here
    BY <1>2 DEF Tick
  <2>2. now \in 0 .. MaxNow /\ ts \in 0 .. now
    BY <1>0
  <2>3. ts \in 0 .. MaxNow
    BY <2>2, ConsensusAssumption
  <2>4. tick \in Ticks /\ tick.metric = metric
    BY <2>3 DEF Ticks
  <2> HIDE DEF tick
  <2>5. /\ g \in Feed /\ Len(g.history) <= HistorySize
        /\ feed[f].purge > 0 => g.warm = feed[f].warm
        /\ feed[f].purge = 0 /\ ~PassesVarianceGuard(feed[f], metric) => g = feed[f]
        /\ feed[f].purge = 0 /\ PassesVarianceGuard(feed[f], metric) =>
             /\ g.purge = 0
             /\ feed[f].since >= WarmupMinTicks => g.since >= WarmupMinTicks
             /\ g.warm => feed[f].warm \/ g.since >= WarmupMinTicks
    BY <1>0, <2>4, HandleTickIs
  <2> HIDE DEF g
  <2>6. TypeOK'
    BY <1>0, <2>1, <2>5 DEF IInv, TypeOK, now
  <2>7. feed[f].purge > 0 \/ feed[f].purge = 0
    BY <1>0 DEF Feed
  <2>8. g.warm => f \in here' /\ g.purge = 0 /\ g.since >= WarmupMinTicks
    <3>1. feed[f].warm =>
            f \in here /\ feed[f].purge = 0 /\ feed[f].since >= WarmupMinTicks
      BY DEF IInv, WarmIsOfThisConnection
    <3> QED
      BY <2>1, <2>5, <2>7, <3>1
  <2>9. here \subseteq here'
    BY <2>1
  <2>10. WarmIsOfThisConnection'
    BY <1>0, <2>1, <2>8, <2>9 DEF IInv, WarmIsOfThisConnection
  <2> QED
    BY <2>6, <2>10 DEF IInv
<1>3. CASE Sample
  <2>1. last'.ts = now /\ UNCHANGED <<feed, truth, here>>
    BY <1>3 DEF Sample
  <2> QED
    BY <1>0, <2>1 DEF IInv, TypeOK, WarmIsOfThisConnection, now
<1>4. ASSUME NEW metric \in Metrics, TimePasses(metric) PROVE IInv'
  <2>1. truth' = Append(truth, metric) /\ now < MaxNow /\ UNCHANGED <<feed, last, here>>
    BY <1>4 DEF TimePasses
  <2>2. truth' \in Seq(Metrics) /\ now' = now + 1 /\ now' \in 0 .. MaxNow
    BY <1>0, <2>1, ConsensusAssumption DEF now
  <2>3. TypeOK'
    BY <1>0, <2>1, <2>2 DEF IInv, TypeOK
  <2> QED
    BY <2>1, <2>3 DEF IInv, WarmIsOfThisConnection
<1>5. CASE UNCHANGED vars
  BY <1>5 DEF vars, IInv, TypeOK, WarmIsOfThisConnection, now
<1> QED
  BY <1>1, <1>2, <1>3, <1>4, <1>5 DEF Next

-----------------------------------------------------------------------------
(* The consensus is true *)

\* At first nothing was sent and nothing is kept.
LEMMA InitCInv == Init => CInv
<1> SUFFICES ASSUME Init PROVE CInv
  OBVIOUS
<1>1. last = NoSnapshot /\ \A f \in Feeds : feed[f].history = <<>>
  BY DEF Init, NewFeed
<1>2. <<>> \in Seq(HonestTicks)
  OBVIOUS
<1> QED
  BY <1>1, <1>2 DEF CInv, Honest, ConsensusTrue

\* A fresh feed that does not lie shows a metric that was true within the freshness.
LEMMA FreshIsTrue ==
  ASSUME TypeOK, Honest, NEW f \in Fresh, f \notin Liars
  PROVE  \E t \in now - FreshnessMax .. now : t >= 0 /\ WarmMetrics[f] = Truth(t)
<1> DEFINE h == feed[f].history
<1>1. h \in Seq(HonestTicks) /\ h # <<>> /\ now - Last(h).ts <= FreshnessMax
  BY DEF Fresh, IsFresh, Honest
<1>2. WarmMetrics[f] = Last(h).metric
  BY DEF WarmMetrics
<1> HIDE DEF h
<1>3. Last(h) \in HonestTicks
  BY <1>1 DEF Last
<1>4. Last(h).ts \in 0 .. now /\ Last(h).metric = Truth(Last(h).ts)
  BY <1>3 DEF HonestTicks
<1>5. now \in Nat
  BY DEF TypeOK
<1> QED
  BY <1>1, <1>2, <1>4, <1>5, FeedAssumption

\* What the sampler takes lies between metrics that were true within the freshness.
LEMMA SampleIsTrue ==
  ASSUME TypeOK, Honest, Cardinality(Fresh) >= MinQuorum, 2 * Cardinality(Liars) < MinQuorum
  PROVE  TrueBetween(DoubledMedian(WarmMetrics), now - FreshnessMax, now)
<1> DEFINE L == Fresh \cap Liars
<1>1. /\ IsFiniteSet(Fresh) /\ Cardinality(Fresh) \in Nat /\ IsFiniteSet(Liars)
      /\ Cardinality(Liars) \in Nat /\ L \in SUBSET Fresh
  <2>1. Fresh \in SUBSET Feeds /\ Liars \in SUBSET Feeds /\ IsFiniteSet(Feeds)
    BY ConsensusAssumption DEF Fresh
  <2> QED
    BY <2>1, PartsFinite
<1>2. Cardinality(L) \in Nat /\ Cardinality(L) <= Cardinality(Liars)
  <2>1. L \in SUBSET Liars
    OBVIOUS
  <2> QED
    BY <1>1, <2>1, PartsFinite
<1>3. 2 * Cardinality(L) < Cardinality(Fresh)
  BY <1>1, <1>2, ConsensusAssumption
<1>4. WarmMetrics \in [Fresh -> Nat]
  <2>1. ASSUME NEW f \in Fresh PROVE Last(feed[f].history).metric \in Nat
    <3>1. feed[f].history \in Seq(Ticks) /\ feed[f].history # <<>>
      BY DEF TypeOK, Feed, Ticks, Fresh, IsFresh
    <3>2. Last(feed[f].history) \in Ticks
      BY <3>1 DEF Last
    <3> QED
      BY <3>2, FeedAssumption DEF Ticks
  <2> QED
    BY <2>1 DEF WarmMetrics
<1>5. PICK i, j \in Fresh \ L : /\ 2 * WarmMetrics[i] <= DoubledMedian(WarmMetrics)
                                /\ DoubledMedian(WarmMetrics) <= 2 * WarmMetrics[j]
  BY <1>1, <1>3, <1>4, MedianBetween
<1>6. PICK s \in now - FreshnessMax .. now : s >= 0 /\ WarmMetrics[i] = Truth(s)
  BY <1>5, FreshIsTrue
<1>7. PICK t \in now - FreshnessMax .. now : t >= 0 /\ WarmMetrics[j] = Truth(t)
  BY <1>5, FreshIsTrue
<1> QED
  BY <1>5, <1>6, <1>7 DEF TrueBetween

\* Ticks stay what they were, and so does what was true; a new sample is true.
LEMMA NextCInv == IInv /\ CInv /\ [Next]_vars => CInv'
<1> SUFFICES ASSUME IInv, CInv, [Next]_vars PROVE CInv'
  OBVIOUS
<1>0. /\ feed \in [Feeds -> Feed] /\ truth \in Seq(Metrics) /\ now \in 0 .. MaxNow
      /\ last # NoSnapshot => last.ts \in 0 .. now
      /\ \A f \in Feeds : Len(feed[f].history) <= HistorySize
      /\ \A f \in Feeds \ Liars : feed[f].history \in Seq(HonestTicks)
  BY DEF IInv, CInv, TypeOK, Honest
<1>1. ASSUME UNCHANGED truth PROVE HonestTicks' = HonestTicks
  BY <1>1 DEF HonestTicks, now, Truth
<1>2. ASSUME UNCHANGED <<last, truth>> PROVE ConsensusTrue'
  BY <1>2 DEF CInv, ConsensusTrue, TrueBetween, Truth
<1>3. ASSUME NEW f \in Feeds, Connect(f) PROVE CInv'
  <2>1. feed' = [feed EXCEPT ![f] = OnConnect(feed[f])] /\ UNCHANGED <<last, truth>>
    BY <1>3 DEF Connect
  <2>2. OnConnect(feed[f]).history = feed[f].history
    BY <1>0, OnConnectIs
  <2> QED
    BY <1>0, <1>1, <1>2, <2>1, <2>2 DEF CInv, Honest
<1>4. ASSUME NEW f \in Feeds, NEW ts \in 0 .. now, NEW metric \in Metrics,
             Tick(f, ts, metric)
      PROVE  CInv'
  <2> DEFINE tick == [ts |-> ts, metric |-> metric]
             g == HandleTick(feed[f], tick)
  <2>1. /\ feed' = [feed EXCEPT ![f] = g] /\ UNCHANGED <<last, truth>>
        /\ f \notin Liars => metric = Truth(ts)
    BY <1>4 DEF Tick
  <2>2. tick \in Ticks
    <3>1. ts \in 0 .. MaxNow
      BY <1>0, ConsensusAssumption
    <3> QED
      BY <3>1 DEF Ticks
  <2>3. f \notin Liars => tick \in HonestTicks
    BY <2>1, <2>2 DEF HonestTicks
  <2> HIDE DEF tick
  <2>4. \A T : feed[f].history \in Seq(T) /\ tick \in T => g.history \in Seq(T)
    BY <1>0, <2>2, HandleTickIs
  <2> HIDE DEF g
  <2>5. f \notin Liars => g.history \in Seq(HonestTicks)
    BY <1>0, <2>3, <2>4
  <2> QED
    BY <1>0, <1>1, <1>2, <2>1, <2>5 DEF CInv, Honest
<1>5. CASE Sample
  <2>1. /\ last' = [ts |-> now, doubled |-> DoubledMedian(WarmMetrics)]
        /\ Cardinality(Fresh) >= MinQuorum /\ UNCHANGED <<feed, truth, here>>
    BY <1>5 DEF Sample, MedianDoubled
  <2>2. 2 * Cardinality(Liars) < MinQuorum =>
          TrueBetween(last'.doubled, last'.ts - FreshnessMax, last'.ts)
    BY <2>1, SampleIsTrue DEF IInv, CInv
  <2>3. ConsensusTrue'
    BY <2>1, <2>2 DEF ConsensusTrue, TrueBetween, Truth
  <2> QED
    BY <1>0, <1>1, <2>1, <2>3 DEF CInv, Honest
<1>6. ASSUME NEW metric \in Metrics, TimePasses(metric) PROVE CInv'
  <2>1. truth' = Append(truth, metric) /\ UNCHANGED <<feed, last, here>>
    BY <1>6 DEF TimePasses
  <2>2. now' = now + 1 /\ \A t \in 0 .. now : Truth(t)' = Truth(t)
    BY <1>0, <2>1 DEF now, Truth
  <2>3. HonestTicks \subseteq HonestTicks'
    BY <1>0, <2>2 DEF HonestTicks
  <2>4. Honest'
    <3>1. ASSUME NEW s \in Seq(HonestTicks) PROVE s \in Seq(HonestTicks')
      BY <2>3
    <3> QED
      BY <1>0, <2>1, <3>1 DEF Honest
  <2>5. ConsensusTrue'
    <3>1. SUFFICES ASSUME 2 * Cardinality(Liars) < MinQuorum, last # NoSnapshot
                   PROVE  TrueBetween(last.doubled, last.ts - FreshnessMax, last.ts)'
      BY <2>1 DEF ConsensusTrue
    <3>2. PICK s, t \in last.ts - FreshnessMax .. last.ts :
            /\ s >= 0 /\ t >= 0
            /\ 2 * Truth(s) <= last.doubled /\ last.doubled <= 2 * Truth(t)
      BY <3>1 DEF CInv, ConsensusTrue, TrueBetween
    <3>3. s \in 0 .. now /\ t \in 0 .. now
      <4>1. now \in Nat /\ FreshnessMax \in Nat /\ last.ts \in 0 .. now
        BY <1>0, <3>1, FeedAssumption
      <4> HIDE DEF now
      <4> QED
        BY <3>2, <4>1
    <3>4. truth'[s + 1] = truth[s + 1] /\ truth'[t + 1] = truth[t + 1]
      BY <2>2, <3>3 DEF Truth
    <3> QED
      BY <2>1, <3>2, <3>4 DEF TrueBetween, Truth
  <2> QED
    BY <2>4, <2>5 DEF CInv
<1>7. CASE UNCHANGED vars
  BY <1>0, <1>1, <1>2, <1>7 DEF vars, CInv, Honest
<1> QED
  BY <1>3, <1>4, <1>5, <1>6, <1>7 DEF Next

\* A sample that is fresh was taken within the freshness, of metrics within it.
LEMMA FreshSampleIsRecent == TypeOK /\ ConsensusTrue => FreshIsRecent
<1> SUFFICES ASSUME TypeOK, ConsensusTrue, 2 * Cardinality(Liars) < MinQuorum, ConsensusFresh
             PROVE  TrueBetween(last.doubled, now - 2 * FreshnessMax, now)
  BY DEF FreshIsRecent
<1>1. last # NoSnapshot /\ now - last.ts <= FreshnessMax
  BY DEF ConsensusFresh
<1>2. last.ts \in 0 .. now /\ now \in Nat /\ FreshnessMax \in Nat
  BY <1>1, FeedAssumption DEF TypeOK
<1>3. PICK s, t \in last.ts - FreshnessMax .. last.ts :
        /\ s >= 0 /\ t >= 0 /\ 2 * Truth(s) <= last.doubled /\ last.doubled <= 2 * Truth(t)
  BY <1>1 DEF ConsensusTrue, TrueBetween
<1>4. s \in now - 2 * FreshnessMax .. now /\ t \in now - 2 * FreshnessMax .. now
  BY <1>1, <1>2, <1>3
<1> QED
  BY <1>3, <1>4 DEF TrueBetween

-----------------------------------------------------------------------------
(* The theorems *)

\* Every variable keeps its type.
THEOREM TypeCorrect == Spec => []TypeOK
<1>1. IInv => TypeOK
  BY DEF IInv
<1> QED
  BY <1>1, InitIInv, NextIInv, PTL DEF Spec

\* What a warm feed shows came on its latest connection, after that connection's first
\* ticks were thrown away and enough others were kept.
THEOREM WarmIsOfThisConnectionHolds == Spec => []WarmIsOfThisConnection
<1>1. IInv => WarmIsOfThisConnection
  BY DEF IInv
<1> QED
  BY <1>1, InitIInv, NextIInv, PTL DEF Spec

\* While the liars are fewer than half of a quorum, what the sampler keeps lies between
\* true metrics that were no older than the freshness when it was kept.
THEOREM ConsensusTrueHolds == Spec => []ConsensusTrue
<1>1. CInv => ConsensusTrue
  BY DEF CInv
<1> QED
  BY <1>1, InitIInv, NextIInv, InitCInv, NextCInv, PTL DEF Spec

\* Whoever asks is_fresh and uses the last sample uses a metric that is true within
\* twice the freshness.
THEOREM FreshIsRecentHolds == Spec => []FreshIsRecent
<1>1. IInv /\ CInv => FreshIsRecent
  BY FreshSampleIsRecent DEF IInv, CInv
<1> QED
  BY <1>1, InitIInv, NextIInv, InitCInv, NextCInv, PTL DEF Spec
=============================================================================
