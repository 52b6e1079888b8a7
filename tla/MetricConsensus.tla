--------------------------- MODULE MetricConsensus ---------------------------
(***************************************************************************)
(* ingestion/metric_consensus.py over its feeds: a sampler takes the       *)
(* median of the feeds that are fresh, if they are a quorum, and the rest  *)
(* of the program asks for the last sample and whether it is fresh.        *)
(*                                                                         *)
(* The exchanges are external.  They report the true metric of some moment *)
(* with the time of that moment, however late and in whatever order, but   *)
(* for the liars, which report anything.  One unit of time separates two   *)
(* values of the truth.                                                    *)
(***************************************************************************)
EXTENDS MetricFeed

CONSTANTS
  Feeds,      \* the exchanges
  Liars,      \* those that may report anything
  MinQuorum,  \* min_quorum
  MaxNow,     \* bound: the last moment
  NoSnapshot

ASSUME ConsensusAssumption ==
  /\ Liars \subseteq Feeds /\ IsFiniteSet(Feeds)
  /\ MinQuorum \in Nat \ {0} /\ MaxNow \in Nat

VARIABLES
  feed,    \* metric_feeds
  last,    \* the last snapshot of _history
  truth,   \* external: the true metrics of the moments 0 .. now
  here     \* history: the feeds whose last tick came on the latest connection

vars == <<feed, last, truth, here>>

now == Len(truth) - 1
Truth(t) == truth[t + 1]

-----------------------------------------------------------------------------
(* What the program asks *)

\* The median of feeds, doubled; the mutant takes the highest.
HighestDoubled(xs) == 2 * AtPlace(xs, Cardinality(DOMAIN xs))
MedianDoubled(xs) == DoubledMedian(xs)

Fresh == {f \in Feeds : IsFresh(feed[f], now)}
WarmMetrics == [f \in Fresh |-> Last(feed[f].history).metric]

\* is_fresh of the consensus; the mutant forgets the age of the sample.
ConsensusFreshAnyAge == Cardinality(Fresh) >= MinQuorum /\ last # NoSnapshot
ConsensusFresh ==
  /\ Cardinality(Fresh) >= MinQuorum
  /\ last # NoSnapshot
  /\ now - last.ts <= FreshnessMax

-----------------------------------------------------------------------------
(* Actions *)

\* A connection, the first or the one after an outage: in between the feed is
\* only silent.
Connect(f) ==
  /\ feed' = [feed EXCEPT ![f] = OnConnect(@)]
  /\ here' = here \ {f}
  /\ UNCHANGED <<last, truth>>

Tick(f, ts, metric) ==
  /\ feed[f].connected
  /\ f \notin Liars => metric = Truth(ts)
  /\ feed' = [feed EXCEPT ![f] = HandleTick(@, [ts |-> ts, metric |-> metric])]
  /\ here' = IF feed[f].purge = 0 /\ PassesVarianceGuard(feed[f], metric)
             THEN here \cup {f} ELSE here
  /\ UNCHANGED <<last, truth>>

\* _sample_loop
Sample ==
  /\ Cardinality(Fresh) >= MinQuorum
  /\ last' = [ts |-> now, doubled |-> MedianDoubled(WarmMetrics)]
  /\ UNCHANGED <<feed, truth, here>>

TimePasses(metric) ==
  /\ now < MaxNow
  /\ truth' = Append(truth, metric)
  /\ UNCHANGED <<feed, last, here>>

Init ==
  /\ feed = [f \in Feeds |-> NewFeed]
  /\ last = NoSnapshot
  /\ truth \in {<<m>> : m \in Metrics}
  /\ here = {}

Next ==
  \/ \E f \in Feeds : Connect(f)
  \/ \E f \in Feeds, ts \in 0 .. now, metric \in Metrics : Tick(f, ts, metric)
  \/ Sample
  \/ \E metric \in Metrics : TimePasses(metric)

Spec == Init /\ [][Next]_vars

-----------------------------------------------------------------------------
(* Properties *)

Feed ==
  [history: Seq([ts: 0 .. MaxNow, metric: Metrics]), purge: 0 .. PurgeCount,
   since: 0 .. WarmupMinTicks, warm: BOOLEAN, connected: BOOLEAN]

TypeOK ==
  /\ feed \in [Feeds -> Feed]
  /\ \A f \in Feeds : Len(feed[f].history) <= HistorySize
  /\ last # NoSnapshot => last.ts \in 0 .. now
  /\ truth \in Seq(Metrics) /\ now \in 0 .. MaxNow /\ here \subseteq Feeds

\* What a warm feed shows came on its latest connection, after that connection's
\* first ticks: a metric of before an outage is never shown as one of after it,
\* although the history that guards it is kept (_on_connect, _check_warmup).
WarmIsOfThisConnection ==
  \A f \in Feeds : feed[f].warm =>
    f \in here /\ feed[f].purge = 0 /\ feed[f].since >= WarmupMinTicks

\* The doubled metric lies between two true metrics of the moments in between.
TrueBetween(doubled, from, to) ==
  \E s, t \in from .. to :
    s >= 0 /\ t >= 0 /\ 2 * Truth(s) <= doubled /\ doubled <= 2 * Truth(t)

\* While the liars are fewer than half of a quorum, what the sampler keeps lies
\* between true metrics that were no older than the freshness when it was kept:
\* no liar, no late tick and no cached one moves it out of that range.
ConsensusTrue ==
  2 * Cardinality(Liars) < MinQuorum /\ last # NoSnapshot =>
    TrueBetween(last.doubled, last.ts - FreshnessMax, last.ts)

\* Whoever asks is_fresh and uses the last sample uses a metric that is true
\* within twice the freshness: each of the two checks of an age adds one.
FreshIsRecent ==
  2 * Cardinality(Liars) < MinQuorum /\ ConsensusFresh =>
    TrueBetween(last.doubled, now - 2 * FreshnessMax, now)
=============================================================================
