----------------------------- MODULE MetricFeed -----------------------------
(***************************************************************************)
(* ingestion/exchange_feeds/base.py: what a feed does with the ticks of    *)
(* its exchange.  Of a new connection it throws the first ticks away       *)
(* (they may come from a cache), it rejects a metric too far from the      *)
(* median of those it accepted before, on whatever connection, and it is   *)
(* warm once enough accepted ticks of the connection lie close together.   *)
(*                                                                         *)
(* A feed is a record, and each operation of the code one of its values:   *)
(* the actions are in MetricConsensus.  Metrics are whole numbers, so that *)
(* a deviation in basis points is compared without division.               *)
(***************************************************************************)
EXTENDS Integers, FiniteSets, SequencesExt

CONSTANTS
  Metrics,           \* the metrics a tick may carry
  Scale,             \* in what deviations are measured: 10 000 for basis points
  WarmupMinTicks,    \* warmup_min_ticks
  WarmupMax,         \* warmup_max_var_bps
  WarmupWindow,      \* warmup_window_sec
  VarianceMax,       \* variance_max_bps
  VarianceWindow,    \* variance_window_ticks
  GuardMin,          \* the 4 below which the guard lets everything pass
  PurgeCount,        \* cache_purge_count
  HistorySize,       \* history_size
  FreshnessMax       \* freshness_max_sec

ASSUME FeedAssumption ==
  /\ Metrics \subseteq Nat \ {0}
  /\ {Scale, WarmupMax, WarmupWindow, VarianceMax, GuardMin, PurgeCount} \subseteq Nat
  /\ {WarmupMinTicks, VarianceWindow, HistorySize} \subseteq Nat \ {0}
  /\ FreshnessMax \in Nat

\* The last tick of a feed is the last of its history, and its ticks since the
\* connection are counted as far as the warm-up looks.
NewFeed == [history |-> <<>>, purge |-> 0, since |-> 0, warm |-> FALSE, connected |-> FALSE]

MetricsOf(ticks) == [i \in DOMAIN ticks |-> ticks[i].metric]
Sum(xs) ==
  LET s[i \in 0 .. Len(xs)] == IF i = 0 THEN 0 ELSE xs[i] + s[i - 1]
  IN  s[Len(xs)]

\* Of finitely many metrics the one at a place in their order, and twice the median,
\* which is whole.
AtPlace(xs, k) ==
  Min({x \in Range(xs) : Cardinality({i \in DOMAIN xs : xs[i] <= x}) >= k})
DoubledMedian(xs) ==
  LET n == Cardinality(DOMAIN xs)
  IN  IF n % 2 = 1 THEN 2 * AtPlace(xs, (n + 1) \div 2)
      ELSE AtPlace(xs, n \div 2) + AtPlace(xs, n \div 2 + 1)

\* The last ticks of a deque.
Newest(ticks, n) ==
  IF Len(ticks) <= n THEN ticks ELSE SubSeq(ticks, Len(ticks) - n + 1, Len(ticks))

\* sqrt(var) / mean <= WarmupMax, squared and multiplied by the square of n * mean.
Steady(xs) ==
  LET sum == Sum(xs)
      squares == Sum([i \in DOMAIN xs |-> xs[i] * xs[i]])
  IN  Scale * Scale * (Len(xs) * squares - sum * sum) <= WarmupMax * WarmupMax * sum * sum

\* _on_connect; the mutant forgets that the feed is to warm up again.
OnConnectWarm(f) == [f EXCEPT !.connected = TRUE, !.purge = PurgeCount, !.since = 0]
OnConnect(f) ==
  [f EXCEPT !.connected = TRUE, !.purge = PurgeCount, !.since = 0, !.warm = FALSE]

\* _check_warmup
CheckWarmup(f) ==
  LET recent == SelectSeq(f.history,
                  LAMBDA t : t.ts >= Last(f.history).ts - WarmupWindow)
  IN  [f EXCEPT !.warm =
         \/ f.warm
         \/ /\ f.since >= WarmupMinTicks
            /\ Len(recent) >= WarmupMinTicks
            /\ Steady(MetricsOf(recent))]

\* _passes_variance_guard
PassesVarianceGuard(f, metric) ==
  \/ Len(f.history) < GuardMin
  \/ LET median == DoubledMedian(MetricsOf(Newest(f.history, VarianceWindow)))
         off == IF 2 * metric >= median THEN 2 * metric - median ELSE median - 2 * metric
     IN  Scale * off <= VarianceMax * median

\* _handle_tick
HandleTick(f, tick) ==
  IF f.purge > 0 THEN [f EXCEPT !.purge = @ - 1]
  ELSE IF ~PassesVarianceGuard(f, tick.metric) THEN f
  ELSE CheckWarmup(
         [f EXCEPT !.history = Newest(Append(@, tick), HistorySize),
                   !.since = IF @ < WarmupMinTicks THEN @ + 1 ELSE @])

\* is_fresh of a feed.
IsFresh(f, now) ==
  f.warm /\ f.history # <<>> /\ now - Last(f.history).ts <= FreshnessMax
=============================================================================
