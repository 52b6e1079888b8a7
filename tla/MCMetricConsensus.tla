-------------------------- MODULE MCMetricConsensus --------------------------
(* Values for the constants of MetricConsensus: three exchanges, one of which *)
(* lies.                                                                      *)
EXTENDS MetricConsensus

CONSTANTS primary, secondary, tertiary

MCSymmetry == Permutations(Feeds \ Liars)

\* The median counts how many are up to it; the code takes it from the middle of the
\* sorted metrics, which comes to the same.
MedianOfSorted(xs) ==
  LET sorted == SortSeq(xs, <)
      n == Len(xs)
  IN  IF n % 2 = 1 THEN 2 * sorted[(n + 1) \div 2]
      ELSE sorted[n \div 2] + sorted[n \div 2 + 1]

ASSUME MedianIsMiddle ==
  \A n \in 1 .. 5 : \A xs \in [1 .. n -> Metrics] : DoubledMedian(xs) = MedianOfSorted(xs)
=============================================================================
