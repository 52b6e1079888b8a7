---------------------------- MODULE RoundSearch ----------------------------
(***************************************************************************)
(* ingestion/oracle_metric_client.py: the metric that a feed on the chain  *)
(* showed at a given time, found by bisection over the feed's rounds, one  *)
(* call for each, any of which may fail.  Nothing is shared between two    *)
(* searches, and the answer of a round is its metric: only which round is  *)
(* taken is modelled.                                                      *)
(*                                                                         *)
(* The chain is external: its rounds are stamped in their order, and those *)
(* before some round may have no data, which shows as the stamp 0.         *)
(***************************************************************************)
EXTENDS Integers, FiniteSets

CONSTANTS
  Latest,       \* the round latestRoundData answers with
  MaxStamp,     \* stamps are 0 .. MaxStamp
  Targets,      \* the times that are asked for
  Beat,         \* seconds per round the window reckons with: 60
  Spare,        \* rounds it adds: 120
  Turns,        \* calls of the bisection at most: 20
  MaxFailures,  \* bound: how many calls fail
  NoRound

\* Assumed where the module is instantiated.
SearchAssumption ==
  /\ Latest \in Nat \ {0} /\ {MaxStamp, Spare, Turns, MaxFailures} \subseteq Nat
  /\ Beat \in Nat \ {0} /\ Targets \subseteq Nat /\ NoRound \notin 1 .. Latest

VARIABLES
  stamps,  \* the stamp of every round
  target,  \* target_ts
  at,      \* "asking", "bisecting", "lower", "upper" or "over"; "none" if nothing
           \* was searched
  lo, hi,  \* the window
  turn,    \* how many turns the bisection has taken
  best,    \* the round of best_metric
  failed   \* history: the rounds for which a call failed

searchVars == <<stamps, target, at, lo, hi, turn, best, failed>>

Rounds == 1 .. Latest
Distance(r) == IF stamps[r] > target THEN stamps[r] - target ELSE target - stamps[r]

\* Seconds since the target, of which the window has one round per Beat.
SecsBack == IF stamps[Latest] > target THEN stamps[Latest] - target ELSE 0
RoundsBack == SecsBack \div Beat + Spare
From == IF Latest - RoundsBack > 1 THEN Latest - RoundsBack ELSE 1

Nearer(r) ==
  IF stamps[r] # 0 /\ (best = NoRound \/ Distance(r) < Distance(best)) THEN r ELSE best

\* decimals and latestRoundData; or one of them fails, and the answer is None.
Start ==
  /\ at = "asking"
  /\ \/ at' = "bisecting" /\ lo' = From /\ hi' = Latest
     \/ at' = "none" /\ UNCHANGED <<lo, hi>>
  /\ UNCHANGED <<stamps, target, turn, best, failed>>

\* The round in the middle, when the call succeeds: one without data counts as
\* before the target.
Halve(mid) ==
  /\ best' = Nearer(mid)
  /\ IF stamps[mid] = 0 \/ stamps[mid] < target
     THEN lo' = mid /\ UNCHANGED hi
     ELSE hi' = mid /\ UNCHANGED lo
  /\ UNCHANGED failed

\* A call that fails counts as a round after the target; the mutant takes it for one
\* before.
HalveBlindUp(mid) ==
  /\ Cardinality(failed) < MaxFailures
  /\ failed' = failed \cup {mid}
  /\ lo' = mid /\ UNCHANGED <<hi, best>>
HalveBlind(mid) ==
  /\ Cardinality(failed) < MaxFailures
  /\ failed' = failed \cup {mid}
  /\ hi' = mid /\ UNCHANGED <<lo, best>>

Bisect ==
  /\ at = "bisecting" /\ turn < Turns /\ lo < hi - 1
  /\ turn' = turn + 1
  /\ LET mid == (lo + hi) \div 2 IN Halve(mid) \/ HalveBlind(mid)
  /\ UNCHANGED <<stamps, target, at>>

Bisected ==
  /\ at = "bisecting" /\ (turn = Turns \/ lo >= hi - 1)
  /\ at' = "lower"
  /\ UNCHANGED <<stamps, target, lo, hi, turn, best, failed>>

\* The two ends of what is left of the window, the lower one first.
LookAt(r) ==
  \/ best' = Nearer(r) /\ UNCHANGED failed
  \/ /\ Cardinality(failed) < MaxFailures
     /\ failed' = failed \cup {r} /\ UNCHANGED best
LookAtEnds ==
  /\ \/ at = "lower" /\ at' = "upper" /\ LookAt(lo)
     \/ at = "upper" /\ at' = "over" /\ LookAt(hi)
  /\ UNCHANGED <<stamps, target, lo, hi, turn>>

Init ==
  /\ stamps \in { s \in [Rounds -> 0 .. MaxStamp] :
                    /\ s[Latest] > 0
                    /\ \A q, r \in Rounds : q <= r => s[q] <= s[r] }
  /\ target \in Targets
  /\ at = "asking" /\ lo = 1 /\ hi = Latest /\ turn = 0
  /\ best = NoRound /\ failed = {}

Next ==
  \/ Start
  \/ Bisect
  \/ Bisected
  \/ LookAtEnds

-----------------------------------------------------------------------------
(* Properties *)

\* The turns are enough for the window.
Fits == Latest - From <= 2 ^ Turns

\* Rounds after the target came as seldom as the window reckons with.
Seldom == Cardinality({r \in Rounds : stamps[r] > target}) <= RoundsBack

\* The search ends with the round that is nearest to its target, of those below
\* every round whose call failed; without a failure it is the nearest of all rounds,
\* also those before the window, if rounds were as seldom as it reckons with.  A
\* failure hides every later round, and may leave a metric of any age.
NearestRound ==
  at = "over" /\ Fits =>
    \A r \in Rounds :
      /\ stamps[r] # 0
      /\ \A f \in failed : r < f
      /\ r >= From \/ (Seldom /\ failed = {})
      => best # NoRound /\ Distance(best) <= Distance(r)
=============================================================================
