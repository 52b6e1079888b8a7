------------------------- MODULE MCAllocatorWorlds -------------------------
(* ResourceAllocator in one of its two worlds at a time, with many vectors   *)
(* at once or with vectors of many costs.                                    *)
EXTENDS MCResourceAllocator

\* Action constraint.  The two worlds share nothing but the copy, which shows both:
\* only steps are taken after which all that is reserved, executed or open is of one
\* of them.  The balance is asked for by live engines only: in the paper world it
\* stays unknown.
Only(S) ==
  \A u \in Units : /\ Live(u) => reservations[u].opp \in S
                   /\ executor[u] # NoExecutor => executor[u].opp \in S
                   /\ vectors[u] # NoRow => vectors[u].opp \in S
OneWorld ==
  Only(MCLiveOpportunities)' \/ (Only(MCPaperOpportunities)' /\ balance' = NoBalance)

\* Action constraint.  Three vectors at a time cost 1 each, two cost anything.
ManyOrCostly ==
  \/ \A u \in Units : vectors'[u] # NoRow => vectors'[u].basis = 1
  \/ Cardinality({u \in Units : ~Idle(u)'}) <= 2

\* What the rest depends on: lastSkip is written and never read by the allocator, a
\* reservation that is over counts as none (executors that are executing have one
\* that is not), and a unit that nothing refers to has no past.
WhatMatters ==
  <<[u \in Units |-> IF Live(u) THEN reservations[u] ELSE NoReservation],
    vectors, cache, cacheAge, balance, executor, held, {u \in blind : ~Idle(u)}>>

MCSymmetry == Permutations(Units)
=============================================================================
