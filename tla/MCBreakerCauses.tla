-------------------------- MODULE MCBreakerCauses --------------------------
(* CircuitBreaker with its limits reached a few at a time. *)
EXTENDS MCCircuitBreaker, FiniteSets

\* Halts that expire, of the whole program: a week of two days is long enough for
\* a weekly halt to outlive a daily one.  An engine's day; the market
\* maker's day and the limit whose halt only force_resume_all lifts, of which one
\* check trips at most one; and both of the lasting limits that remain.
MCCauseSets == { {"halt_daily", "halt_weekly"}, {"SYNC_NODE"},
                 {"halt_mm_daily", "halt_mm_perm"}, {"halt_resource", "halt_e3_perm"} }
MCCauses == UNION MCCauseSets

\* One run looks at behaviours in which the limits of one of these sets are reached,
\* and in which days pass as long as one of them is of a day or of a week.
VARIABLE reached
SomeCausesInit == Init /\ reached \in MCCauseSets
SomeCausesSpec ==
  /\ SomeCausesInit
  /\ [][ /\ Next
         /\ breached' \subseteq reached
         /\ today' <= Cardinality(reached \cap (DailyCauses \cup {"halt_weekly"}))
         /\ UNCHANGED reached ]_<<vars, reached>>
  /\ Fairness
=============================================================================
