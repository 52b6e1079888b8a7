------------------------------- MODULE MMDay -------------------------------
(***************************************************************************)
(* mm_delta_today_and_total of risk/circuit_breaker.py: what the market    *)
(* maker realized today is what it realized in all, a sum over the table   *)
(* mm_inventory, less a baseline that the first call of a day keeps in     *)
(* circuit_state.  The day and the baseline are two rows, and the sum can  *)
(* be wiped; the loss limit of the day is checked against the difference.  *)
(* The names differ from CircuitBreaker's, so that a module can use both.  *)
(***************************************************************************)
EXTENDS Integers

CONSTANTS
  MaxTotal,    \* bound: the sum, and what is counted of it, within -MaxTotal .. MaxTotal
  LastDay,     \* bound: the last day
  MaxDeaths,   \* bound: crashes between the two writes
  Wipes,       \* whether wipe_mm_state is called
  None

ASSUME DayAssumption ==
  /\ {MaxTotal, LastDay, MaxDeaths} \subseteq Nat
  /\ Wipes \in BOOLEAN
  /\ None \notin Int

VARIABLES
  date,       \* the day of _now()
  total,      \* mm_realized_total(paper)
  storedDay,  \* the row mm_day_<scope>
  baseline,   \* the row mm_day_baseline_<scope>
  counted,    \* history: realized since the day's first call began
  spoiled,    \* history: the day's first call died, or the sum was wiped after it
  deaths      \* how many crashes there were

dayVars == <<date, total, storedDay, baseline, counted, spoiled, deaths>>

Totals == -MaxTotal .. MaxTotal

\* What a call returns while the stored day is today.
DeltaToday == IF baseline = None THEN 0 ELSE total - baseline

\* Mutant: the baseline of the first day is kept for good.
FirstCallEver ==
  /\ storedDay # date
  /\ storedDay' = date
  /\ baseline' = IF baseline = None THEN total ELSE baseline
  /\ counted' = 0 /\ spoiled' = FALSE
  /\ UNCHANGED <<date, total, deaths>>

\* mm_delta_today_and_total: the first call of a day writes the day and then the
\* baseline; another call writes nothing.
FirstCall ==
  /\ storedDay # date
  /\ storedDay' = date
  /\ baseline' = total
  /\ counted' = 0 /\ spoiled' = FALSE
  /\ UNCHANGED <<date, total, deaths>>

\* The process dies between the two writes.
FirstCallDies ==
  /\ storedDay # date /\ deaths < MaxDeaths
  /\ storedDay' = date
  /\ counted' = 0 /\ spoiled' = TRUE
  /\ deaths' = deaths + 1
  /\ UNCHANGED <<date, total, baseline>>

\* A fill is booked in mm_inventory.
Realize(delta) ==
  /\ {total + delta, counted + delta} \subseteq Totals
  /\ total' = total + delta
  /\ counted' = counted + delta
  /\ UNCHANGED <<date, storedDay, baseline, spoiled, deaths>>

\* wipe_mm_state: nothing is realized, but the sum starts again from zero.
Wipe ==
  /\ Wipes
  /\ total' = 0
  /\ spoiled' = TRUE
  /\ UNCHANGED <<date, storedDay, baseline, counted, deaths>>

Midnight ==
  /\ date < LastDay
  /\ date' = date + 1
  /\ UNCHANGED <<total, storedDay, baseline, counted, spoiled, deaths>>

DayInit ==
  /\ date = 0 /\ total = 0 /\ counted = 0 /\ deaths = 0
  /\ storedDay = None /\ baseline = None /\ spoiled = FALSE

DayNext ==
  \/ FirstCall
  \/ FirstCallDies
  \/ \E delta \in {-1, 1} : Realize(delta)
  \/ Wipe
  \/ Midnight

DaySpec == DayInit /\ [][DayNext]_dayVars

-----------------------------------------------------------------------------
(* Properties *)

DayTypeOK ==
  /\ date \in 0 .. LastDay /\ total \in Totals
  /\ storedDay \in 0 .. LastDay \cup {None} /\ baseline \in Totals \cup {None}
  /\ counted \in Totals /\ spoiled \in BOOLEAN /\ deaths \in 0 .. MaxDeaths

\* From the first call of a day on, the difference that the daily limit is checked
\* against is what was realized since that call, provided the call was not cut
\* short and nothing was wiped after it: whatever a crash or a wipe did to an
\* earlier day, the rows are right again with the next day's first call.
DeltaRecovers == storedDay = date /\ ~spoiled => DeltaToday = counted
=============================================================================
