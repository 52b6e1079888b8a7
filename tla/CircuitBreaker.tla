--------------------------- MODULE CircuitBreaker ---------------------------
(***************************************************************************)
(* risk/circuit_breaker.py: halts kept as rows of the table circuit_state. *)
(* A halt is a flag and, for those that expire, the time it was set; the   *)
(* two are rows of their own, written one after the other by db.py, each   *)
(* write a transaction.  Losses trip halts, operators set and lift them,   *)
(* days pass, and the process that is writing may die between two writes.  *)
(* Several processes share the database file; inside one, no await of      *)
(* these functions really suspends, so its operations do not interleave.   *)
(***************************************************************************)
EXTENDS Integers, Sequences, SequencesExt

CONSTANTS
  Processes,    \* the processes that share the database
  Causes,       \* the limits whose losses may occur
  Operators,    \* what operators may do: subset of OperatorCommands
  WeekDays,     \* length of a weekly halt in days
  MaxDay,       \* bound: the last day
  MaxCrashes,   \* bound: how many times a process dies
  NoDay         \* no stamp was ever written

Engines == <<"ROUTER_NODE", "RESOLVER_NODE", "SYNC_NODE", "ORACLE_NODE">>
OperatorCommands == {"manual_halt", "manual_resume", "force_resume_all"}

\* The keys of circuit_state, in the order in which force_resume_all clears
\* them; an engine stands for its key "halt_eng_daily_<engine>".
KeyOrder ==
  <<"halt_manual", "halt_resource", "halt_daily", "halt_weekly", "halt_e3_perm",
    "halt_mm_daily", "halt_mm_perm">> \o Engines
Keys == ToSet(KeyOrder)

\* Losses that are counted per day, and start again with it.
DailyCauses == {"halt_daily", "halt_mm_daily"} \cup ToSet(Engines)

ASSUME BreakerAssumption ==
  /\ Causes \subseteq Keys \ {"halt_manual"}
  /\ Operators \subseteq OperatorCommands
  /\ WeekDays \in Nat \ {0} /\ MaxDay \in Nat /\ MaxCrashes \in Nat
  /\ NoDay \notin Nat

VARIABLES
  flag,      \* flag[k]: the row k is "1"
  setAt,     \* setAt[k]: the day in the row k_set_at
  today,     \* the day _now() falls on
  breached,  \* the causes whose limit the realized delta is beyond
  writes,    \* writes[p]: the writes that p's operation has still to do
  op,        \* op[p]: p's operation, "idle" when it has none
  tripped,   \* history: the day of the last completed trip that no resume undid
  crashes    \* how many crashes there were

vars == <<flag, setAt, today, breached, writes, op, tripped, crashes>>

Days == 0 .. MaxDay
Write == [key: Keys, kind: {"set", "stamp", "clear"}]
Ops == {"idle", "trip"} \cup OperatorCommands

-----------------------------------------------------------------------------
(* The predicates the rest of the program asks *)

DayOverAtOnce(k) ==  \* mutant: a halt ends on its own day
  setAt[k] = NoDay \/ today >= setAt[k]

\* A stamp's day is over at its next midnight.
DayOver(k) == setAt[k] = NoDay \/ today >= setAt[k] + 1
WeekOver(k) == setAt[k] = NoDay \/ today >= setAt[k] + WeekDays

IsHalted ==
  \/ flag["halt_manual"] \/ flag["halt_resource"]
  \/ flag["halt_daily"] /\ ~DayOver("halt_daily")
  \/ flag["halt_weekly"] /\ ~WeekOver("halt_weekly")

IsMMHalted ==
  \/ flag["halt_manual"] \/ flag["halt_resource"] \/ flag["halt_mm_perm"]
  \/ flag["halt_mm_daily"] /\ ~DayOver("halt_mm_daily")

IsEngineHalted(e) ==
  \/ e = "SYNC_NODE" /\ flag["halt_e3_perm"]
  \/ flag[e] /\ ~DayOver(e)

\* What a halt of key k stops, while it lasts.
Stops(k) ==
  CASE k \in {"halt_manual", "halt_resource"} -> IsHalted /\ IsMMHalted
    [] k \in {"halt_daily", "halt_weekly"} -> IsHalted
    [] k \in {"halt_mm_daily", "halt_mm_perm"} -> IsMMHalted
    [] k = "halt_e3_perm" -> IsEngineHalted("SYNC_NODE")
    [] k \in ToSet(Engines) -> IsEngineHalted(k)

-----------------------------------------------------------------------------
(* The operations, as the writes they are going to do *)

Begin(p, name, todo) ==
  /\ op[p] = "idle"
  /\ op' = [op EXCEPT ![p] = name]
  /\ writes' = [writes EXCEPT ![p] = todo]
  /\ UNCHANGED <<flag, setAt, today, breached, tripped, crashes>>

TripWrites(k) == <<[key |-> k, kind |-> "set"], [key |-> k, kind |-> "stamp"]>>
Clears(keys) == [i \in DOMAIN keys |-> [key |-> keys[i], kind |-> "clear"]]

\* _trip
Trip(p, k) == Begin(p, "trip", TripWrites(k))

\* check_and_trip: the floor only when the allocation is known, then the day,
\* and the week only if the day is within its limit.
CheckAndTrip(p, known) ==
  \/ known /\ "halt_resource" \in breached /\ Trip(p, "halt_resource")
  \/ /\ ~(known /\ "halt_resource" \in breached)
     /\ \/ "halt_daily" \in breached /\ Trip(p, "halt_daily")
        \/ "halt_daily" \notin breached /\ "halt_weekly" \in breached
             /\ Trip(p, "halt_weekly")

\* The market maker's and the cumulative checks leave alone a flag that is up; the
\* mutant leaves alone a limit that was ever tripped.
DueOnce(k) == k \in breached /\ setAt[k] = NoDay
Due(k) == k \in breached /\ ~flag[k]

\* check_mm_and_trip: the daily limit only if the cumulative one is not due.
CheckMM(p) ==
  \/ Due("halt_mm_perm") /\ Trip(p, "halt_mm_perm")
  \/ ~Due("halt_mm_perm") /\ Due("halt_mm_daily") /\ Trip(p, "halt_mm_daily")

\* check_e3_cumulative_and_trip
CheckE3(p) == Due("halt_e3_perm") /\ Trip(p, "halt_e3_perm")

\* check_engine_and_trip
CheckEngine(p, e) == e \in breached /\ Trip(p, e)

ManualHalt(p) ==
  "manual_halt" \in Operators /\ Begin(p, "manual_halt", TripWrites("halt_manual"))
ManualResumeAll(p) ==  \* mutant: it clears every halt
  "manual_resume" \in Operators /\ Begin(p, "manual_resume", Clears(KeyOrder))
ManualResume(p) ==
  "manual_resume" \in Operators /\ Begin(p, "manual_resume", Clears(<<"halt_manual">>))
ForceResumeAll(p) ==
  "force_resume_all" \in Operators /\ Begin(p, "force_resume_all", Clears(KeyOrder))

\* The time of a stamp is taken when it is written, not when the trip began.
Stamp == today

\* set_circuit_state: one transaction.
DoWrite(p) ==
  LET w == Head(writes[p])
  IN  /\ writes[p] # <<>>
      /\ flag' = [flag EXCEPT ![w.key] = IF w.kind = "stamp" THEN @ ELSE w.kind = "set"]
      /\ setAt' = [setAt EXCEPT ![w.key] = IF w.kind = "stamp" THEN Stamp ELSE @]
      /\ tripped' = [tripped EXCEPT ![w.key] =
           CASE w.kind = "stamp" /\ flag[w.key] -> today
             [] w.kind = "clear" -> NoDay
             [] OTHER -> @]
      /\ writes' = [writes EXCEPT ![p] = Tail(@)]
      /\ op' = [op EXCEPT ![p] = IF Tail(writes[p]) = <<>> THEN "idle" ELSE @]
      /\ UNCHANGED <<today, breached, crashes>>

\* The process dies and starts again without what it still had to write.
Crash(p) ==
  /\ writes[p] # <<>> /\ crashes < MaxCrashes
  /\ writes' = [writes EXCEPT ![p] = <<>>]
  /\ op' = [op EXCEPT ![p] = "idle"]
  /\ crashes' = crashes + 1
  /\ UNCHANGED <<flag, setAt, today, breached, tripped>>

\* Realized deltas go beyond a limit and come back.
Loss(c) == /\ c \notin breached /\ breached' = breached \cup {c}
           /\ UNCHANGED <<flag, setAt, today, writes, op, tripped, crashes>>
Gain(c) == /\ c \in breached /\ breached' = breached \ {c}
           /\ UNCHANGED <<flag, setAt, today, writes, op, tripped, crashes>>

\* Midnight.
NextDay ==
  /\ today < MaxDay
  /\ today' = today + 1
  /\ breached' = breached \ DailyCauses
  /\ UNCHANGED <<flag, setAt, writes, op, tripped, crashes>>

Init ==
  /\ flag = [k \in Keys |-> FALSE]
  /\ setAt = [k \in Keys |-> NoDay]
  /\ today = 0
  /\ breached = {}
  /\ writes = [p \in Processes |-> <<>>]
  /\ op = [p \in Processes |-> "idle"]
  /\ tripped = [k \in Keys |-> NoDay]
  /\ crashes = 0

Next ==
  \/ \E p \in Processes, known \in BOOLEAN : CheckAndTrip(p, known)
  \/ \E p \in Processes : CheckMM(p)
  \/ \E p \in Processes : CheckE3(p)
  \/ \E p \in Processes, e \in ToSet(Engines) : CheckEngine(p, e)
  \/ \E p \in Processes : ManualHalt(p)
  \/ \E p \in Processes : ManualResume(p)
  \/ \E p \in Processes : ForceResumeAll(p)
  \/ \E p \in Processes : DoWrite(p)
  \/ \E p \in Processes : Crash(p)
  \/ \E c \in Causes : Loss(c)
  \/ \E c \in Causes : Gain(c)
  \/ NextDay

Spec == Init /\ [][Next]_vars

\* A running operation goes on, and the risk loop calls every check again and
\* again, sometimes with a known allocation.
Fairness ==
  \A p \in Processes :
    /\ WF_vars(DoWrite(p))
    /\ SF_vars(CheckAndTrip(p, TRUE))
    /\ SF_vars(CheckMM(p))
    /\ SF_vars(CheckE3(p))
    /\ \A e \in ToSet(Engines) \cap Causes : SF_vars(CheckEngine(p, e))
FairSpec == Spec /\ Fairness

-----------------------------------------------------------------------------
(* Properties *)

TypeOK ==
  /\ flag \in [Keys -> BOOLEAN]
  /\ setAt \in [Keys -> Days \cup {NoDay}]
  /\ today \in Days
  /\ breached \subseteq Causes
  /\ writes \in [Processes -> Seq(Write)]
  /\ op \in [Processes -> Ops]
  /\ tripped \in [Keys -> Days \cup {NoDay}]
  /\ crashes \in 0 .. MaxCrashes

\* For how long a completed trip must hold.
Lasts(k) ==
  CASE k \in DailyCauses -> today = tripped[k]
    [] k = "halt_weekly" -> today < tripped[k] + WeekDays
    [] OTHER -> TRUE

\* A completed trip stops what it is there to stop, until its day or week is
\* over or a resume clears it: neither later writes of other processes nor a
\* crash in the middle of them shortens it.
TripHolds == \A k \in Keys : tripped[k] # NoDay /\ Lasts(k) => Stops(k)

\* A halt is in force while its flag is up and its day or week is not over.
InForce(k) ==
  /\ flag[k]
  /\ k \in DailyCauses => ~DayOver(k)
  /\ k = "halt_weekly" => ~WeekOver(k)

\* An automatic halt ends only with its day or week or by force_resume_all:
\* manual_resume, a later trip of the same limit, and a check that finds no
\* loss any more, lift none.
OnlyForceLifts ==
  [][\A k \in Keys \ {"halt_manual"} : InForce(k) /\ ~InForce(k)' =>
       today' # today \/ \E p \in Processes : op[p] = "force_resume_all"]_vars

\* A loss that stays beyond its limit halts what it is there to halt, again
\* after every resume, although a process may die in the middle of the trip.
LossHalts ==
  \A c \in Causes \ {"halt_mm_daily"} : <>[](c \in breached) => []<>Stops(c)

\* A day's loss beyond the market maker's daily limit halts the market maker on
\* that day: it is halted already, or the next check will trip it.
MMDailyLossSeen ==
  (\A p \in Processes : op[p] = "idle") /\ "halt_mm_daily" \in breached =>
    Due("halt_mm_daily") \/ IsMMHalted
=============================================================================
