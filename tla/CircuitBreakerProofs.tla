------------------------ MODULE CircuitBreakerProofs ------------------------
(***************************************************************************)
(* A completed trip holds for as long as its halt lasts, and an automatic  *)
(* halt ends only with its day or week or by force_resume_all: for every   *)
(* number of processes, every choice of limits and any number of crashes.  *)
(* The loss of the market maker's day is right again with each new day.    *)
(***************************************************************************)
EXTENDS CircuitBreaker, MMDay, TLAPS

\* A trip that was completed and not undone has its flag up, and the stamp of its day.
TripStands ==
  \A k \in Keys : tripped[k] # NoDay =>
    flag[k] /\ setAt[k] = tripped[k] /\ tripped[k] <= today

\* Who is about to clear the flag of an automatic halt does so for force_resume_all.
ClearsByForce ==
  \A p \in Processes : \A i \in DOMAIN writes[p] :
    writes[p][i].kind = "clear" /\ writes[p][i].key # "halt_manual" =>
      op[p] = "force_resume_all"

IInv == TypeOK /\ TripStands /\ ClearsByForce

-----------------------------------------------------------------------------
(* The keys and the writes of an operation *)

AllKeys == {"halt_manual", "halt_resource", "halt_daily", "halt_weekly", "halt_e3_perm",
            "halt_mm_daily", "halt_mm_perm"} \cup
           {"ROUTER_NODE", "RESOLVER_NODE", "SYNC_NODE", "ORACLE_NODE"}

\* What stands where in a concatenation.
LEMMA Concatenation ==
  ASSUME NEW S, NEW s \in Seq(S), NEW t \in Seq(S)
  PROVE  /\ s \o t \in Seq(S) /\ Len(s \o t) = Len(s) + Len(t)
         /\ \A i \in 1 .. Len(s) + Len(t) :
              (s \o t)[i] = IF i <= Len(s) THEN s[i] ELSE t[i - Len(s)]
OBVIOUS

\* The keys, one by one.
LEMMA KeysSpelled ==
  /\ ToSet(Engines) = {"ROUTER_NODE", "RESOLVER_NODE", "SYNC_NODE", "ORACLE_NODE"}
  /\ Keys = AllKeys
  /\ KeyOrder \in Seq(Keys)
<1>1. ToSet(Engines) = {"ROUTER_NODE", "RESOLVER_NODE", "SYNC_NODE", "ORACLE_NODE"}
  BY DEF Engines, ToSet
<1> DEFINE first == <<"halt_manual", "halt_resource", "halt_daily", "halt_weekly",
                      "halt_e3_perm", "halt_mm_daily", "halt_mm_perm">>
<1>2. /\ KeyOrder = first \o Engines
      /\ Len(first) = 7 /\ Len(Engines) = 4
      /\ first \in Seq(AllKeys) /\ Engines \in Seq(AllKeys)
  <2>1. KeyOrder = first \o Engines
    BY DEF KeyOrder
  <2>2. Len(first) = 7 /\ first \in Seq(AllKeys)
    BY DEF AllKeys
  <2>3. Len(Engines) = 4 /\ Engines \in Seq(AllKeys)
    BY DEF AllKeys, Engines
  <2> QED
    BY <2>1, <2>2, <2>3
<1>3. /\ first[1] = "halt_manual" /\ first[2] = "halt_resource" /\ first[3] = "halt_daily"
      /\ first[4] = "halt_weekly" /\ first[5] = "halt_e3_perm"
      /\ first[6] = "halt_mm_daily" /\ first[7] = "halt_mm_perm"
  OBVIOUS
<1>4. /\ Engines[1] = "ROUTER_NODE" /\ Engines[2] = "RESOLVER_NODE"
      /\ Engines[3] = "SYNC_NODE" /\ Engines[4] = "ORACLE_NODE"
  BY DEF Engines
<1> HIDE DEF first
<1>5. /\ KeyOrder \in Seq(AllKeys) /\ Len(KeyOrder) = 11
      /\ \A i \in 1 .. 11 : KeyOrder[i] = IF i <= 7 THEN first[i] ELSE Engines[i - 7]
  <2>1. /\ first \o Engines \in Seq(AllKeys)
        /\ Len(first \o Engines) = Len(first) + Len(Engines)
        /\ \A i \in 1 .. Len(first) + Len(Engines) :
             (first \o Engines)[i] =
               IF i <= Len(first) THEN first[i] ELSE Engines[i - Len(first)]
    BY <1>2, Concatenation
  <2>2. Len(first) + Len(Engines) = 11
    BY <1>2
  <2>3. Len(first) = 7
    BY <1>2
  <2> QED
    BY <1>2, <2>1, <2>2, <2>3
<1>6. Keys = {KeyOrder[i] : i \in 1 .. 11}
  BY <1>5 DEF Keys, ToSet
<1>7. Keys = AllKeys
  <2>1. \A i \in 1 .. 11 : KeyOrder[i] \in AllKeys
    <3> SUFFICES ASSUME NEW i \in 1 .. 11 PROVE KeyOrder[i] \in AllKeys
      OBVIOUS
    <3>1. CASE i <= 7
      <4>1. i \in {1, 2, 3, 4, 5, 6, 7}
        BY <3>1
      <4> QED
        BY <1>3, <1>5, <4>1 DEF AllKeys
    <3>2. CASE ~(i <= 7)
      <4>1. i - 7 \in {1, 2, 3, 4}
        BY <3>2
      <4> QED
        BY <1>4, <1>5, <3>2, <4>1 DEF AllKeys
    <3> QED
      BY <3>1, <3>2
  <2>2. /\ KeyOrder[1] = "halt_manual" /\ KeyOrder[2] = "halt_resource"
        /\ KeyOrder[3] = "halt_daily" /\ KeyOrder[4] = "halt_weekly"
        /\ KeyOrder[5] = "halt_e3_perm" /\ KeyOrder[6] = "halt_mm_daily"
        /\ KeyOrder[7] = "halt_mm_perm"
    BY <1>3, <1>5
  <2>3. /\ KeyOrder[8] = "ROUTER_NODE" /\ KeyOrder[9] = "RESOLVER_NODE"
        /\ KeyOrder[10] = "SYNC_NODE" /\ KeyOrder[11] = "ORACLE_NODE"
    BY <1>4, <1>5
  <2>4. AllKeys \subseteq {KeyOrder[i] : i \in 1 .. 11}
    BY <2>2, <2>3 DEF AllKeys
  <2> QED
    BY <1>6, <2>1, <2>4
<1> QED
  BY <1>1, <1>5, <1>6, <1>7

\* A trip writes no clear.
LEMMA TripWritesAre ==
  ASSUME NEW k \in Keys
  PROVE  /\ TripWrites(k) \in Seq(Write)
         /\ \A i \in DOMAIN TripWrites(k) : TripWrites(k)[i].kind # "clear"
BY DEF TripWrites, Write

\* Clears writes one clear for each of its keys, in their order.
LEMMA ClearsAre ==
  ASSUME NEW keys \in Seq(Keys)
  PROVE  /\ Clears(keys) \in Seq(Write) /\ DOMAIN Clears(keys) = DOMAIN keys
         /\ \A i \in DOMAIN keys : Clears(keys)[i].key = keys[i]
<1>1. \A i \in DOMAIN keys : [key |-> keys[i], kind |-> "clear"] \in Write
  BY DEF Write
<1>2. DOMAIN keys = 1 .. Len(keys) /\ Len(keys) \in Nat
  OBVIOUS
<1>3. Clears(keys) \in [1 .. Len(keys) -> Write]
  BY <1>1, <1>2 DEF Clears
<1>4. Clears(keys) \in Seq(Write)
  BY <1>2, <1>3
<1> QED
  BY <1>2, <1>4 DEF Clears

-----------------------------------------------------------------------------
(* The parts of a step *)

\* What an operation is going to write is typed, and clears no automatic halt but
\* for force_resume_all.
LEMMA BeginKeeps ==
  ASSUME IInv, NEW p \in Processes, NEW name \in Ops \ {"idle"}, NEW todo \in Seq(Write),
         Begin(p, name, todo),
         \A i \in DOMAIN todo : todo[i].kind = "clear" /\ todo[i].key # "halt_manual" =>
           name = "force_resume_all"
  PROVE  IInv'
<1>1. /\ UNCHANGED <<flag, setAt, today, breached, tripped, crashes>>
      /\ writes \in [Processes -> Seq(Write)] /\ op \in [Processes -> Ops]
      /\ op' = [op EXCEPT ![p] = name] /\ writes' = [writes EXCEPT ![p] = todo]
  BY DEF Begin, IInv, TypeOK
<1>2. TypeOK'
  BY <1>1 DEF IInv, TypeOK, Days
<1>3. TripStands'
  BY <1>1 DEF IInv, TripStands
<1>4. ClearsByForce'
  BY <1>1 DEF IInv, ClearsByForce
<1> QED
  BY <1>2, <1>3, <1>4 DEF IInv

\* A trip that begins leaves IInv true.
LEMMA TripKeeps ==
  ASSUME IInv, NEW p \in Processes, NEW k \in Keys, Trip(p, k)
  PROVE  IInv'
BY TripWritesAre, BeginKeeps DEF Trip, Ops

\* A write of a row, and what it does to the trip of its key.
LEMMA DoWriteKeeps ==
  ASSUME IInv, NEW p \in Processes, DoWrite(p)
  PROVE  IInv'
<1> DEFINE w == Head(writes[p])
<1>1. /\ writes[p] \in Seq(Write) /\ writes[p] # <<>> /\ w \in Write
      /\ Tail(writes[p]) \in Seq(Write)
      /\ \A i \in DOMAIN Tail(writes[p]) :
           i + 1 \in DOMAIN writes[p] /\ Tail(writes[p])[i] = writes[p][i + 1]
  <2>1. writes[p] \in Seq(Write) /\ writes[p] # <<>>
    BY DEF IInv, TypeOK, DoWrite
  <2> QED
    BY <2>1
<1>2. /\ flag' = [flag EXCEPT ![w.key] = IF w.kind = "stamp" THEN @ ELSE w.kind = "set"]
      /\ setAt' = [setAt EXCEPT ![w.key] = IF w.kind = "stamp" THEN today ELSE @]
      /\ tripped' = [tripped EXCEPT ![w.key] =
           CASE w.kind = "stamp" /\ flag[w.key] -> today
             [] w.kind = "clear" -> NoDay
             [] OTHER -> @]
      /\ writes' = [writes EXCEPT ![p] = Tail(@)]
      /\ op' = [op EXCEPT ![p] = IF Tail(writes[p]) = <<>> THEN "idle" ELSE @]
      /\ UNCHANGED <<today, breached, crashes>>
  BY DEF DoWrite, Stamp
<1> HIDE DEF w
<1>3. /\ flag \in [Keys -> BOOLEAN] /\ setAt \in [Keys -> Days \cup {NoDay}]
      /\ today \in Days /\ tripped \in [Keys -> Days \cup {NoDay}]
      /\ writes \in [Processes -> Seq(Write)] /\ op \in [Processes -> Ops]
      /\ w.key \in Keys /\ w.kind \in {"set", "stamp", "clear"}
  BY <1>1 DEF IInv, TypeOK, Write
<1>4. flag' \in [Keys -> BOOLEAN]
  <2>1. (IF w.kind = "stamp" THEN flag[w.key] ELSE w.kind = "set") \in BOOLEAN
    BY <1>3
  <2> QED
    BY <1>2, <1>3, <2>1
<1>5. setAt' \in [Keys -> Days \cup {NoDay}]
  BY <1>2, <1>3
<1>6. /\ w.kind = "stamp" /\ flag[w.key] => tripped'[w.key] = today
      /\ w.kind = "clear" => tripped'[w.key] = NoDay
      /\ w.kind # "clear" /\ ~(w.kind = "stamp" /\ flag[w.key])
           => tripped'[w.key] = tripped[w.key]
      /\ \A k \in Keys : k # w.key => tripped'[k] = tripped[k]
      /\ tripped' \in [Keys -> Days \cup {NoDay}]
  BY <1>2, <1>3
<1>7. TypeOK'
  <2>1. writes' \in [Processes -> Seq(Write)] /\ op' \in [Processes -> Ops]
    BY <1>1, <1>2, <1>3 DEF Ops
  <2> QED
    BY <1>2, <1>4, <1>5, <1>6, <2>1 DEF IInv, TypeOK, Days
<1>8. TripStands'
  <2> SUFFICES ASSUME NEW k \in Keys, tripped'[k] # NoDay
               PROVE  flag'[k] /\ setAt'[k] = tripped'[k] /\ tripped'[k] <= today'
    BY DEF TripStands
  <2>0. today \in Nat /\ today' = today
    BY <1>2, <1>3, BreakerAssumption DEF Days
  <2>1. CASE k # w.key
    BY <1>2, <1>3, <1>6, <2>0, <2>1 DEF IInv, TripStands
  <2>2. CASE k = w.key /\ w.kind = "set"
    BY <1>2, <1>3, <1>6, <2>0, <2>2 DEF IInv, TripStands
  <2>3. CASE k = w.key /\ w.kind = "stamp" /\ flag[w.key]
    BY <1>2, <1>3, <1>6, <2>0, <2>3
  <2>4. CASE k = w.key /\ w.kind = "stamp" /\ ~flag[w.key]
    BY <1>2, <1>3, <1>6, <2>0, <2>4 DEF IInv, TripStands
  <2>5. CASE k = w.key /\ w.kind = "clear"
    BY <1>6, <2>5
  <2> QED
    BY <1>3, <2>1, <2>2, <2>3, <2>4, <2>5
<1>9. ClearsByForce'
  <2> SUFFICES ASSUME NEW q \in Processes, NEW i \in DOMAIN writes'[q],
                      writes'[q][i].kind = "clear", writes'[q][i].key # "halt_manual"
               PROVE  op'[q] = "force_resume_all"
    BY DEF ClearsByForce
  <2>1. CASE q # p
    BY <1>2, <1>3, <2>1 DEF IInv, ClearsByForce
  <2>2. CASE q = p
    <3>1. writes'[p] = Tail(writes[p]) /\ Tail(writes[p]) # <<>>
      BY <1>1, <1>2, <1>3, <2>2
    <3>2. /\ i + 1 \in DOMAIN writes[p] /\ writes[p][i + 1].kind = "clear"
          /\ writes[p][i + 1].key # "halt_manual"
      BY <1>1, <2>2, <3>1
    <3>3. op[p] = "force_resume_all"
      BY <3>2 DEF IInv, ClearsByForce
    <3> QED
      BY <1>2, <1>3, <2>2, <3>1, <3>3
  <2> QED
    BY <2>1, <2>2
<1> QED
  BY <1>7, <1>8, <1>9 DEF IInv

-----------------------------------------------------------------------------
(* The invariant *)

\* Every initial state satisfies IInv.
LEMMA InitIInv == Init => IInv
<1> SUFFICES ASSUME Init PROVE IInv
  OBVIOUS
<1>1. TypeOK
  BY BreakerAssumption DEF Init, TypeOK, Days, Ops
<1>2. TripStands /\ ClearsByForce
  BY DEF Init, TripStands, ClearsByForce
<1> QED
  BY <1>1, <1>2 DEF IInv

\* IInv is inductive.
LEMMA NextIInv == IInv /\ [Next]_vars => IInv'
<1> SUFFICES ASSUME IInv, [Next]_vars PROVE IInv'
  OBVIOUS
<1>0. /\ breached \subseteq Keys
      /\ \A k \in {"halt_resource", "halt_daily", "halt_weekly", "halt_mm_perm",
                   "halt_mm_daily", "halt_e3_perm", "halt_manual"} : k \in Keys
  BY KeysSpelled, BreakerAssumption DEF IInv, TypeOK, AllKeys
<1>1. ASSUME NEW p \in Processes, NEW known \in BOOLEAN, CheckAndTrip(p, known)
      PROVE  IInv'
  BY <1>0, <1>1, TripKeeps DEF CheckAndTrip
<1>2. ASSUME NEW p \in Processes, CheckMM(p) \/ CheckE3(p)
      PROVE  IInv'
  BY <1>0, <1>2, TripKeeps DEF CheckMM, CheckE3
<1>3. ASSUME NEW p \in Processes, NEW e \in ToSet(Engines), CheckEngine(p, e)
      PROVE  IInv'
  BY <1>0, <1>3, TripKeeps DEF CheckEngine
<1>4. ASSUME NEW p \in Processes, ManualHalt(p)
      PROVE  IInv'
  BY <1>0, <1>4, TripWritesAre, BeginKeeps DEF ManualHalt, Ops, OperatorCommands
<1>5. ASSUME NEW p \in Processes, ManualResume(p)
      PROVE  IInv'
  <2> DEFINE keys == <<"halt_manual">>
  <2>1. keys \in Seq(Keys) /\ \A i \in DOMAIN keys : keys[i] = "halt_manual"
    BY <1>0
  <2> HIDE DEF keys
  <2>2. Begin(p, "manual_resume", Clears(keys))
    BY <1>5 DEF ManualResume, keys
  <2> QED
    BY <2>1, <2>2, ClearsAre, BeginKeeps DEF Ops, OperatorCommands
<1>6. ASSUME NEW p \in Processes, ForceResumeAll(p)
      PROVE  IInv'
  BY <1>6, KeysSpelled, ClearsAre, BeginKeeps DEF ForceResumeAll, Ops, OperatorCommands
<1>7. ASSUME NEW p \in Processes, DoWrite(p)
      PROVE  IInv'
  BY <1>7, DoWriteKeeps
<1>8. ASSUME NEW p \in Processes, Crash(p)
      PROVE  IInv'
  <2>1. /\ UNCHANGED <<flag, setAt, today, breached, tripped>>
        /\ writes' = [writes EXCEPT ![p] = <<>>] /\ op' = [op EXCEPT ![p] = "idle"]
        /\ crashes' = crashes + 1 /\ crashes < MaxCrashes
        /\ writes \in [Processes -> Seq(Write)] /\ op \in [Processes -> Ops]
        /\ crashes \in 0 .. MaxCrashes
    BY <1>8 DEF Crash, IInv, TypeOK
  <2>2. writes' \in [Processes -> Seq(Write)] /\ op' \in [Processes -> Ops]
    BY <2>1 DEF Ops
  <2>3. crashes' \in 0 .. MaxCrashes
    BY <2>1, BreakerAssumption
  <2>4. TypeOK'
    BY <2>1, <2>2, <2>3 DEF IInv, TypeOK, Days
  <2>5. TripStands' /\ ClearsByForce'
    BY <2>1 DEF IInv, TripStands, ClearsByForce
  <2> QED
    BY <2>4, <2>5 DEF IInv
<1>9. ASSUME NEW c \in Causes, Loss(c) \/ Gain(c)
      PROVE  IInv'
  BY <1>9 DEF Loss, Gain, IInv, TypeOK, TripStands, ClearsByForce, Days
<1>10. CASE NextDay
  <2>1. /\ today' = today + 1 /\ today < MaxDay /\ today \in 0 .. MaxDay
        /\ breached' \subseteq breached
        /\ UNCHANGED <<flag, setAt, writes, op, tripped, crashes>>
    BY <1>10 DEF NextDay, IInv, TypeOK, Days
  <2>2. today' \in Days
    BY <2>1, BreakerAssumption DEF Days
  <2>3. TypeOK'
    BY <2>1, <2>2 DEF IInv, TypeOK, Days
  <2>4. TripStands'
    <3>1. \A k \in Keys : tripped[k] \in Nat \cup {NoDay}
      BY BreakerAssumption DEF IInv, TypeOK, Days
    <3> QED
      BY <2>1, <3>1, BreakerAssumption DEF IInv, TripStands
  <2>5. ClearsByForce'
    BY <2>1 DEF IInv, ClearsByForce
  <2> QED
    BY <2>3, <2>4, <2>5 DEF IInv
<1>11. CASE UNCHANGED vars
  BY <1>11 DEF vars, IInv, TypeOK, TripStands, ClearsByForce, Days
<1> QED
  BY <1>1, <1>2, <1>3, <1>4, <1>5, <1>6, <1>7, <1>8, <1>9, <1>10, <1>11 DEF Next

\* IInv is an invariant of the specification.
LEMMA Invariance == Spec => []IInv
BY InitIInv, NextIInv, PTL DEF Spec

-----------------------------------------------------------------------------
(* The theorems *)

\* Every variable keeps its type.
THEOREM TypeCorrect == Spec => []TypeOK
<1>1. IInv => TypeOK
  BY DEF IInv
<1> QED
  BY <1>1, Invariance, PTL

\* While the halt of a completed trip lasts, every predicate that is there to ask for
\* it says so.
LEMMA TripStops == IInv => TripHolds
<1> SUFFICES ASSUME IInv, NEW k \in Keys, tripped[k] # NoDay, Lasts(k)
             PROVE  Stops(k)
  BY DEF TripHolds
<1>1. flag[k] /\ setAt[k] = tripped[k] /\ setAt[k] # NoDay
  BY DEF IInv, TripStands
<1>2. setAt[k] \in Nat /\ today \in Nat
  <2>1. setAt[k] \in Days /\ today \in Days
    BY <1>1 DEF IInv, TypeOK
  <2> QED
    BY <2>1, BreakerAssumption DEF Days
<1>3. CASE k \in {"halt_manual", "halt_resource"}
  BY <1>1, <1>3, KeysSpelled DEF Stops, IsHalted, IsMMHalted
<1>4. CASE k = "halt_daily"
  <2>1. ~DayOver(k)
    BY <1>1, <1>2, <1>4 DEF DayOver, Lasts, DailyCauses
  <2> QED
    BY <1>1, <1>4, <2>1, KeysSpelled DEF Stops, IsHalted
<1>5. CASE k = "halt_weekly"
  <2>1. k \notin DailyCauses
    BY <1>5, KeysSpelled DEF DailyCauses
  <2>2. ~WeekOver(k)
    BY <1>1, <1>2, <1>5, <2>1, BreakerAssumption DEF WeekOver, Lasts
  <2> QED
    BY <1>1, <1>5, <2>2, KeysSpelled DEF Stops, IsHalted
<1>6. CASE k = "halt_e3_perm"
  BY <1>1, <1>6, KeysSpelled DEF Stops, IsEngineHalted
<1>7. CASE k = "halt_mm_daily"
  <2>1. ~DayOver(k)
    BY <1>1, <1>2, <1>7 DEF DayOver, Lasts, DailyCauses
  <2> QED
    BY <1>1, <1>7, <2>1, KeysSpelled DEF Stops, IsMMHalted
<1>8. CASE k = "halt_mm_perm"
  BY <1>1, <1>8, KeysSpelled DEF Stops, IsMMHalted
<1>9. CASE k \in ToSet(Engines)
  <2>1. ~DayOver(k)
    BY <1>1, <1>2, <1>9, KeysSpelled DEF DayOver, Lasts, DailyCauses
  <2>2. k \notin {"halt_manual", "halt_resource", "halt_daily", "halt_weekly",
                  "halt_mm_daily", "halt_mm_perm", "halt_e3_perm"}
    BY <1>9, KeysSpelled
  <2> QED
    BY <1>1, <1>9, <2>1, <2>2 DEF Stops, IsEngineHalted
<1> QED
  BY <1>3, <1>4, <1>5, <1>6, <1>7, <1>8, <1>9, KeysSpelled DEF AllKeys

\* A completed trip stops what it is there to stop until its day or week is over or a
\* resume clears it, whatever other processes write and wherever one of them dies.
THEOREM TripHoldsHolds == Spec => []TripHolds
BY TripStops, Invariance, PTL

\* An automatic halt that is in force stays so in every step of a day in which nobody
\* is at force_resume_all.
LEMMA InForceStays ==
  ASSUME IInv, [Next]_vars, NEW k \in Keys \ {"halt_manual"},
         InForce(k), today' = today, \A p \in Processes : op[p] # "force_resume_all"
  PROVE  InForce(k)'
<1>0. /\ flag \in [Keys -> BOOLEAN] /\ setAt \in [Keys -> Days \cup {NoDay}]
      /\ today \in Nat /\ NoDay \notin Nat /\ WeekDays \in Nat \ {0}
  BY BreakerAssumption DEF IInv, TypeOK, Days
<1>1. CASE flag'[k] = flag[k] /\ setAt'[k] = setAt[k]
  BY <1>1 DEF InForce, DayOver, WeekOver
<1>2. ASSUME NEW p \in Processes, DoWrite(p)
      PROVE  InForce(k)'
  <2> DEFINE w == Head(writes[p])
  <2>1. /\ flag' = [flag EXCEPT ![w.key] = IF w.kind = "stamp" THEN @ ELSE w.kind = "set"]
        /\ setAt' = [setAt EXCEPT ![w.key] = IF w.kind = "stamp" THEN today ELSE @]
    BY <1>2 DEF DoWrite, Stamp
  <2>2. w = writes[p][1] /\ 1 \in DOMAIN writes[p] /\ w \in Write
    <3>1. writes[p] \in Seq(Write) /\ writes[p] # <<>>
      BY <1>2 DEF IInv, TypeOK, DoWrite
    <3> QED
      BY <3>1
  <2> HIDE DEF w
  <2>3. ~(w.kind = "clear" /\ w.key = k)
    BY <2>2 DEF IInv, ClearsByForce
  <2>4. CASE w.key # k
    BY <1>0, <1>1, <2>1, <2>4
  <2>5. CASE w.key = k /\ w.kind = "set"
    <3>1. flag'[k] /\ setAt'[k] = setAt[k]
      BY <1>0, <2>1, <2>5
    <3> QED
      BY <3>1 DEF InForce, DayOver, WeekOver
  <2>6. CASE w.key = k /\ w.kind = "stamp"
    <3>1. flag'[k] = flag[k] /\ setAt'[k] = today
      BY <1>0, <2>1, <2>6
    <3>2. ~DayOver(k)' /\ ~WeekOver(k)'
      BY <1>0, <3>1 DEF DayOver, WeekOver
    <3> QED
      BY <3>1, <3>2 DEF InForce
  <2> QED
    BY <2>2, <2>3, <2>4, <2>5, <2>6 DEF Write
<1>3. CASE UNCHANGED <<flag, setAt>>
  BY <1>1, <1>3
<1>4. CASE ~\E p \in Processes : DoWrite(p)
  <2>1. UNCHANGED <<flag, setAt>>
    BY <1>4 DEF Next, vars, CheckAndTrip, CheckMM, CheckE3, CheckEngine, Trip, ManualHalt,
                ManualResume, ForceResumeAll, Begin, Crash, Loss, Gain, NextDay
  <2> QED
    BY <1>3, <2>1
<1> QED
  BY <1>2, <1>4

\* An automatic halt ends only with its day or week, or in a step of a process that is
\* at force_resume_all.
THEOREM OnlyForceLiftsHolds == Spec => OnlyForceLifts
<1>1. IInv /\ [Next]_vars =>
        \A k \in Keys \ {"halt_manual"} : InForce(k) /\ ~InForce(k)' =>
          today' # today \/ \E p \in Processes : op[p] = "force_resume_all"
  BY InForceStays
<1> QED
  BY <1>1, Invariance, PTL DEF Spec, OnlyForceLifts

-----------------------------------------------------------------------------
(* The market maker's day, whose difference halt_mm_daily is checked against *)

\* Since the first call of the stored day, unless it was cut short or the sum wiped
\* after it, the baseline has been there, and the sum has moved by what was counted.
BaselineHolds ==
  storedDay # None /\ ~spoiled => baseline # None /\ total - baseline = counted

DayIInv == DayTypeOK /\ BaselineHolds

\* Every initial state satisfies DayIInv.
LEMMA DayInitIInv == DayInit => DayIInv
<1>1. 0 \in 0 .. LastDay /\ 0 \in -MaxTotal .. MaxTotal /\ 0 \in 0 .. MaxDeaths
  BY DayAssumption
<1> QED
  BY <1>1 DEF DayInit, DayIInv, DayTypeOK, Totals, BaselineHolds

\* DayIInv is inductive.
LEMMA DayNextIInv == ASSUME DayIInv, [DayNext]_dayVars PROVE DayIInv'
<1>0. /\ date \in 0 .. LastDay /\ total \in -MaxTotal .. MaxTotal
      /\ storedDay \in 0 .. LastDay \cup {None}
      /\ baseline \in -MaxTotal .. MaxTotal \cup {None}
      /\ counted \in -MaxTotal .. MaxTotal /\ spoiled \in BOOLEAN /\ deaths \in 0 .. MaxDeaths
      /\ MaxTotal \in Nat /\ LastDay \in Nat /\ MaxDeaths \in Nat /\ None \notin Int
  BY DayAssumption DEF DayIInv, DayTypeOK, Totals
<1>1. CASE FirstCall
  <2>1. /\ storedDay' = date /\ baseline' = total /\ counted' = 0 /\ spoiled' = FALSE
        /\ UNCHANGED <<date, total, deaths>>
    BY <1>1 DEF FirstCall
  <2>2. 0 \in -MaxTotal .. MaxTotal /\ total - total = 0 /\ total # None
    BY <1>0
  <2> QED
    BY <1>0, <2>1, <2>2 DEF DayIInv, DayTypeOK, Totals, BaselineHolds
<1>2. CASE FirstCallDies
  <2>1. /\ storedDay' = date /\ counted' = 0 /\ spoiled' = TRUE /\ deaths' = deaths + 1
        /\ deaths < MaxDeaths /\ UNCHANGED <<date, total, baseline>>
    BY <1>2 DEF FirstCallDies
  <2>2. 0 \in -MaxTotal .. MaxTotal /\ deaths + 1 \in 0 .. MaxDeaths
    BY <1>0, <2>1
  <2> QED
    BY <1>0, <2>1, <2>2 DEF DayIInv, DayTypeOK, Totals, BaselineHolds
<1>3. ASSUME NEW delta \in {-1, 1}, Realize(delta) PROVE DayIInv'
  <2>1. /\ total' = total + delta /\ counted' = counted + delta
        /\ total' \in -MaxTotal .. MaxTotal /\ counted' \in -MaxTotal .. MaxTotal
        /\ UNCHANGED <<date, storedDay, baseline, spoiled, deaths>>
    BY <1>3 DEF Realize, Totals
  <2>2. delta \in Int
    OBVIOUS
  <2>3. baseline # None /\ total - baseline = counted => total' - baseline = counted'
    BY <1>0, <2>1, <2>2
  <2> QED
    BY <1>0, <2>1, <2>3 DEF DayIInv, DayTypeOK, Totals, BaselineHolds
<1>4. CASE Wipe
  <2>1. /\ total' = 0 /\ spoiled' = TRUE
        /\ UNCHANGED <<date, storedDay, baseline, counted, deaths>>
    BY <1>4 DEF Wipe
  <2>2. 0 \in -MaxTotal .. MaxTotal
    BY <1>0
  <2> QED
    BY <1>0, <2>1, <2>2 DEF DayIInv, DayTypeOK, Totals, BaselineHolds
<1>5. CASE Midnight
  <2>1. /\ date' = date + 1 /\ date < LastDay
        /\ UNCHANGED <<total, storedDay, baseline, counted, spoiled, deaths>>
    BY <1>5 DEF Midnight
  <2>2. date' \in 0 .. LastDay
    BY <1>0, <2>1
  <2> QED
    BY <1>0, <2>1, <2>2 DEF DayIInv, DayTypeOK, Totals, BaselineHolds
<1>6. CASE UNCHANGED dayVars
  BY <1>6 DEF dayVars, DayIInv, DayTypeOK, Totals, BaselineHolds
<1> QED
  BY <1>1, <1>2, <1>3, <1>4, <1>5, <1>6 DEF DayNext

\* What the daily limit of the market maker is checked against is what was realized since
\* the day's first call, unless that call was cut short or the sum wiped after it: what a
\* crash or a wipe did to an earlier day is over (mm_delta_today_and_total).
THEOREM DeltaRecoversHolds == DaySpec => []DeltaRecovers
<1>1. DayInit => DayIInv
  BY DayInitIInv
<1>2. DayIInv /\ [DayNext]_dayVars => DayIInv'
  BY DayNextIInv
<1>3. DayIInv => DeltaRecovers
  <2> SUFFICES ASSUME DayIInv, storedDay = date, ~spoiled PROVE DeltaToday = counted
    BY DEF DeltaRecovers
  <2>1. storedDay # None
    BY DayAssumption DEF DayIInv, DayTypeOK
  <2> QED
    BY <2>1 DEF DayIInv, BaselineHolds, DeltaToday
<1> QED
  BY <1>1, <1>2, <1>3, PTL DEF DaySpec
=============================================================================
