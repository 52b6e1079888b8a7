------------------------- MODULE PresignedPoolProofs -------------------------
(***************************************************************************)
(* A payload is handed out once, a dropped unit stays dropped, the pool    *)
(* keeps its order and its limit, and a submission accounts for its orders: *)
(* for every set of units and callers and every setting of the pool.       *)
(***************************************************************************)
EXTENDS PresignedPool, FiniteSetTheorems, TLAPS

Entry == [templates: SUBSET Template, lastRefresh: 0 .. MaxNow, lastAsk: Asks \cup {0}]
News == [unit: Units, ask: Asks, base: Bases]
Signing == [unit: Units, ask: Asks, size: Nat \ {0}, rungs: 0 .. Ladder - 1,
            since: 0 .. MaxNow, new: SUBSET Template]
Record == [step: {"idle", "template", "again", "presigned", "fresh", "done"},
           tpl: Template \cup {None}, result: {"filled", "not filled", None},
           taken: Nat, raised: Nat, rests: BOOLEAN]

\* No two payloads have one serial number, in whichever ladders they are, and none
\* has a number that is still to be given.
Serials ==
  /\ \A u \in DOMAIN pool : \A t \in pool[u].templates :
       /\ t.signing <= signed
       /\ \A v \in DOMAIN pool : \A s \in pool[v].templates :
            s.signing = t.signing => s = t
       /\ worker # None => \A s \in worker.new : s.signing # t.signing
  /\ worker # None =>
       \A t \in worker.new :
         t.signing <= signed /\ \A s \in worker.new : s.signing = t.signing => s = t

\* The sets are finite, and the ladder being signed has at most a payload a rung,
\* each of the unit and at a metric of the ladder.
LadderInOrder ==
  worker # None =>
    /\ IsFiniteSet(worker.new) /\ Cardinality(worker.new) <= worker.rungs
    /\ \A t \in worker.new :
         /\ t.unit = worker.unit
         /\ t.metric \in {Rung(worker.ask, i) : i \in 0 .. Ladder - 1}

Finite ==
  /\ IsFiniteSet(DOMAIN pool)
  /\ \A u \in DOMAIN pool : IsFiniteSet(pool[u].templates)

\* Nothing that was announced and still waits in the queue counts as dropped.
QueuedNotDropped == \A i \in DOMAIN queue : queue[i].unit \notin dropped

\* A call has taken no more orders than posts of it raised, until the post that ends
\* it; an idle one has not begun.
CallInOrder(r) ==
  /\ r.step # "done" => r.taken <= r.raised /\ r.result # "filled"
  /\ r.taken <= 1 + r.raised
  /\ r.result = "filled" => r.taken > 0
  /\ r.step = "done" /\ r.taken > 0 /\ r.result # "filled" => r.rests \/ r.raised > 0

CallsInOrder == \A c \in Calls : CallInOrder(call[c])

IInv ==
  /\ TypeOK /\ Serials /\ LadderInOrder /\ Finite /\ QueuedNotDropped /\ CallsInOrder
  /\ HandedOnce /\ DropHolds /\ PoolInOrder

-----------------------------------------------------------------------------
(* The operators *)

\* A size is at least one and a metric is above zero and not beyond the top.
LEMMA SharesPositive ==
  ASSUME NEW base \in Nat \ {0}, NEW ask \in Nat \ {0}
  PROVE  Shares(base, ask) \in Nat \ {0}
<1>1. base \div ask \in Int
  OBVIOUS
<1> DEFINE rounded == IF \/ 2 * (base % ask) > ask
                         \/ 2 * (base % ask) = ask /\ (base \div ask) % 2 = 1
                      THEN base \div ask + 1 ELSE base \div ask
<1>2. rounded \in Int
  BY <1>1
<1> HIDE DEF rounded
<1>3. Shares(base, ask) = IF rounded < 1 THEN 1 ELSE rounded
  BY DEF Shares, rounded
<1> QED
  BY <1>2, <1>3

\* Every rung is a metric the exchange takes.
LEMMA RungInRange ==
  ASSUME NEW ask \in Nat \ {0}, NEW i \in Nat
  PROVE  Rung(ask, i) \in 1 .. TopMetric
BY PoolAssumption DEF Rung

\* An entry for a unit is there or is made, empty, and the pool keeps to its limit:
\* every other entry is one that was there.
LEMMA EntryMade ==
  ASSUME TypeOK, Finite, Cardinality(DOMAIN pool) <= MaxUnits,
         NEW u \in Units, NEW w \in WithEntry(u)
  PROVE  /\ u \in DOMAIN w /\ DOMAIN w \subseteq DOMAIN pool \cup {u}
         /\ \A v \in DOMAIN w : w[v] = IF v \in DOMAIN pool THEN pool[v] ELSE NewEntry
         /\ IsFiniteSet(DOMAIN w) /\ Cardinality(DOMAIN w) <= MaxUnits
<1>1. CASE u \in DOMAIN pool
  BY <1>1 DEF WithEntry, Finite
<1>2. CASE u \notin DOMAIN pool
  <2> DEFINE oldest == {v \in DOMAIN pool :
                          \A x \in DOMAIN pool : pool[v].lastRefresh <= pool[x].lastRefresh}
             kept == IF Cardinality(DOMAIN pool) < MaxUnits THEN {DOMAIN pool}
                     ELSE {DOMAIN pool \ {v} : v \in oldest}
  <2>1. PICK K \in kept : w = [v \in K \cup {u} |-> IF v = u THEN NewEntry ELSE pool[v]]
    BY <1>2 DEF WithEntry
  <2>2. IsFiniteSet(DOMAIN pool) /\ Cardinality(DOMAIN pool) \in Nat /\ MaxUnits \in Nat
    BY FS_CardinalityType, PoolAssumption DEF Finite
  <2>3. K \subseteq DOMAIN pool /\ IsFiniteSet(K) /\ Cardinality(K) < MaxUnits
        /\ Cardinality(K) \in Nat
    <3>1. CASE Cardinality(DOMAIN pool) < MaxUnits
      BY <2>2, <3>1
    <3>2. CASE ~(Cardinality(DOMAIN pool) < MaxUnits)
      <4>1. PICK v \in DOMAIN pool : K = DOMAIN pool \ {v}
        BY <2>1, <3>2
      <4>2. IsFiniteSet(K) /\ Cardinality(K) = Cardinality(DOMAIN pool) - 1
        BY <2>2, <4>1, FS_RemoveElement
      <4>3. Cardinality(K) \in Nat
        BY <4>2, FS_CardinalityType
      <4> QED
        BY <2>2, <4>1, <4>2, <4>3
    <3> QED
      BY <3>1, <3>2
  <2>4. u \notin K
    BY <1>2, <2>3
  <2>5. IsFiniteSet(K \cup {u}) /\ Cardinality(K \cup {u}) = Cardinality(K) + 1
    BY <2>3, <2>4, FS_AddElement
  <2> HIDE DEF kept
  <2> QED
    BY <1>2, <2>1, <2>2, <2>3, <2>5
<1> QED
  BY <1>1, <1>2

\* The chosen payload is one of the unit's, and the pool after it has the others and
\* no more.
LEMMA TakenShrinks ==
  ASSUME TypeOK, NEW u, NEW t
  PROVE  LET w == Taken(u, t)
         IN  /\ DOMAIN w = DOMAIN pool
             /\ \A v \in DOMAIN pool :
                  /\ w[v] \in Entry /\ w[v].lastAsk = pool[v].lastAsk
                  /\ w[v].templates \subseteq pool[v].templates
             /\ u \in DOMAIN pool => t \notin w[u].templates
<1>1. \A v \in DOMAIN pool : pool[v] \in Entry
  BY DEF TypeOK, Entry
<1>2. CASE u \in DOMAIN pool
  <2> DEFINE rest == {s \in pool[u].templates : Usable(s)} \ {t}
  <2>1. Taken(u, t) = [pool EXCEPT ![u] = [pool[u] EXCEPT !.templates = rest]]
    BY <1>2 DEF Taken
  <2>2. rest \subseteq pool[u].templates /\ t \notin rest
    OBVIOUS
  <2> HIDE DEF rest
  <2>3. /\ [pool[u] EXCEPT !.templates = rest] \in Entry
        /\ [pool[u] EXCEPT !.templates = rest].templates = rest
        /\ [pool[u] EXCEPT !.templates = rest].lastAsk = pool[u].lastAsk
    BY <1>1, <1>2, <2>2 DEF Entry
  <2> QED
    BY <1>1, <1>2, <2>1, <2>2, <2>3
<1>3. CASE u \notin DOMAIN pool
  BY <1>1, <1>3 DEF Taken
<1> QED
  BY <1>2, <1>3

-----------------------------------------------------------------------------
(* The parts of a step *)

\* While the entries lose payloads, or leave the pool, or are made empty, the pool
\* stays in order and what it and the worker hold stays told apart.
Shrinks ==
  /\ DOMAIN pool' \subseteq Units
  /\ IsFiniteSet(DOMAIN pool') /\ Cardinality(DOMAIN pool') <= MaxUnits
  /\ \A u \in DOMAIN pool' :
       /\ pool'[u] \in Entry
       /\ IF u \in DOMAIN pool
          THEN /\ pool'[u].templates \subseteq pool[u].templates
               /\ pool'[u].lastAsk = pool[u].lastAsk
          ELSE pool'[u].templates = {}

\* A pool from which payloads are taken out, and nothing else, keeps its parts of IInv.
LEMMA PoolShrinks ==
  ASSUME IInv, Shrinks, signed' = signed,
         worker' = worker \/ worker' = None \/ worker'.new = {}
  PROVE  Serials' /\ Finite' /\ PoolInOrder'
<1>1. Serials'
  BY DEF IInv, Serials, Shrinks
<1>2. ASSUME NEW u \in DOMAIN pool'
      PROVE  /\ IsFiniteSet(pool'[u].templates)
             /\ Cardinality(pool'[u].templates) <= Ladder
  <2>1. CASE u \in DOMAIN pool
    <3>1. /\ pool'[u].templates \subseteq pool[u].templates
          /\ IsFiniteSet(pool[u].templates) /\ Cardinality(pool[u].templates) <= Ladder
      BY <1>2, <2>1 DEF IInv, Shrinks, Finite, PoolInOrder
    <3>2. /\ IsFiniteSet(pool'[u].templates) /\ Cardinality(pool'[u].templates) \in Nat
          /\ Cardinality(pool[u].templates) \in Nat
          /\ Cardinality(pool'[u].templates) <= Cardinality(pool[u].templates)
      BY <3>1, FS_Subset, FS_CardinalityType
    <3> QED
      BY <3>1, <3>2, PoolAssumption
  <2>2. CASE u \notin DOMAIN pool
    BY <1>2, <2>2, FS_EmptySet, PoolAssumption DEF Shrinks
  <2> QED
    BY <2>1, <2>2
<1>3. PoolInOrder'
  <2>1. ASSUME NEW u \in DOMAIN pool', NEW t \in pool'[u].templates
        PROVE  /\ t.unit = u
               /\ t.metric \in {Rung(pool'[u].lastAsk, i) : i \in 0 .. Ladder - 1}
    BY <2>1 DEF IInv, Shrinks, PoolInOrder
  <2>2. \A u \in DOMAIN pool' : \A t \in pool'[u].templates :
          /\ t.unit = u
          /\ t.metric \in {Rung(pool'[u].lastAsk, i) : i \in 0 .. Ladder - 1}
    BY <2>1
  <2> QED
    BY <1>2, <2>2 DEF PoolInOrder, Shrinks, Rung
<1>4. Finite'
  BY <1>2 DEF Finite, Shrinks
<1> QED
  BY <1>1, <1>3, <1>4

\* What pop_matching does to the pool, to the payloads handed out and to the call.
LEMMA PopKeeps ==
  ASSUME IInv, NEW c \in Calls, NEW leg, NEW found, NEW missed,
         Pop(c, leg, found, missed), UNCHANGED <<queue, worker, now, signed, dropped>>,
         call[c].step # "done",
         {found, missed} \subseteq {"idle", "template", "again", "presigned", "fresh"}
  PROVE  IInv'
<1>0. TypeOK
  BY DEF IInv
<1>1. PICK t : /\ pool' = Taken(leg.unit, t) /\ t \in Template \cup {None}
               /\ \E step \in {found, missed} :
                    call' = [call EXCEPT ![c].step = step, ![c].tpl = t]
               /\ \/ handed' = handed
                  \/ /\ handed' = handed \cup {t.signing} /\ leg.unit \in DOMAIN pool
                     /\ t \in pool[leg.unit].templates
  <2>1. CASE Chosen(leg) = {}
    <3>1. pool' = Taken(leg.unit, None) /\ handed' = handed
          /\ call' = [call EXCEPT ![c].step = missed, ![c].tpl = None]
      BY <2>1 DEF Pop
    <3> QED
      BY <3>1
  <2>2. CASE Chosen(leg) # {}
    <3>1. PICK t \in Chosen(leg) :
            /\ pool' = Taken(leg.unit, t) /\ handed' = handed \cup {t.signing}
            /\ call' = [call EXCEPT ![c].step = found, ![c].tpl = t]
      BY <2>2 DEF Pop
    <3>2. leg.unit \in DOMAIN pool /\ t \in pool[leg.unit].templates
      BY <3>1 DEF Chosen
    <3>3. t \in Template
      BY <1>0, <3>2 DEF TypeOK
    <3> QED
      BY <3>1, <3>2, <3>3
  <2> QED
    BY <2>1, <2>2
<1>2. /\ DOMAIN pool' = DOMAIN pool
      /\ \A v \in DOMAIN pool :
           /\ pool'[v] \in Entry /\ pool'[v].lastAsk = pool[v].lastAsk
           /\ pool'[v].templates \subseteq pool[v].templates
      /\ leg.unit \in DOMAIN pool => t \notin pool'[leg.unit].templates
  BY <1>0, <1>1, TakenShrinks
<1>3. Shrinks
  BY <1>2 DEF Shrinks, IInv, TypeOK, Finite, PoolInOrder
<1>4. Serials' /\ Finite' /\ PoolInOrder'
  BY <1>3, PoolShrinks
<1>5. /\ call' \in [Calls -> Record]
      /\ call'[c].taken = call[c].taken /\ call'[c].raised = call[c].raised
      /\ call'[c].result = call[c].result /\ call'[c].rests = call[c].rests
      /\ call'[c].step # "done" /\ \A d \in Calls : d # c => call'[d] = call[d]
  <2>1. PICK step \in {found, missed} :
          call' = [call EXCEPT ![c].step = step, ![c].tpl = t]
    BY <1>1
  <2>2. call \in [Calls -> Record]
    BY <1>0 DEF TypeOK, Record
  <2>3. call' = [call EXCEPT ![c] = [call[c] EXCEPT !.step = step, !.tpl = t]]
    BY <2>1, <2>2
  <2>4. /\ step \in {"idle", "template", "again", "presigned", "fresh"}
        /\ t \in Template \cup {None}
    BY <1>1, <2>1
  <2> QED
    BY <2>2, <2>3, <2>4 DEF Record
<1>6. handed' \subseteq 1 .. signed
  <2>1. t \in Template => t.signing \in 1 .. MaxSigned
    BY DEF Template
  <2>2. leg.unit \in DOMAIN pool /\ t \in pool[leg.unit].templates
          => t \in Template /\ t.signing <= signed
    BY <1>0 DEF TypeOK, IInv, Serials
  <2>3. signed \in Nat /\ handed \subseteq 1 .. signed
    <3>1. signed \in 0 .. MaxSigned /\ handed \subseteq 1 .. signed
      BY <1>0 DEF TypeOK
    <3> QED
      BY <3>1
  <2> QED
    BY <1>1, <2>1, <2>2, <2>3, PoolAssumption
<1>7. TypeOK'
  BY <1>2, <1>5, <1>6 DEF IInv, TypeOK, Entry, Record
<1>8. HandedOnce'
  BY <1>1, <1>2 DEF IInv, HandedOnce, Serials, PoolInOrder
<1>9. LadderInOrder' /\ QueuedNotDropped' /\ DropHolds'
  BY <1>2 DEF IInv, LadderInOrder, Rung, QueuedNotDropped, DropHolds
<1>10. CallsInOrder'
  BY <1>5 DEF IInv, CallsInOrder, CallInOrder
<1> QED
  BY <1>4, <1>7, <1>8, <1>9, <1>10 DEF IInv

\* A post accounts for its order: taken, raised, resting or refused.
LEMMA AfterPostInOrder ==
  ASSUME NEW r \in Record, r.taken <= r.raised, r.result # "filled",
         NEW outcome \in Outcomes, NEW fallback \in {"again", "fresh", "done"}
  PROVE  /\ AfterPost(r, outcome, fallback) \in Record
         /\ CallInOrder(AfterPost(r, outcome, fallback))
<1> DEFINE step == IF Raises(outcome) THEN fallback ELSE "done"
           tpl == IF Raises(outcome) /\ fallback = "again" THEN r.tpl ELSE None
           result == IF Raises(outcome) THEN None ELSE Parsed(outcome)
           taken == IF outcome \in {"filled", "resting", "lost"} THEN r.taken + 1 ELSE r.taken
           raised == IF Raises(outcome) THEN r.raised + 1 ELSE r.raised
           rests == r.rests \/ outcome = "resting"
           s == [r EXCEPT !.step = step, !.tpl = tpl, !.result = result,
                          !.taken = taken, !.raised = raised, !.rests = rests]
<1>1. /\ r.tpl \in Template \cup {None}
      /\ r.taken \in Nat /\ r.raised \in Nat /\ r.rests \in BOOLEAN
  BY DEF Record
<1>2. step \in {"again", "fresh", "done"} /\ tpl \in Template \cup {None}
  BY <1>1
<1>3. result \in {"filled", "not filled", None}
  BY DEF Parsed
<1>4. taken \in Nat /\ raised \in Nat
  BY <1>1
<1>5. rests \in BOOLEAN
  BY <1>1
<1>6. AfterPost(r, outcome, fallback) = s
  BY DEF AfterPost
<1>7. /\ outcome \in {"lost", "unsent"} => result = None /\ raised = r.raised + 1
                                           /\ taken \in {r.taken, r.taken + 1}
      /\ outcome = "filled" => result = "filled" /\ taken = r.taken + 1 /\ raised = r.raised
                               /\ step = "done"
      /\ outcome = "resting" => result = "not filled" /\ taken = r.taken + 1
                                /\ raised = r.raised /\ step = "done"
      /\ outcome = "refused" => result = "not filled" /\ taken = r.taken
                                /\ raised = r.raised /\ step = "done"
  BY DEF Raises, Parsed
<1> HIDE DEF step, tpl, result, taken, raised, rests
<1>8. /\ s \in Record
      /\ s.step = step /\ s.result = result /\ s.taken = taken
      /\ s.raised = raised /\ s.rests = rests
  BY <1>2, <1>3, <1>4, <1>5 DEF Record
<1> HIDE DEF s
<1>9. /\ taken <= 1 + raised
      /\ step # "done" => taken <= raised /\ result # "filled"
      /\ result = "filled" => taken > 0
      /\ taken > 0 /\ result # "filled" => outcome = "resting" \/ raised > 0
  <2>1. CASE outcome \in {"lost", "unsent"}
    <3>1. taken \in {r.taken, r.taken + 1} /\ raised = r.raised + 1
      BY <1>7, <2>1
    <3>2. taken <= raised /\ taken <= 1 + raised /\ raised > 0
      BY <1>1, <3>1
    <3>3. result # "filled"
      BY <1>7, <2>1, PoolAssumption
    <3> QED
      BY <3>2, <3>3
  <2>2. CASE outcome = "filled"
    BY <1>1, <1>7, <2>2
  <2>3. CASE outcome = "resting"
    <3>1. taken = r.taken + 1 /\ raised = r.raised
      BY <1>7, <2>3
    <3>2. taken <= 1 + raised
      BY <1>1, <3>1
    <3>3. step = "done" /\ result # "filled"
      BY <1>7, <2>3
    <3> QED
      BY <2>3, <3>2, <3>3
  <2>4. CASE outcome = "refused"
    <3>1. taken = r.taken /\ raised = r.raised
      BY <1>7, <2>4
    <3>2. taken <= 1 + raised /\ (taken > 0 => raised > 0)
      BY <1>1, <3>1
    <3>3. step = "done" /\ result # "filled"
      BY <1>7, <2>4
    <3> QED
      BY <3>2, <3>3
  <2> QED
    BY <2>1, <2>2, <2>3, <2>4 DEF Outcomes
<1>10. outcome = "resting" => s.rests
  BY <1>8 DEF rests
<1> QED
  BY <1>6, <1>8, <1>9, <1>10 DEF CallInOrder

\* What a post does to the call.
LEMMA PostKeeps ==
  ASSUME IInv, NEW c \in Calls, NEW outcome \in Outcomes,
         NEW fallback \in {"again", "fresh", "done"}, call[c].step \notin {"idle", "done"},
         call' = [call EXCEPT ![c] = AfterPost(@, outcome, fallback)],
         UNCHANGED <<pool, queue, worker, now, signed, handed, dropped>>
  PROVE  IInv'
<1> DEFINE s == AfterPost(call[c], outcome, fallback)
<1>1. /\ call \in [Calls -> Record] /\ call[c] \in Record
      /\ call[c].taken <= call[c].raised /\ call[c].result # "filled"
  BY DEF IInv, TypeOK, Record, CallsInOrder, CallInOrder
<1>2. s \in Record /\ CallInOrder(s)
  BY <1>1, AfterPostInOrder
<1>3. /\ call' \in [Calls -> Record] /\ call'[c] = s
      /\ \A d \in Calls : d # c => call'[d] = call[d]
  BY <1>1, <1>2
<1> HIDE DEF s
<1>4. TypeOK'
  BY <1>3 DEF IInv, TypeOK, Record
<1>5. CallsInOrder'
  BY <1>2, <1>3 DEF IInv, CallsInOrder, CallInOrder
<1> QED
  BY <1>4, <1>5 DEF IInv, Serials, LadderInOrder, Rung, Finite, QueuedNotDropped,
                    HandedOnce, DropHolds, PoolInOrder

-----------------------------------------------------------------------------
(* The invariant *)

\* Every initial state satisfies IInv.
LEMMA InitIInv == Init => IInv
<1> SUFFICES ASSUME Init PROVE IInv
  OBVIOUS
<1>1. TypeOK
  BY PoolAssumption DEF Init, TypeOK, Idle
<1>2. IsFiniteSet(DOMAIN pool) /\ Cardinality(DOMAIN pool) = 0 /\ DOMAIN pool = {}
  BY FS_EmptySet DEF Init
<1>3. Finite /\ PoolInOrder /\ HandedOnce /\ DropHolds /\ Serials /\ LadderInOrder
  BY <1>2, PoolAssumption DEF Init, Finite, PoolInOrder, HandedOnce, DropHolds,
                              Serials, LadderInOrder
<1>4. QueuedNotDropped /\ CallsInOrder
  BY PoolAssumption DEF Init, QueuedNotDropped, CallsInOrder, CallInOrder, Idle
<1> QED
  BY <1>1, <1>3, <1>4 DEF IInv

\* notify_book leaves IInv true.
LEMMA NotifyKeeps ==
  ASSUME IInv, NEW u \in Units, NEW ask \in Asks, NEW base \in Bases,
         NotifyBook(u, ask, base)
  PROVE  IInv'
<1> DEFINE n == [unit |-> u, ask |-> ask, base |-> base]
<1>1. UNCHANGED <<pool, worker, call, now, signed, handed>>
  BY DEF NotifyBook
<1>2. queue \in Seq(News) /\ n \in News /\ dropped \subseteq Units /\ Len(queue) <= QueueSize
  BY DEF IInv, TypeOK, News
<1>3. /\ queue' \in Seq(News) /\ Len(queue') <= QueueSize /\ dropped' \subseteq dropped
      /\ QueuedNotDropped'
  <2>1. CASE Len(queue) < QueueSize
    <3>1. queue' = Append(queue, n) /\ dropped' = dropped \ {u}
      BY <2>1 DEF NotifyBook
    <3>2. /\ queue' \in Seq(News) /\ Len(queue') = Len(queue) + 1
          /\ \A i \in DOMAIN queue' :
               queue'[i] = IF i = Len(queue) + 1 THEN n ELSE queue[i]
          /\ \A i \in DOMAIN queue' : i # Len(queue) + 1 => i \in DOMAIN queue
      BY <1>2, <3>1
    <3>3. n.unit = u
      OBVIOUS
    <3> HIDE DEF n
    <3>4. Len(queue') <= QueueSize
      BY <1>2, <2>1, <3>2, PoolAssumption
    <3>5. ASSUME NEW i \in DOMAIN queue' PROVE queue'[i].unit \notin dropped'
      <4>1. CASE i = Len(queue) + 1
        BY <3>1, <3>2, <3>3, <4>1
      <4>2. CASE i # Len(queue) + 1
        BY <3>1, <3>2, <4>2 DEF IInv, QueuedNotDropped
      <4> QED
        BY <4>1, <4>2
    <3> QED
      BY <3>1, <3>2, <3>4, <3>5 DEF QueuedNotDropped
  <2>2. CASE ~(Len(queue) < QueueSize)
    BY <1>2, <2>2 DEF NotifyBook, IInv, QueuedNotDropped
  <2> QED
    BY <2>1, <2>2
<1>4. TypeOK'
  BY <1>1, <1>2, <1>3 DEF IInv, TypeOK, News
<1> QED
  BY <1>1, <1>3, <1>4 DEF IInv, Serials, LadderInOrder, Rung, Finite, CallsInOrder,
                          CallInOrder, HandedOnce, DropHolds, PoolInOrder

\* Dropping a unit leaves IInv true.
LEMMA DropKeeps ==
  ASSUME IInv, NEW u \in Units, DropUnit(u)
  PROVE  IInv'
<1>1. UNCHANGED <<queue, worker, call, now, signed, handed>>
  BY DEF DropUnit
<1>2. /\ DOMAIN pool' = DOMAIN pool \ {u}
      /\ \A v \in DOMAIN pool' : pool'[v] = pool[v]
  BY DEF DropUnit, Restrict
<1>3. Shrinks
  <2>1. IsFiniteSet(DOMAIN pool) /\ Cardinality(DOMAIN pool) <= MaxUnits
    BY DEF IInv, Finite, PoolInOrder
  <2>2. /\ IsFiniteSet(DOMAIN pool') /\ Cardinality(DOMAIN pool') <= MaxUnits
    <3>1. IsFiniteSet(DOMAIN pool') /\ Cardinality(DOMAIN pool') <= Cardinality(DOMAIN pool)
      BY <1>2, <2>1, FS_Subset
    <3>2. Cardinality(DOMAIN pool') \in Nat /\ Cardinality(DOMAIN pool) \in Nat
      BY <2>1, <3>1, FS_CardinalityType
    <3> QED
      BY <2>1, <3>1, <3>2, PoolAssumption
  <2> QED
    BY <1>2, <2>2 DEF Shrinks, IInv, TypeOK, Entry
<1>4. Serials' /\ Finite' /\ PoolInOrder'
  BY <1>1, <1>3, PoolShrinks
<1>5. /\ dropped' \subseteq dropped \cup {u}
      /\ u \in dropped' => u \in dropped \/ \A i \in DOMAIN queue : queue[i].unit # u
  BY DEF DropUnit, ToSet
<1>6. QueuedNotDropped' /\ DropHolds' /\ HandedOnce'
  BY <1>1, <1>2, <1>5 DEF IInv, QueuedNotDropped, DropHolds, HandedOnce
<1>7. TypeOK'
  BY <1>1, <1>3, <1>5 DEF IInv, TypeOK, Shrinks, Entry
<1> QED
  BY <1>1, <1>4, <1>6, <1>7 DEF IInv, LadderInOrder, Rung, CallsInOrder, CallInOrder

\* A worker that takes the next announcement leaves IInv true.
LEMMA TakeNewsKeeps ==
  ASSUME IInv, TakeNews
  PROVE  IInv'
<1> DEFINE n == Head(queue)
<1>1. /\ worker = None /\ queue # <<>> /\ queue' = Tail(queue)
      /\ UNCHANGED <<call, now, signed, handed, dropped>>
  BY DEF TakeNews
<1>2. queue \in Seq(News) /\ Len(queue) <= QueueSize /\ now \in 0 .. MaxNow
  BY DEF IInv, TypeOK, News
<1>3. /\ n \in News /\ n.unit \notin dropped
      /\ queue' \in Seq(News) /\ Len(queue') <= QueueSize /\ QueuedNotDropped'
  <2>1. /\ n = queue[1] /\ 1 \in DOMAIN queue /\ n \in News
        /\ queue' \in Seq(News) /\ Len(queue') = Len(queue) - 1
        /\ \A i \in DOMAIN queue' : i + 1 \in DOMAIN queue /\ queue'[i] = queue[i + 1]
    BY <1>1, <1>2
  <2> HIDE DEF n
  <2> QED
    BY <1>1, <1>2, <2>1, PoolAssumption DEF IInv, QueuedNotDropped
<1> HIDE DEF n
<1>4. PICK w \in WithEntry(n.unit) :
        /\ LET young == {t \in w[n.unit].templates : Young(t)}
           IN  pool' \in {w, [w EXCEPT ![n.unit].templates = young]}
        /\ worker' \in {None, [unit |-> n.unit, ask |-> n.ask,
                               size |-> Shares(n.base, n.ask), rungs |-> 0,
                               since |-> now, new |-> {}]}
  BY DEF TakeNews, n
<1> DEFINE young == {t \in w[n.unit].templates : Young(t)}
<1>14. young \subseteq w[n.unit].templates /\ pool' \in {w, [w EXCEPT ![n.unit].templates = young]}
  BY <1>4
<1> HIDE DEF young
<1>5. /\ n.unit \in DOMAIN w /\ DOMAIN w \subseteq DOMAIN pool \cup {n.unit}
      /\ \A v \in DOMAIN w : w[v] = IF v \in DOMAIN pool THEN pool[v] ELSE NewEntry
      /\ IsFiniteSet(DOMAIN w) /\ Cardinality(DOMAIN w) <= MaxUnits
  BY <1>3, EntryMade DEF IInv, PoolInOrder, News
<1>6. NewEntry \in Entry /\ \A v \in DOMAIN w : w[v] \in Entry
  <2>1. NewEntry \in Entry
    BY PoolAssumption DEF NewEntry, Entry
  <2> QED
    BY <1>5, <2>1 DEF IInv, TypeOK, Entry
<1>7. Shrinks
  <2>1. CASE pool' = w
    <3>1. NewEntry.templates = {}
      BY DEF NewEntry
    <3>2. n.unit \in Units /\ DOMAIN pool \subseteq Units
      BY <1>3 DEF IInv, TypeOK, News
    <3> QED
      BY <1>5, <1>6, <2>1, <3>1, <3>2 DEF Shrinks
  <2>2. CASE pool' = [w EXCEPT ![n.unit].templates = young]
    <3>1. pool' = [w EXCEPT ![n.unit] = [w[n.unit] EXCEPT !.templates = young]]
      BY <2>2
    <3>2. /\ [w[n.unit] EXCEPT !.templates = young] \in Entry
          /\ [w[n.unit] EXCEPT !.templates = young].templates = young
          /\ [w[n.unit] EXCEPT !.templates = young].lastAsk = w[n.unit].lastAsk
      BY <1>14, <1>5, <1>6 DEF Entry
    <3>3. /\ DOMAIN pool' = DOMAIN w
          /\ \A v \in DOMAIN w : /\ pool'[v] \in Entry /\ pool'[v].lastAsk = w[v].lastAsk
                                 /\ pool'[v].templates \subseteq w[v].templates
      BY <1>14, <1>5, <1>6, <3>1, <3>2
    <3>4. NewEntry.templates = {}
      BY DEF NewEntry
    <3>5. DOMAIN pool' \subseteq Units
      BY <1>3, <1>5, <3>3 DEF IInv, TypeOK, News
    <3>6. IsFiniteSet(DOMAIN pool') /\ Cardinality(DOMAIN pool') <= MaxUnits
      BY <1>5, <3>3
    <3>7. ASSUME NEW v \in DOMAIN pool'
          PROVE  /\ pool'[v] \in Entry
                 /\ IF v \in DOMAIN pool
                    THEN /\ pool'[v].templates \subseteq pool[v].templates
                         /\ pool'[v].lastAsk = pool[v].lastAsk
                    ELSE pool'[v].templates = {}
      <4>1. CASE v \in DOMAIN pool
        BY <1>5, <3>3, <4>1
      <4>2. CASE v \notin DOMAIN pool
        BY <1>5, <3>3, <3>4, <4>2
      <4> QED
        BY <4>1, <4>2
    <3> QED
      BY <3>5, <3>6, <3>7 DEF Shrinks
  <2> QED
    BY <1>14, <2>1, <2>2
<1>8. /\ worker' \in {None} \cup Signing
      /\ worker' # None => /\ worker'.new = {} /\ worker'.rungs = 0
  <2>1. Shares(n.base, n.ask) \in Nat \ {0}
    BY <1>3, SharesPositive, PoolAssumption DEF News
  <2> QED
    <3> DEFINE s == [unit |-> n.unit, ask |-> n.ask, size |-> Shares(n.base, n.ask),
                     rungs |-> 0, since |-> now, new |-> {}]
    <3>1. s \in Signing /\ s.new = {} /\ s.rungs = 0
      BY <1>2, <1>3, <2>1, PoolAssumption DEF Signing, News
    <3> HIDE DEF s
    <3>2. worker' \in {None, s}
      BY <1>4 DEF s
    <3> QED
      BY <3>1, <3>2
<1>9. Serials' /\ Finite' /\ PoolInOrder'
  BY <1>1, <1>7, <1>8, PoolShrinks
<1>10. LadderInOrder'
  BY <1>8, FS_EmptySet DEF LadderInOrder
<1>11. HandedOnce'
  BY <1>1, <1>7, <1>8 DEF IInv, HandedOnce, Shrinks
<1>12. DropHolds'
  <2>1. DOMAIN pool' \subseteq DOMAIN pool \cup {n.unit}
    BY <1>14, <1>5
  <2> QED
    BY <1>1, <1>3, <2>1 DEF IInv, DropHolds
<1>13. TypeOK'
  BY <1>1, <1>3, <1>7, <1>8 DEF IInv, TypeOK, Shrinks, Entry, News, Signing
<1> QED
  BY <1>1, <1>3, <1>9, <1>10, <1>11, <1>12, <1>13 DEF IInv, CallsInOrder, CallInOrder

\* The payloads of the ladder being signed, once one more is signed or was not: all
\* are of the ladder, and no other payload has their numbers.
LEMMA SignedInOrder ==
  ASSUME IInv, worker # None, NEW succeeds \in BOOLEAN, succeeds => signed < MaxSigned,
         signed' = IF succeeds THEN signed + 1 ELSE signed
  PROVE  LET tpl == [signing |-> signed + 1, unit |-> worker.unit,
                     metric |-> Rung(worker.ask, worker.rungs), size |-> worker.size,
                     signedAt |-> worker.since]
             new == IF succeeds THEN worker.new \cup {tpl} ELSE worker.new
         IN  /\ new \subseteq Template /\ IsFiniteSet(new)
             /\ Cardinality(new) <= worker.rungs + 1
             /\ \A t \in new :
                  /\ t.unit = worker.unit
                  /\ t.metric \in {Rung(worker.ask, i) : i \in 0 .. Ladder - 1}
                  /\ t.signing <= signed' /\ t.signing \notin handed
                  /\ \A s \in new : s.signing = t.signing => s = t
                  /\ \A u \in DOMAIN pool : \A s \in pool[u].templates :
                       s.signing # t.signing
<1> DEFINE tpl == [signing |-> signed + 1, unit |-> worker.unit,
                   metric |-> Rung(worker.ask, worker.rungs), size |-> worker.size,
                   signedAt |-> worker.since]
<1>1. /\ worker \in Signing /\ signed \in 0 .. MaxSigned /\ handed \subseteq 1 .. signed
  BY DEF IInv, TypeOK, Signing
<1>2. /\ IsFiniteSet(worker.new) /\ Cardinality(worker.new) <= worker.rungs
      /\ Cardinality(worker.new) \in Nat /\ worker.rungs \in 0 .. Ladder - 1
      /\ worker.new \subseteq Template
  BY <1>1, FS_CardinalityType DEF IInv, LadderInOrder, Signing
<1>3. \A t \in worker.new :
        /\ t.unit = worker.unit
        /\ t.metric \in {Rung(worker.ask, i) : i \in 0 .. Ladder - 1}
        /\ t.signing \in Nat /\ t.signing <= signed /\ t.signing \notin handed
        /\ \A s \in worker.new : s.signing = t.signing => s = t
        /\ \A u \in DOMAIN pool : \A s \in pool[u].templates : s.signing # t.signing
  <2>1. \A t \in worker.new : t.signing \in Nat
    BY <1>2, PoolAssumption DEF Template
  <2> QED
    BY <2>1 DEF IInv, LadderInOrder, Serials, HandedOnce
<1>4. \A u \in DOMAIN pool : \A s \in pool[u].templates :
        s.signing \in Nat /\ s.signing <= signed
  <2>1. \A u \in DOMAIN pool : pool[u].templates \subseteq Template
    BY DEF IInv, TypeOK
  <2> QED
    BY <2>1, PoolAssumption DEF IInv, Serials, Template
<1>5. CASE ~succeeds
  BY <1>1, <1>2, <1>3, <1>5, PoolAssumption
<1>6. CASE succeeds
  <2>1. /\ tpl.signing = signed + 1 /\ tpl.unit = worker.unit
        /\ tpl.metric = Rung(worker.ask, worker.rungs)
    OBVIOUS
  <2>2. tpl \in Template
    <3>1. Rung(worker.ask, worker.rungs) \in 1 .. TopMetric
      <4>1. worker.ask \in Nat \ {0} /\ worker.rungs \in Nat
        <5>1. worker.ask \in Asks /\ worker.rungs \in 0 .. Ladder - 1
          BY <1>1 DEF Signing
        <5>2. worker.ask \in Nat \ {0}
          BY <5>1, PoolAssumption
        <5>3. worker.rungs \in Nat
          BY <5>1
        <5> QED
          BY <5>2, <5>3
      <4> QED
        BY <4>1, RungInRange
    <3>2. signed + 1 \in 1 .. MaxSigned
      BY <1>1, <1>6, PoolAssumption
    <3> QED
      BY <1>1, <3>1, <3>2 DEF Template, Signing
  <2> HIDE DEF tpl
  <2>3. tpl.metric \in {Rung(worker.ask, i) : i \in 0 .. Ladder - 1}
    BY <1>2, <2>1
  <2>4. /\ IsFiniteSet(worker.new \cup {tpl})
        /\ Cardinality(worker.new \cup {tpl}) <= worker.rungs + 1
    BY <1>2, FS_AddElement
  <2>5. /\ tpl.signing = signed' /\ tpl.signing \notin handed
        /\ \A s \in worker.new : s.signing # tpl.signing
        /\ \A u \in DOMAIN pool : \A s \in pool[u].templates : s.signing # tpl.signing
    BY <1>1, <1>3, <1>4, <1>6, <2>1
  <2>6. \A t \in worker.new : t.signing <= signed'
    BY <1>1, <1>3, <1>6
  <2>7. /\ worker.new \cup {tpl} \subseteq Template
        /\ \A t \in worker.new \cup {tpl} :
             /\ t.unit = worker.unit
             /\ t.metric \in {Rung(worker.ask, i) : i \in 0 .. Ladder - 1}
             /\ t.signing <= signed' /\ t.signing \notin handed
             /\ \A s \in worker.new \cup {tpl} : s.signing = t.signing => s = t
             /\ \A u \in DOMAIN pool : \A s \in pool[u].templates :
                  s.signing # t.signing
    <3>1. tpl.signing <= signed'
      BY <1>1, <1>6, <2>1
    <3> QED
      BY <1>2, <1>3, <2>1, <2>2, <2>3, <2>5, <2>6, <3>1
  <2> QED
    BY <1>6, <2>4, <2>7 DEF tpl
<1> QED
  BY <1>5, <1>6

\* The worker goes on to the next rung, or leaves the ladder in the entry that the
\* unit still has.
LEMMA SignKeeps ==
  ASSUME IInv, NEW succeeds \in BOOLEAN, SignRung(succeeds)
  PROVE  IInv'
<1> DEFINE tpl == [signing |-> signed + 1, unit |-> worker.unit,
                   metric |-> Rung(worker.ask, worker.rungs), size |-> worker.size,
                   signedAt |-> worker.since]
           new == IF succeeds THEN worker.new \cup {tpl} ELSE worker.new
<1>1. /\ worker # None /\ (succeeds => signed < MaxSigned)
      /\ signed' = (IF succeeds THEN signed + 1 ELSE signed)
      /\ UNCHANGED <<queue, call, now, handed, dropped>>
  BY DEF SignRung
<1>2. /\ worker \in Signing /\ now \in 0 .. MaxNow
      /\ signed \in 0 .. MaxSigned /\ handed \subseteq 1 .. signed
  BY <1>1 DEF IInv, TypeOK, Signing
<1>3. /\ new \subseteq Template /\ IsFiniteSet(new)
      /\ Cardinality(new) <= worker.rungs + 1
      /\ \A t \in new :
           /\ t.unit = worker.unit
           /\ t.metric \in {Rung(worker.ask, i) : i \in 0 .. Ladder - 1}
           /\ t.signing <= signed' /\ t.signing \notin handed
           /\ \A s \in new : s.signing = t.signing => s = t
           /\ \A u \in DOMAIN pool : \A s \in pool[u].templates : s.signing # t.signing
  BY <1>1, SignedInOrder
<1>4. \/ /\ worker.rungs + 1 < Ladder
         /\ worker' = [worker EXCEPT !.rungs = @ + 1, !.since = now, !.new = new]
         /\ pool' = pool
      \/ /\ worker' = None
         /\ pool' = Finish(worker.unit, new, worker.ask)
         /\ ~(worker.rungs + 1 < Ladder)
  BY DEF SignRung
<1> HIDE DEF tpl, new
<1>5. signed' \in 0 .. MaxSigned /\ signed <= signed' /\ handed \subseteq 1 .. signed'
  BY <1>1, <1>2, PoolAssumption
<1>6. \A u \in DOMAIN pool : \A t \in pool[u].templates :
        t.signing \in Nat /\ t.signing <= signed'
  <2>1. \A u \in DOMAIN pool : pool[u].templates \subseteq Template
    BY DEF IInv, TypeOK
  <2>2. \A u \in DOMAIN pool : \A t \in pool[u].templates :
          t.signing \in Nat /\ t.signing <= signed
    BY <2>1, PoolAssumption DEF IInv, Serials, Template
  <2> QED
    BY <1>2, <1>5, <2>2
<1>7. QueuedNotDropped' /\ CallsInOrder'
  BY <1>1 DEF IInv, QueuedNotDropped, CallsInOrder, CallInOrder
<1>8. CASE /\ worker.rungs + 1 < Ladder
           /\ worker' = [worker EXCEPT !.rungs = @ + 1, !.since = now, !.new = new]
           /\ pool' = pool
  <2>1. /\ worker' \in Signing /\ worker'.new = new /\ worker'.rungs = worker.rungs + 1
        /\ worker'.unit = worker.unit /\ worker'.ask = worker.ask
    <3>1. worker.rungs + 1 \in 0 .. Ladder - 1
      <4>1. worker.rungs \in 0 .. Ladder - 1
        BY <1>2 DEF Signing
      <4> QED
        BY <1>8, <4>1, PoolAssumption
    <3> QED
      BY <1>2, <1>3, <1>8, <3>1 DEF Signing
  <2>2. TypeOK'
    BY <1>1, <1>5, <1>8, <2>1 DEF IInv, TypeOK, Signing
  <2>3. Serials'
    BY <1>3, <1>6, <1>8, <2>1 DEF IInv, Serials
  <2>4. LadderInOrder'
    BY <1>3, <2>1 DEF LadderInOrder, Rung
  <2>5. Finite' /\ HandedOnce' /\ DropHolds' /\ PoolInOrder'
    BY <1>1, <1>3, <1>8, <2>1 DEF IInv, Finite, HandedOnce, DropHolds, PoolInOrder, Rung
  <2> QED
    BY <1>7, <2>2, <2>3, <2>4, <2>5 DEF IInv
<1>9. CASE /\ worker' = None /\ ~(worker.rungs + 1 < Ladder)
           /\ pool' = Finish(worker.unit, new, worker.ask)
  <2> DEFINE entry == [templates |-> new, lastRefresh |-> now, lastAsk |-> worker.ask]
  <2>1. entry \in Entry /\ entry.templates = new /\ entry.lastAsk = worker.ask
    BY <1>2, <1>3 DEF Entry, Signing
  <2>2. /\ DOMAIN pool' = DOMAIN pool
        /\ \A u \in DOMAIN pool : pool'[u] = IF u = worker.unit THEN entry ELSE pool[u]
    BY <1>9 DEF Finish
  <2> HIDE DEF entry
  <2>3. TypeOK'
    BY <1>1, <1>5, <1>9, <2>1, <2>2 DEF IInv, TypeOK, Entry
  <2>4. Serials'
    <3> SUFFICES ASSUME NEW u \in DOMAIN pool, NEW t \in pool'[u].templates,
                        NEW v \in DOMAIN pool, NEW s \in pool'[v].templates
                 PROVE  t.signing <= signed' /\ (s.signing = t.signing => s = t)
      BY <1>9, <2>2 DEF Serials
    <3>1. t \in new \/ t \in pool[u].templates
      BY <2>1, <2>2
    <3>2. s \in new \/ s \in pool[v].templates
      BY <2>1, <2>2
    <3> QED
      BY <1>1, <1>3, <1>6, <3>1, <3>2 DEF IInv, Serials
  <2>5. HandedOnce'
    BY <1>1, <1>3, <1>9, <2>1, <2>2 DEF IInv, HandedOnce
  <2>6. Finite'
    BY <1>3, <2>1, <2>2 DEF IInv, Finite
  <2>7. PoolInOrder'
    <3>1. Cardinality(new) <= Ladder
      <4>1. Cardinality(new) \in Nat /\ worker.rungs \in 0 .. Ladder - 1
        BY <1>2, <1>3, FS_CardinalityType DEF Signing
      <4> QED
        BY <1>3, <4>1, PoolAssumption
    <3> QED
      BY <1>3, <2>1, <2>2, <3>1 DEF IInv, PoolInOrder, Rung
  <2>8. LadderInOrder' /\ DropHolds'
    BY <1>1, <1>9, <2>2 DEF IInv, LadderInOrder, DropHolds
  <2> QED
    BY <1>7, <2>3, <2>4, <2>5, <2>6, <2>7, <2>8 DEF IInv
<1> QED
  BY <1>4, <1>8, <1>9

\* IInv is inductive.
LEMMA NextIInv == IInv /\ [Next]_vars => IInv'
<1> SUFFICES ASSUME IInv, [Next]_vars PROVE IInv'
  OBVIOUS
<1>1. CASE \E u \in Units, ask \in Asks, base \in Bases : NotifyBook(u, ask, base)
  BY <1>1, NotifyKeeps
<1>2. CASE \E u \in Units : DropUnit(u)
  BY <1>2, DropKeeps
<1>3. CASE TakeNews
  BY <1>3, TakeNewsKeeps
<1>4. CASE \E succeeds \in BOOLEAN : SignRung(succeeds)
  BY <1>4, SignKeeps
<1>5. ASSUME NEW c \in Calls, NEW leg \in Legs, Submit(c, leg)
      PROVE  IInv'
  BY <1>5, PopKeeps DEF Submit
<1>6. ASSUME NEW c \in Calls, NEW leg \in Legs, SubmitTemplate(c, leg)
      PROVE  IInv'
  BY <1>6, PopKeeps DEF SubmitTemplate
<1>7. ASSUME NEW c \in Calls, SubmitAgain(c)
      PROVE  IInv'
  BY <1>7, PopKeeps DEF SubmitAgain
<1>8. ASSUME NEW c \in Calls, NEW o \in Outcomes,
             PostTemplate(c, o) \/ PostPresigned(c, o) \/ PostFresh(c, o)
      PROVE  IInv'
  <2>1. PICK fallback \in {"again", "fresh", "done"} :
          /\ call' = [call EXCEPT ![c] = AfterPost(@, o, fallback)]
          /\ call[c].step \notin {"idle", "done"}
          /\ UNCHANGED <<pool, queue, worker, now, signed, handed, dropped>>
    <3>1. CASE PostTemplate(c, o)
      BY <3>1 DEF PostTemplate
    <3>2. CASE PostPresigned(c, o)
      BY <3>2 DEF PostPresigned
    <3>3. CASE PostFresh(c, o)
      BY <3>3 DEF PostFresh
    <3> QED
      BY <1>8, <3>1, <3>2, <3>3
  <2> QED
    BY <2>1, PostKeeps
<1>9. ASSUME NEW c \in Calls, Return(c)
      PROVE  IInv'
  <2>1. /\ call' = [call EXCEPT ![c] = Idle]
        /\ UNCHANGED <<pool, queue, worker, now, signed, handed, dropped>>
    BY <1>9 DEF Return
  <2>2. Idle \in Record /\ CallInOrder(Idle)
    BY PoolAssumption DEF Idle, Record, CallInOrder
  <2>3. call \in [Calls -> Record]
    BY DEF IInv, TypeOK, Record
  <2>4. /\ call' \in [Calls -> Record] /\ call'[c] = Idle
        /\ \A d \in Calls : d # c => call'[d] = call[d]
    BY <2>1, <2>2, <2>3
  <2>5. TypeOK'
    BY <2>1, <2>4 DEF IInv, TypeOK, Record
  <2>6. CallsInOrder'
    BY <2>2, <2>4 DEF IInv, CallsInOrder, CallInOrder, Idle
  <2> QED
    BY <2>1, <2>5, <2>6 DEF IInv, Serials, LadderInOrder, Rung, Finite, QueuedNotDropped,
                            HandedOnce, DropHolds, PoolInOrder
<1>10. CASE Tick \/ UNCHANGED vars
  <2>1. UNCHANGED <<pool, queue, worker, call, signed, handed, dropped>>
    BY <1>10 DEF Tick, vars
  <2>2. now' \in 0 .. MaxNow
    <3>1. now \in 0 .. MaxNow /\ MaxNow \in Nat
      BY PoolAssumption DEF IInv, TypeOK
    <3>2. CASE Tick
      BY <3>1, <3>2 DEF Tick
    <3>3. CASE UNCHANGED vars
      BY <3>1, <3>3 DEF vars
    <3> QED
      BY <1>10, <3>2, <3>3
  <2>3. TypeOK'
    BY <2>1, <2>2 DEF IInv, TypeOK
  <2> QED
    BY <2>1, <2>3 DEF IInv, Serials, LadderInOrder, Rung, Finite, QueuedNotDropped,
                      CallsInOrder, CallInOrder, HandedOnce, DropHolds, PoolInOrder
<1> QED
  BY <1>1, <1>2, <1>3, <1>4, <1>5, <1>6, <1>7, <1>8, <1>9, <1>10 DEF Next

-----------------------------------------------------------------------------
(* The theorems *)

\* IInv is an invariant of the specification.
LEMMA Invariance == Spec => []IInv
BY InitIInv, NextIInv, PTL DEF Spec

\* Every variable keeps its type.
THEOREM TypeCorrect == Spec => []TypeOK
<1>1. IInv => TypeOK
  BY DEF IInv
<1> QED
  BY <1>1, Invariance, PTL

\* What a submission took is in no ladder, nor in one being signed: a signed payload
\* is handed out once.
THEOREM HandedOnceHolds == Spec => []HandedOnce
<1>1. IInv => HandedOnce
  BY DEF IInv
<1> QED
  BY <1>1, Invariance, PTL

\* A dropped unit has no entry until it is announced again.
THEOREM DropHoldsHolds == Spec => []DropHolds
<1>1. IInv => DropHolds
  BY DEF IInv
<1> QED
  BY <1>1, Invariance, PTL

\* The pool keeps to its limit, and an entry holds one ladder above the upper bound it
\* remembers.
THEOREM PoolInOrderHolds == Spec => []PoolInOrder
<1>1. IInv => PoolInOrder
  BY DEF IInv
<1> QED
  BY <1>1, Invariance, PTL

\* A submission accounts for every order it places.
THEOREM OrdersExplainedHolds == Spec => []OrdersExplained
<1>1. IInv => OrdersExplained
  BY DEF IInv, CallsInOrder, CallInOrder, OrdersExplained
<1> QED
  BY <1>1, Invariance, PTL
=============================================================================
