--------------------------- MODULE PresignedPool ---------------------------
(***************************************************************************)
(* execution/presigned_payload_pool.py and the submission that uses it, in *)
(* execution/payload_manager.py.  Books announce their upper bound; one    *)
(* worker takes the announcements from a queue and signs a ladder of       *)
(* payloads for the unit, each in a thread; a submission takes a payload   *)
(* that matches its leg, posts it, and falls back on a fresh one if the    *)
(* post raises.  Between two awaits nothing else runs.                     *)
(*                                                                         *)
(* Live mode: in simulation nothing is posted.  Metrics are in ticks, and  *)
(* the two clocks of the code are one.  The exchange is external.          *)
(***************************************************************************)
EXTENDS Integers, Sequences, FiniteSets, SequencesExt, Functions

CONSTANTS
  Units,        \* unit ids
  Calls,        \* callers, each with one submission at a time
  Asks,         \* best upper bounds that books announce, in ticks
  Bases,        \* target sizes of the announcements, in base units
  Quantities,   \* quantities of legs
  TopMetric,    \* 0.99, in ticks
  Ladder,       \* ladder_size
  Redrift,      \* ladder_redrift_ticks
  MaxAge,       \* max_age_sec
  Expiration,   \* payload_expiration_sec
  Margin,       \* what a payload must have left to be used: 5 seconds
  MinInterval,  \* refresh_min_interval_sec
  MaxUnits,     \* max_units
  QueueSize,    \* maxsize of the queue
  MaxNow,       \* bound: the last second
  MaxSigned,    \* bound: how many payloads are ever signed
  None

ASSUME PoolAssumption ==
  /\ {Redrift, MaxAge, Expiration, Margin, MinInterval} \subseteq Nat
  /\ TopMetric \in Nat \ {0} /\ Ladder \in Nat \ {0}
  /\ MaxUnits \in Nat \ {0} /\ QueueSize \in Nat \ {0}
  /\ Asks \subseteq Nat \ {0} /\ Bases \subseteq Nat \ {0} /\ Quantities \subseteq Nat \ {0}
  /\ MaxNow \in Nat /\ MaxSigned \in Nat
  /\ None # "filled"

VARIABLES
  pool,     \* _pool: the entries of the units that have one
  queue,    \* _refresh_queue
  worker,   \* the ladder being signed, or None
  call,     \* what the submission of each caller has come to
  now,      \* seconds
  signed,   \* signed_count
  handed,   \* history: the payloads that submissions took
  dropped   \* history: units dropped, and neither announced since nor queued then

vars == <<pool, queue, worker, call, now, signed, handed, dropped>>

NewEntry == [templates |-> {}, lastRefresh |-> 0, lastAsk |-> 0]

\* Signing is the serial number of a payload: a pool may hold two that are alike.
Template == [signing : 1 .. MaxSigned, unit : Units, metric : 1 .. TopMetric,
             size : Nat \ {0}, signedAt : 0 .. MaxNow]

-----------------------------------------------------------------------------
(* The pool *)

\* notify_book: with a full queue the announcement is lost.
NotifyBook(u, ask, base) ==
  /\ IF Len(queue) < QueueSize
     THEN /\ queue' = Append(queue, [unit |-> u, ask |-> ask, base |-> base])
          /\ dropped' = dropped \ {u}
     ELSE UNCHANGED <<queue, dropped>>
  /\ UNCHANGED <<pool, worker, call, now, signed, handed>>

DropUnit(u) ==
  /\ pool' = Restrict(pool, DOMAIN pool \ {u})
  /\ dropped' = IF \E n \in ToSet(queue) : n.unit = u THEN dropped ELSE dropped \cup {u}
  /\ UNCHANGED <<queue, worker, call, now, signed, handed>>

\* The pool with an entry for unit u: the one refreshed longest ago makes room.
\* The mutant makes
\* room one unit too late.
WithEntryLate(u) ==
  IF u \in DOMAIN pool THEN {pool}
  ELSE LET oldest == {v \in DOMAIN pool :
                        \A w \in DOMAIN pool : pool[v].lastRefresh <= pool[w].lastRefresh}
           kept == IF Cardinality(DOMAIN pool) <= MaxUnits THEN {DOMAIN pool}
                   ELSE {DOMAIN pool \ {v} : v \in oldest}
       IN  {[v \in K \cup {u} |-> IF v = u THEN NewEntry ELSE pool[v]] : K \in kept}

WithEntry(u) ==
  IF u \in DOMAIN pool THEN {pool}
  ELSE LET oldest == {v \in DOMAIN pool :
                        \A w \in DOMAIN pool : pool[v].lastRefresh <= pool[w].lastRefresh}
           kept == IF Cardinality(DOMAIN pool) < MaxUnits THEN {DOMAIN pool}
                   ELSE {DOMAIN pool \ {v} : v \in oldest}
       IN  {[v \in K \cup {u} |-> IF v = u THEN NewEntry ELSE pool[v]] : K \in kept}

Young(t) == t.signedAt + Expiration > now /\ now - t.signedAt < MaxAge

Drifted(entry, ask) ==
  entry.lastAsk > 0 /\ (ask - entry.lastAsk >= Redrift \/ entry.lastAsk - ask >= Redrift)

\* max(1.0, round(base / ask)), halves to the even neighbour.
Shares(base, ask) ==
  LET whole == base \div ask
      twice == 2 * (base % ask)
      up == twice > ask \/ (twice = ask /\ whole % 2 = 1)
      rounded == IF up THEN whole + 1 ELSE whole
  IN  IF rounded < 1 THEN 1 ELSE rounded

\* The metric of rung i of a ladder, the first being 0.
Rung(ask, i) == IF ask + i > TopMetric THEN TopMetric ELSE ask + i

\* _refresh_worker and _maybe_refresh up to its first await.
TakeNews ==
  /\ worker = None /\ queue # <<>>
  /\ queue' = Tail(queue)
  /\ LET n == Head(queue) IN
     \E withEntry \in WithEntry(n.unit) :
       LET entry == withEntry[n.unit]
           young == {t \in entry.templates : Young(t)}
           tooSoon == now - entry.lastRefresh < MinInterval /\ entry.templates # {}
           enough == young # {} /\ ~Drifted(entry, n.ask)
       IN  /\ pool' = IF tooSoon THEN withEntry
                      ELSE [withEntry EXCEPT ![n.unit].templates = young]
           /\ worker' = IF tooSoon \/ enough THEN None
                        ELSE [unit |-> n.unit, ask |-> n.ask,
                              size |-> Shares(n.base, n.ask), rungs |-> 0,
                              since |-> now, new |-> {}]
  /\ UNCHANGED <<call, now, signed, handed, dropped>>

\* What the end of a ladder leaves in the pool: nothing if the unit was dropped
\* meanwhile, for the entry is then no longer the pool's.  The mutant puts the unit
\* back.
FinishPutBack(u, ladder, ask) ==
  (u :> [templates |-> ladder, lastRefresh |-> now, lastAsk |-> ask]) @@ pool
Finish(u, ladder, ask) ==
  [v \in DOMAIN pool |->
     IF v = u THEN [templates |-> ladder, lastRefresh |-> now, lastAsk |-> ask]
     ELSE pool[v]]

\* _sign_one: the thread returns with a payload, or with none if it raised; after
\* the last rung the ladder is the entry's.
SignRung(succeeds) ==
  /\ worker # None
  /\ succeeds => signed < MaxSigned
  /\ LET tpl == [signing |-> signed + 1, unit |-> worker.unit,
                 metric |-> Rung(worker.ask, worker.rungs), size |-> worker.size,
                 signedAt |-> worker.since]
         new == IF succeeds THEN worker.new \cup {tpl} ELSE worker.new
     IN  IF worker.rungs + 1 < Ladder
         THEN /\ worker' = [worker EXCEPT !.rungs = @ + 1, !.since = now, !.new = new]
              /\ UNCHANGED pool
         ELSE /\ worker' = None
              /\ pool' = Finish(worker.unit, new, worker.ask)
  /\ signed' = IF succeeds THEN signed + 1 ELSE signed
  /\ UNCHANGED <<queue, call, now, handed, dropped>>

-----------------------------------------------------------------------------
(* Submissions *)

Usable(t) == t.signedAt + Expiration > now + Margin

\* The payloads pop_matching may choose for a leg: the latest signed that covers it.
Chosen(leg) ==
  IF leg.unit \notin DOMAIN pool THEN {}
  ELSE LET covers == {t \in pool[leg.unit].templates :
                        Usable(t) /\ t.metric >= leg.metric /\ t.size >= leg.qty}
       IN  {t \in covers : \A s \in covers : s.signedAt <= t.signedAt}

\* The pool after pop_matching: what has expired is gone, and the chosen payload.
\* The mutant only looks.
TakenLooking(u, t) == pool
Taken(u, t) ==
  IF u \notin DOMAIN pool THEN pool
  ELSE [pool EXCEPT ![u].templates = {s \in @ : Usable(s)} \ {t}]

\* A call that goes on at a step, with what pop_matching gave it.
Pop(c, leg, found, missed) ==
  \/ \E t \in Chosen(leg) :
       /\ pool' = Taken(leg.unit, t)
       /\ handed' = handed \cup {t.signing}
       /\ call' = [call EXCEPT ![c].step = found, ![c].tpl = t]
  \/ /\ Chosen(leg) = {}
     /\ pool' = Taken(leg.unit, None)
     /\ call' = [call EXCEPT ![c].step = missed, ![c].tpl = None]
     /\ UNCHANGED handed

\* submit_ATOMIC_EXECUTION
Submit(c, leg) ==
  /\ call[c].step = "idle"
  /\ Pop(c, leg, "presigned", "fresh")
  /\ UNCHANGED <<queue, worker, now, signed, dropped>>

\* A user of the pool takes a payload itself and submits it; without one it does
\* nothing.
SubmitTemplate(c, leg) ==
  /\ call[c].step = "idle" /\ Chosen(leg) # {}
  /\ Pop(c, leg, "template", "idle")
  /\ UNCHANGED <<queue, worker, now, signed, dropped>>

\* What comes of a post: the order is filled, rests, or is refused, and the reply says
\* so; or the call raises, and the order was filled or never arrived.
Outcomes == {"filled", "resting", "refused", "lost", "unsent"}
Raises(outcome) == outcome \in {"lost", "unsent"}

\* _parse_response: an order that rests ("live", "delayed") counts as not filled.
Parsed(outcome) == IF outcome = "filled" THEN "filled" ELSE "not filled"

\* A call after a post: a reply ends it, an exception sends it on.  The mutant also goes
\* on when the order was not filled.
AfterPostUnfilled(record, outcome, fallback) ==
  [record EXCEPT
     !.step = IF Raises(outcome) \/ Parsed(outcome) = "not filled" THEN fallback ELSE "done",
     !.tpl = IF Raises(outcome) /\ fallback = "again" THEN @ ELSE None,
     !.result = IF Raises(outcome) THEN None ELSE Parsed(outcome),
     !.taken = IF outcome \in {"filled", "resting", "lost"} THEN @ + 1 ELSE @,
     !.raised = IF Raises(outcome) THEN @ + 1 ELSE @,
     !.rests = @ \/ outcome = "resting"]
AfterPost(record, outcome, fallback) ==
  [record EXCEPT
     !.step = IF Raises(outcome) THEN fallback ELSE "done",
     !.tpl = IF Raises(outcome) /\ fallback = "again" THEN @ ELSE None,
     !.result = IF Raises(outcome) THEN None ELSE Parsed(outcome),
     !.taken = IF outcome \in {"filled", "resting", "lost"} THEN @ + 1 ELSE @,
     !.raised = IF Raises(outcome) THEN @ + 1 ELSE @,
     !.rests = @ \/ outcome = "resting"]

\* PresignedPayloadPool.submit: its fallback is a submission of its own, of the
\* template's leg.
PostTemplate(c, outcome) ==
  /\ call[c].step = "template"
  /\ call' = [call EXCEPT ![c] = AfterPost(@, outcome, "again")]
  /\ UNCHANGED <<pool, queue, worker, now, signed, handed, dropped>>

SubmitAgain(c) ==
  /\ call[c].step = "again"
  /\ LET t == call[c].tpl
     IN  Pop(c, [unit |-> t.unit, metric |-> t.metric, qty |-> t.size], "presigned", "fresh")
  /\ UNCHANGED <<queue, worker, now, signed, dropped>>

PostPresigned(c, outcome) ==
  /\ call[c].step = "presigned"
  /\ call' = [call EXCEPT ![c] = AfterPost(@, outcome, "fresh")]
  /\ UNCHANGED <<pool, queue, worker, now, signed, handed, dropped>>

\* A fresh payload is signed and posted; an exception of either is the end.
PostFresh(c, outcome) ==
  /\ call[c].step = "fresh"
  /\ call' = [call EXCEPT ![c] = AfterPost(@, outcome, "done")]
  /\ UNCHANGED <<pool, queue, worker, now, signed, handed, dropped>>

Idle == [step |-> "idle", tpl |-> None, result |-> None,
         taken |-> 0, raised |-> 0, rests |-> FALSE]

\* The caller has its result.
Return(c) ==
  /\ call[c].step = "done"
  /\ call' = [call EXCEPT ![c] = Idle]
  /\ UNCHANGED <<pool, queue, worker, now, signed, handed, dropped>>

Tick ==
  /\ now < MaxNow
  /\ now' = now + 1
  /\ UNCHANGED <<pool, queue, worker, call, signed, handed, dropped>>

Init ==
  /\ pool = <<>> /\ queue = <<>> /\ worker = None
  /\ call = [c \in Calls |-> Idle]
  /\ now = 0 /\ signed = 0 /\ handed = {} /\ dropped = {}

Legs == [unit : Units, metric : Asks, qty : Quantities]

Next ==
  \/ \E u \in Units, ask \in Asks, base \in Bases : NotifyBook(u, ask, base)
  \/ \E u \in Units : DropUnit(u)
  \/ TakeNews
  \/ \E succeeds \in BOOLEAN : SignRung(succeeds)
  \/ \E c \in Calls, leg \in Legs : Submit(c, leg)
  \/ \E c \in Calls, leg \in Legs : SubmitTemplate(c, leg)
  \/ \E c \in Calls : SubmitAgain(c)
  \/ \E c \in Calls, o \in Outcomes : PostTemplate(c, o)
  \/ \E c \in Calls, o \in Outcomes : PostPresigned(c, o)
  \/ \E c \in Calls, o \in Outcomes : PostFresh(c, o)
  \/ \E c \in Calls : Return(c)
  \/ Tick

Spec == Init /\ [][Next]_vars

-----------------------------------------------------------------------------
(* Properties *)

TypeOK ==
  /\ DOMAIN pool \subseteq Units
  /\ \A u \in DOMAIN pool :
       pool[u] \in [templates: SUBSET Template, lastRefresh: 0 .. MaxNow,
                   lastAsk: Asks \cup {0}]
  /\ queue \in Seq([unit: Units, ask: Asks, base: Bases]) /\ Len(queue) <= QueueSize
  /\ worker \in {None} \cup
       [unit: Units, ask: Asks, size: Nat \ {0}, rungs: 0 .. Ladder - 1,
        since: 0 .. MaxNow, new: SUBSET Template]
  /\ call \in [Calls ->
       [step: {"idle", "template", "again", "presigned", "fresh", "done"},
        tpl: Template \cup {None}, result: {"filled", "not filled", None},
        taken: Nat, raised: Nat, rests: BOOLEAN]]
  /\ now \in 0 .. MaxNow /\ signed \in 0 .. MaxSigned
  /\ handed \subseteq 1 .. signed /\ dropped \subseteq Units

\* A signed payload is handed out once: however a refresh, a drop and submissions
\* interleave, what a submission took is in no ladder, nor in one being signed.
HandedOnce ==
  /\ \A u \in DOMAIN pool : \A t \in pool[u].templates : t.signing \notin handed
  /\ worker # None => \A t \in worker.new : t.signing \notin handed

\* drop_unit holds: a unit that was dropped has no entry until its book is announced
\* again, although its ladder may be half signed when it is dropped.
DropHolds == dropped \cap DOMAIN pool = {}

\* The pool keeps to its limit of units, which it looks at only when it adds one, and
\* the payloads of an entry are one ladder, above the upper bound the entry
\* remembers: while a new ladder is signed the old one and its metric stay together.
PoolInOrder ==
  /\ Cardinality(DOMAIN pool) <= MaxUnits
  /\ \A u \in DOMAIN pool :
       /\ Cardinality(pool[u].templates) <= Ladder
       /\ \A t \in pool[u].templates :
            /\ t.unit = u
            /\ t.metric \in {Rung(pool[u].lastAsk, i) : i \in 0 .. Ladder - 1}

\* One submission places more than one order only if a post of it raised, one more for
\* each; it says "filled" only of an order that was, and keeps silent about one only if
\* it rests or its post raised.
OrdersExplained ==
  \A c \in Calls :
    /\ call[c].taken <= 1 + call[c].raised
    /\ call[c].result = "filled" => call[c].taken > 0
    /\ call[c].step = "done" /\ call[c].taken > 0 /\ call[c].result # "filled"
         => call[c].rests \/ call[c].raised > 0
=============================================================================
