--------------------------- MODULE OracleResolver ---------------------------
(***************************************************************************)
(* common/oracle_resolver.py: the close of the one-minute candle that ends *)
(* at a given time settles a market.  Calls for the same candle share one  *)
(* request: the first becomes the leader and asks, the others await the    *)
(* leader's future, and a close once accepted is kept for good.  A future  *)
(* is what its leader, its waiters and whoever cancels one of them share:  *)
(* cancelling a waiter cancels the future, since await does not shield it. *)
(*                                                                         *)
(* One symbol is modelled: keys of different symbols share no state.  The  *)
(* exchange is external; it knows the final close of every candle and may  *)
(* answer with an error, with nothing, or with some candle's close.        *)
(***************************************************************************)
EXTENDS Integers, FiniteSets

CONSTANTS
  Calls,        \* the calls of fetch_kline_close, each made once
  Ends,         \* the times "at" they may be made for, in ticks
  Candles,      \* the minutes the exchange has candles for
  Closes,       \* closes a candle may have
  MaxNow,       \* bound: the last tick
  MaxCancels,   \* bound: how many calls are cancelled
  Malformed,    \* whether a reply may raise what the handler does not catch
  Timeout,      \* the timeout of a request, in ticks
  NoClose,      \* None
  Raised, Cancelled, Pending, Nothing, Broken, NoCall, NoReply

\* Ticks per minute.
Minute == 2

ASSUME ResolverAssumption ==
  /\ MaxNow \in Nat \ {0} /\ Ends \subseteq 1 .. MaxNow
  /\ Candles \subseteq Int
  /\ {MaxCancels, Timeout} \subseteq Nat
  /\ Malformed \in BOOLEAN
  /\ {NoClose, Raised, Cancelled, Pending} \cap Closes = {}
  /\ NoClose \notin {Raised, Cancelled, Pending}
  /\ Raised \notin {Cancelled, Pending} /\ Cancelled # Pending
  /\ NoCall \notin Calls

\* The keys of _cache and _inflight: the minute of the millisecond before "at".
KeyOf(at) == (at - 1) \div Minute
Keys == {KeyOf(at) : at \in Ends}

Row == [open: Candles, close: Closes]
\* Nothing: an HTTP status, an empty list, or an error the handler catches;
\* Broken: a row from which taking the time or the close raises another error.
Reply == Row \cup {Nothing, Broken, NoReply}

VARIABLES
  now,         \* the time, in ticks
  truth,       \* the final close of every candle
  cache,       \* _cache
  inflight,    \* _inflight: the leader whose future is in it
  phase,       \* what a call awaits: see Phases
  key,         \* the key a call asks for
  leader,      \* for a waiter, the call whose future it awaits
  reply,       \* what the exchange answered a leader
  future,      \* the state of a leader's future
  outcome,     \* what a call returned or raised
  since,       \* when a leader made its request
  cancelled    \* history: the calls that were cancelled

vars == <<now, truth, cache, inflight, phase, key, leader, reply, future,
          outcome, since, cancelled>>

Phases == {"new", "asking", "answered", "waiting", "done"}
Outcomes == Closes \cup {NoClose, Raised, Cancelled}
Futures == Outcomes \cup {Pending}

EndOf(candle) == (candle + 1) * Minute
IsFinal(candle) == now >= EndOf(candle)
Near(candle, k) == candle - k \in -1 .. 1

-----------------------------------------------------------------------------
Finish(c, o) ==
  /\ phase' = [phase EXCEPT ![c] = "done"]
  /\ outcome' = [outcome EXCEPT ![c] = o]

\* The three ways into _fetch_kline_close: the close is known, somebody asks
\* for it already, or this call has to ask.
FromCache(c, at) ==
  /\ phase[c] = "new" /\ cache[KeyOf(at)] # NoClose
  /\ key' = [key EXCEPT ![c] = KeyOf(at)]
  /\ Finish(c, cache[KeyOf(at)])
  /\ UNCHANGED <<now, truth, cache, inflight, leader, reply, future, since, cancelled>>

Join(c, at) ==
  LET k == KeyOf(at)
  IN  /\ phase[c] = "new" /\ cache[k] = NoClose /\ inflight[k] # NoCall
      /\ key' = [key EXCEPT ![c] = k]
      /\ leader' = [leader EXCEPT ![c] = inflight[k]]
      /\ phase' = [phase EXCEPT ![c] = "waiting"]
      /\ UNCHANGED <<now, truth, cache, inflight, reply, future, outcome, since,
                     cancelled>>

AskUnseen(c, at) ==  \* mutant: the request is not entered in _inflight
  /\ phase[c] = "new" /\ cache[KeyOf(at)] = NoClose /\ inflight[KeyOf(at)] = NoCall
  /\ key' = [key EXCEPT ![c] = KeyOf(at)]
  /\ phase' = [phase EXCEPT ![c] = "asking"]
  /\ since' = [since EXCEPT ![c] = now]
  /\ UNCHANGED <<now, truth, cache, inflight, leader, reply, future, outcome, cancelled>>

Ask(c, at) ==
  LET k == KeyOf(at)
  IN  /\ phase[c] = "new" /\ cache[k] = NoClose /\ inflight[k] = NoCall
      /\ key' = [key EXCEPT ![c] = k]
      /\ inflight' = [inflight EXCEPT ![k] = c]
      /\ phase' = [phase EXCEPT ![c] = "asking"]
      /\ since' = [since EXCEPT ![c] = now]
      /\ UNCHANGED <<now, truth, cache, leader, reply, future, outcome, cancelled>>

\* The exchange answers.  The close of a candle that is not over is whatever
\* the last price was.
Answer(c) ==
  /\ phase[c] = "asking"
  /\ \E r \in Reply \ {NoReply} :
       /\ r = Broken => Malformed
       /\ r \in Row => /\ r.open * Minute <= now
                       /\ IsFinal(r.open) => r.close = truth[r.open]
       /\ reply' = [reply EXCEPT ![c] = r]
  /\ phase' = [phase EXCEPT ![c] = "answered"]
  /\ UNCHANGED <<now, truth, cache, inflight, key, leader, future, outcome, since,
                 cancelled>>

\* Mutant: no test of the candle's end.
AcceptedEarly(c) ==
  LET r == reply[c]
  IN  IF r \in Row /\ Near(r.open, key[c]) THEN r.close ELSE NoClose

\* What the leader makes of a reply: the close, or None for a candle too far
\* away or not over by the leader's own clock.
Accepted(c) ==
  LET r == reply[c]
  IN  IF r \in Row /\ Near(r.open, key[c]) /\ IsFinal(r.open) THEN r.close ELSE NoClose

\* The close is kept, None is not; the mutant keeps nothing.
KeepNothing(c) == cache
Keep(c) ==
  IF Accepted(c) = NoClose THEN cache ELSE [cache EXCEPT ![key[c]] = Accepted(c)]

\* The future is set in every branch; the mutant forgets those that return None.
SetOnClose(c) ==
  IF Accepted(c) = NoClose THEN future ELSE [future EXCEPT ![c] = Accepted(c)]
SetFuture(c) == [future EXCEPT ![c] = Accepted(c)]

\* Up to the leader's return: the close is kept first, then the future is set.
\* set_result raises on a future that was cancelled, and so does a reply the
\* handler does not catch, before it reaches set_result; the entry of _inflight
\* goes in any case.
Handle(c) ==
  /\ phase[c] = "answered"
  /\ inflight' = [inflight EXCEPT ![key[c]] = NoCall]
  /\ IF reply[c] = Broken
     THEN Finish(c, Raised) /\ UNCHANGED <<cache, future>>
     ELSE /\ cache' = Keep(c)
          /\ IF future[c] = Pending
             THEN future' = SetFuture(c) /\ Finish(c, Accepted(c))
             ELSE Finish(c, Raised) /\ UNCHANGED future
  /\ UNCHANGED <<now, truth, key, leader, reply, since, cancelled>>

\* A waiter goes on with what the future holds; "except Exception" does not
\* catch the CancelledError of a cancelled future.
Wake(c) ==
  /\ phase[c] = "waiting" /\ future[leader[c]] # Pending
  /\ Finish(c, IF c \in cancelled THEN Cancelled ELSE future[leader[c]])
  /\ UNCHANGED <<now, truth, cache, inflight, key, leader, reply, future, since,
                 cancelled>>

\* A cancelled leader stops where it awaits the exchange and leaves its future
\* unset; the mutant cancels the future.
LeaderTakesFuture(c) ==
  /\ phase[c] \in {"asking", "answered"}
  /\ inflight' = [inflight EXCEPT ![key[c]] = NoCall]
  /\ Finish(c, Cancelled)
  /\ future' = [future EXCEPT ![c] = Cancelled]
CancelLeader(c) ==
  /\ phase[c] \in {"asking", "answered"}
  /\ inflight' = [inflight EXCEPT ![key[c]] = NoCall]
  /\ Finish(c, Cancelled)
  /\ UNCHANGED future

\* A cancelled waiter takes the pending future with it or, if the future is set
\* already, ends cancelled when it wakes.
CancelWaiter(c) ==
  /\ phase[c] = "waiting"
  /\ future' = IF future[leader[c]] = Pending
               THEN [future EXCEPT ![leader[c]] = Cancelled] ELSE future
  /\ UNCHANGED <<inflight, phase, outcome>>

\* The task of a call is cancelled.
Cancel(c) ==
  /\ Cardinality(cancelled) < MaxCancels /\ c \notin cancelled
  /\ cancelled' = cancelled \cup {c}
  /\ CancelLeader(c) \/ CancelWaiter(c)
  /\ UNCHANGED <<now, truth, cache, key, leader, reply, since>>

\* A request that is not read in time ends with a timeout, which is an answer of
\* nothing; until then the answer may be on its way, and the clock runs.
Tick ==
  /\ now < MaxNow
  /\ \A c \in Calls : phase[c] \in {"asking", "answered"} => now < since[c] + Timeout
  /\ now' = now + 1
  /\ UNCHANGED <<truth, cache, inflight, phase, key, leader, reply, future,
                 outcome, since, cancelled>>

Init ==
  /\ now = 1
  /\ truth \in [Candles -> Closes]
  /\ cache = [k \in Keys |-> NoClose]
  /\ inflight = [k \in Keys |-> NoCall]
  /\ phase = [c \in Calls |-> "new"]
  /\ key \in {[c \in Calls |-> k] : k \in Keys}
  /\ leader = [c \in Calls |-> NoCall]
  /\ reply = [c \in Calls |-> NoReply]
  /\ future = [c \in Calls |-> Pending]
  /\ outcome = [c \in Calls |-> NoClose]
  /\ since = [c \in Calls |-> 0]
  /\ cancelled = {}

Next ==
  \/ \E c \in Calls, at \in Ends : FromCache(c, at)
  \/ \E c \in Calls, at \in Ends : Join(c, at)
  \/ \E c \in Calls, at \in Ends : Ask(c, at)
  \/ \E c \in Calls : Answer(c)
  \/ \E c \in Calls : Handle(c)
  \/ \E c \in Calls : Wake(c)
  \/ \E c \in Calls : Cancel(c)
  \/ Tick

Spec == Init /\ [][Next]_vars

-----------------------------------------------------------------------------
(* Properties *)

TypeOK ==
  /\ now \in 1 .. MaxNow
  /\ truth \in [Candles -> Closes]
  /\ cache \in [Keys -> Closes \cup {NoClose}]
  /\ inflight \in [Keys -> Calls \cup {NoCall}]
  /\ phase \in [Calls -> Phases]
  /\ key \in [Calls -> Keys]
  /\ leader \in [Calls -> Calls \cup {NoCall}]
  /\ reply \in [Calls -> Reply]
  /\ future \in [Calls -> Futures]
  /\ outcome \in [Calls -> Outcomes]
  /\ since \in [Calls -> 0 .. MaxNow]
  /\ cancelled \subseteq Calls

\* Never are two requests for one candle on their way at the same time,
\* whichever call was cancelled or raised in between (_inflight).
SingleFlight ==
  \A c, d \in Calls :
    /\ {phase[c], phase[d]} \subseteq {"asking", "answered"}
    /\ key[c] = key[d]
    => c = d

\* All calls for one candle that get a close get the same one, however often the
\* exchange was asked (_cache): a market is not settled both ways.
OneClose ==
  \A c, d \in Calls :
    /\ phase[c] = "done" /\ phase[d] = "done" /\ key[c] = key[d]
    /\ {outcome[c], outcome[d]} \subseteq Closes
    => outcome[c] = outcome[d]

\* A close that is kept is of a candle that is over: the one asked for, or the one
\* before or after it.  It is that candle's final close or, since the clock is read
\* only once the answer is there, a price it had at most a request's timeout before
\* its end.
CloseInTime ==
  \A k \in Keys : cache[k] # NoClose =>
    \E m \in Candles \cap {k - 1, k, k + 1} :
      /\ now >= EndOf(m)
      /\ \/ cache[k] = truth[m]
         \/ \E c \in Calls :
              /\ phase[c] = "done" /\ key[c] = k
              /\ reply[c] \in Row /\ reply[c].open = m /\ reply[c].close = cache[k]
              /\ since[c] < EndOf(m) /\ EndOf(m) <= since[c] + Timeout

\* A call raises only for a malformed reply to it or because a waiter of its own
\* request was cancelled, and ends cancelled without having been for the latter alone.
RaisedForCause ==
  \A c \in Calls :
    /\ outcome[c] = Raised =>
         reply[c] = Broken \/ \E d \in cancelled : leader[d] = c
    /\ outcome[c] = Cancelled /\ c \notin cancelled =>
         \E d \in cancelled : leader[d] = leader[c]

\* A waiter whose future is not set has a leader on its way to set it, unless
\* that leader was cancelled or got a malformed reply: nobody else is stranded.
NobodyStranded ==
  \A c \in Calls : phase[c] = "waiting" /\ future[leader[c]] = Pending =>
    \/ phase[leader[c]] \in {"asking", "answered"}
    \/ leader[c] \in cancelled \/ reply[leader[c]] = Broken
=============================================================================
