------------------------- MODULE BookSubscriptions -------------------------
(***************************************************************************)
(* ingestion/public_sentiment_node_book_ws.py: engines subscribe to the    *)
(* books of units and two tasks share the rest: the pump, which collects   *)
(* new units for a moment and sends them, and the socket's task, which     *)
(* reconnects and sends what is subscribed.  Each has one await at which   *)
(* the other, and the engines' calls, may run.                             *)
(*                                                                         *)
(* The server is external: it sends frames of the units it was asked for   *)
(* on this connection.  Nothing tells it of an unsubscription.  What is in *)
(* a book is not modelled, only whether there is one and a snapshot in it. *)
(***************************************************************************)
CONSTANTS
  Units   \* unit ids

VARIABLES
  subscribed,  \* _subscribed
  pending,     \* _pending_subscribe
  wakeup,      \* the event the pump waits for
  books,       \* the keys of _books
  ready,       \* the units whose book has a snapshot
  conn,        \* the socket's task: "down" (_ws_a is None), "resending" or "up"
  alive,       \* whether the connection still carries messages
  resent,      \* the units in the message the socket's task is sending
  pump,        \* the pump: "waiting", "debouncing" or "sending"
  batch,       \* the units the pump is sending
  sock,        \* the socket it sends them on: "none", "current" or "lost"
  served,      \* external: the units the server was asked for on this connection
  wanted,      \* history: the units whose last call was subscribe
  undone,      \* history: units unsubscribed while the pump was sending them
  overtaken    \* history: units sent on a lost socket, the next one being up

vars == <<subscribed, pending, wakeup, books, ready, conn, alive, resent, pump,
          batch, sock, served, wanted, undone, overtaken>>

pumpVars == <<pump, batch, sock>>
bookVars == <<books, ready>>
history == <<wanted, undone, overtaken>>

-----------------------------------------------------------------------------
(* The engines' calls *)

Subscribe(u) ==
  /\ wanted' = wanted \cup {u}
  /\ undone' = undone \ {u}
  /\ IF u \in subscribed THEN UNCHANGED <<pending, wakeup>>
     ELSE pending' = pending \cup {u} /\ wakeup' = TRUE
  /\ UNCHANGED <<subscribed, conn, alive, resent, served, overtaken, pumpVars, bookVars>>

\* Mutant: a unit that is pending stays pending.
UnsubscribeEntered(u) ==
  /\ wanted' = wanted \ {u}
  /\ undone' = IF pump = "sending" /\ u \in batch THEN undone \cup {u} ELSE undone \ {u}
  /\ subscribed' = subscribed \ {u}
  /\ books' = books \ {u} /\ ready' = ready \ {u}
  /\ UNCHANGED <<pending, wakeup, conn, alive, resent, served, overtaken, pumpVars>>

Unsubscribe(u) ==
  /\ wanted' = wanted \ {u}
  /\ undone' = IF pump = "sending" /\ u \in batch THEN undone \cup {u} ELSE undone \ {u}
  /\ subscribed' = subscribed \ {u}
  /\ pending' = pending \ {u}
  /\ books' = books \ {u} /\ ready' = ready \ {u}
  /\ UNCHANGED <<wakeup, conn, alive, resent, served, overtaken, pumpVars>>

-----------------------------------------------------------------------------
(* _subscribe_pump *)

PumpWakes ==
  /\ pump = "waiting" /\ wakeup
  /\ pump' = "debouncing"
  /\ UNCHANGED <<subscribed, pending, wakeup, conn, alive, resent, batch, sock,
                 served, bookVars, history>>

\* What the pump does when a batch was sent, or had nowhere to be sent to; the
\* mutant enters only what a socket took.
EnterUnlessLost(units) ==
  /\ books' = books \cup units
  /\ subscribed' = IF sock = "lost" THEN subscribed ELSE subscribed \cup units
  /\ pump' = "waiting" /\ batch' = {} /\ sock' = "none"
Enter(units) ==
  /\ books' = books \cup units
  /\ subscribed' = subscribed \cup units
  /\ pump' = "waiting" /\ batch' = {} /\ sock' = "none"

\* After the debounce: the batch is taken, and sent if there is a socket.
Take == pending' = {} /\ wakeup' = FALSE

PumpTakes ==
  /\ pump = "debouncing"
  /\ Take
  /\ IF pending = {}
     THEN pump' = "waiting" /\ UNCHANGED <<subscribed, books, batch, sock>>
     ELSE IF conn = "down" THEN Enter(pending)
     ELSE /\ pump' = "sending" /\ batch' = pending /\ sock' = "current"
          /\ UNCHANGED <<subscribed, books>>
  /\ UNCHANGED <<conn, alive, resent, ready, served, history>>

\* The mutant sends the units that are still to be collected.
AskedPending(asked) == IF sock = "current" /\ alive THEN asked \cup pending ELSE asked
Asked(asked) == IF sock = "current" /\ alive THEN asked \cup batch ELSE asked

\* The send returns, or raises and is logged: the batch is entered either way.
PumpSent ==
  /\ pump = "sending"
  /\ served' = Asked(served)
  /\ overtaken' = IF sock = "lost" /\ conn # "down" THEN overtaken \cup batch ELSE overtaken
  /\ Enter(batch)
  /\ UNCHANGED <<pending, wakeup, conn, alive, resent, ready, wanted, undone>>

-----------------------------------------------------------------------------
(* _run_single *)

\* The new socket is entered and what is subscribed is sent on it; with nothing
\* subscribed the task goes on at once.
Connect ==
  /\ conn = "down"
  /\ alive' = TRUE /\ served' = {} /\ overtaken' = {}
  /\ resent' = subscribed
  /\ IF subscribed # {} THEN conn' = "resending" /\ UNCHANGED wakeup
     ELSE conn' = "up" /\ wakeup' = (wakeup \/ pending # {})
  /\ UNCHANGED <<subscribed, pending, wanted, undone, pumpVars, bookVars>>

\* The task's socket is gone: _ws_a is None, but a send may still hold it.
LoseSocket ==
  /\ conn' = "down" /\ alive' = FALSE /\ served' = {} /\ resent' = {}
  /\ sock' = IF sock = "current" THEN "lost" ELSE sock
  /\ UNCHANGED <<subscribed, pending, wakeup, pump, batch, bookVars, history>>

Resent ==
  /\ conn = "resending" /\ alive
  /\ conn' = "up" /\ resent' = {}
  /\ served' = served \cup resent
  /\ wakeup' = (wakeup \/ pending # {})
  /\ UNCHANGED <<subscribed, pending, alive, pumpVars, bookVars, history>>

\* The connection dies; messages sent from now on are lost.
Break ==
  /\ conn # "down" /\ alive
  /\ alive' = FALSE
  /\ UNCHANGED <<subscribed, pending, wakeup, conn, resent, served, pumpVars,
                 bookVars, history>>

\* A send or recv raises, or nothing came for 30 seconds.
Drop == conn # "down" /\ ~alive /\ LoseSocket
Watchdog == conn = "up" /\ alive /\ LoseSocket

\* _on_book: a snapshot of a unit the server was asked for, wanted or not.
Snapshot(u) ==
  /\ conn = "up" /\ alive /\ u \in served
  /\ books' = books \cup {u} /\ ready' = ready \cup {u}
  /\ UNCHANGED <<subscribed, pending, wakeup, conn, alive, resent, served,
                 pumpVars, history>>

Init ==
  /\ subscribed = {} /\ pending = {} /\ wakeup = FALSE
  /\ books = {} /\ ready = {}
  /\ conn = "down" /\ alive = FALSE /\ resent = {}
  /\ pump = "waiting" /\ batch = {} /\ sock = "none"
  /\ served = {} /\ wanted = {} /\ undone = {} /\ overtaken = {}

Next ==
  \/ \E u \in Units : Subscribe(u)
  \/ \E u \in Units : Unsubscribe(u)
  \/ PumpWakes
  \/ PumpTakes
  \/ PumpSent
  \/ Connect
  \/ Resent
  \/ Break
  \/ Drop
  \/ Watchdog
  \/ \E u \in Units : Snapshot(u)

Spec == Init /\ [][Next]_vars

\* The event loop runs what is ready, and the backoff of a reconnect is at most
\* five seconds.
FairSpec ==
  /\ Spec
  /\ WF_vars(PumpWakes) /\ WF_vars(PumpTakes) /\ WF_vars(PumpSent)
  /\ WF_vars(Connect) /\ WF_vars(Resent) /\ WF_vars(Drop)

-----------------------------------------------------------------------------
(* Properties *)

\* A send is on the socket the task holds, or on one that is lost.
TypeOK ==
  /\ subscribed \subseteq Units /\ pending \subseteq Units /\ batch \subseteq Units
  /\ books \subseteq Units /\ ready \subseteq Units
  /\ resent \subseteq Units /\ served \subseteq Units
  /\ wanted \subseteq Units /\ undone \subseteq Units /\ overtaken \subseteq Units
  /\ wakeup \in BOOLEAN /\ alive \in BOOLEAN
  /\ conn \in {"down", "resending", "up"}
  /\ pump \in {"waiting", "debouncing", "sending"}
  /\ sock \in {"none", "current", "lost"}
  /\ (pump = "sending") = (batch # {}) /\ (sock = "current" => conn # "down")

\* A unit that is wanted is always subscribed, pending or being sent, whichever
\* of the two tasks was where when it was asked for, and the pump does not sleep
\* while units are pending: no wake-up is lost to the clear of the event or to a
\* reconnection.
NothingForgotten ==
  /\ wanted \subseteq subscribed \cup pending \cup batch
  /\ pending # {} => wakeup \/ pump = "debouncing"

\* What is subscribed or pending is wanted, except what was unsubscribed while
\* the pump was sending it: that is entered when the send returns.
UnwantedOnlyUndone == subscribed \cup pending \subseteq wanted \cup undone

\* A unit that stays wanted is served for good once the connection holds, however
\* often it broke before, unless its batch was overtaken by that connection.
WantedIsServed ==
  \A u \in Units :
    /\ <>[](u \in wanted /\ u \notin overtaken)
    /\ <>[](alive /\ conn # "down")
    => <>[](u \in served)
=============================================================================
