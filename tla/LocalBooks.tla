----------------------------- MODULE LocalBooks -----------------------------
(***************************************************************************)
(* ingestion/public_sentiment_node_book_ws.py, the book of one unit: the   *)
(* server sends the whole book once and then what changes in it, and the   *)
(* client keeps a copy that it hands out while its stamp is young.  When   *)
(* the unit is asked for and sent, and how a connection is found dead, is  *)
(* in BookSubscriptions; here a connection is there or not.                *)
(*                                                                         *)
(* The server is external: on one connection its messages arrive in order, *)
(* and one of them may have a field that cannot be read.  A side of a book *)
(* is kept by the code as a sorted list, here as the size of every level,  *)
(* none being 0; a stamp may be missing or in seconds.                     *)
(***************************************************************************)
EXTENDS Integers, Sequences

CONSTANTS
  Levels,     \* pairs of a side, "lower" or "upper", and a metric
  MaxSize,    \* sizes are 0 .. MaxSize
  Freshness,  \* freshness_max_sec in ticks
  Latency,    \* the ticks a message is on its way at most
  MaxWire,    \* bound: messages that are on their way at a time
  MaxBad,     \* bound: messages that cannot be read in full
  NoBook      \* the unit has no entry in _books

ASSUME BooksAssumption ==
  /\ Levels \subseteq {"lower", "upper"} \X Nat
  /\ {MaxSize, Freshness, Latency, MaxWire, MaxBad} \subseteq Nat

VARIABLES
  exchange,   \* external: the server's book
  serving,    \* external: the server sends this unit's messages
  connected,  \* there is a connection
  wire,       \* the messages on their way on it
  book,       \* _books[unit], with the ticks since last_update_ts_ms
  mirror,     \* history: the server's book of the last message that was handled,
              \* for as long as none is spoilt
  mirrorAge,  \* history: the ticks since it was sent
  spoilt,     \* history: a message was not read in full since the last snapshot
  bad         \* how many messages cannot be read in full

localVars == <<exchange, serving, connected, wire, book, mirror, mirrorAge, spoilt, bad>>

Sizes == 0 .. MaxSize
Contents == [Levels -> Sizes]
TooOld == Freshness + 1
Forgotten == Freshness + Latency + 1

Smaller(a, b) == IF a < b THEN a ELSE b

\* _LocalBook()
Book == [levels: Contents, age: 0 .. TooOld, snapshot: BOOLEAN]
NewBook == [levels |-> [l \in Levels |-> 0], age |-> TooOld, snapshot |-> FALSE]
ASSUME NoBookAssumption == NoBook \notin Book

\* A message, with what it shows of the server's book of the moment it was sent,
\* the levels that cannot be read and whether it has a stamp.
Message ==
  [kind: {"book", "change", "execution"}, truth: Contents, changed: SUBSET Levels,
   unread: SUBSET Levels, stamped: BOOLEAN, age: 0 .. Latency]

-----------------------------------------------------------------------------
(* The handlers, from a copy to a copy *)

SetDefault(b) == IF b = NoBook THEN NewBook ELSE b

\* _parse_ts: without a stamp it is now.
StampAge(m) == IF m.stamped THEN Smaller(m.age, TooOld) ELSE 0

Side(s) == {l \in Levels : l[1] = s}
WithLevels(b, m, levels) ==
  [b EXCEPT !.levels = [l \in Levels |-> IF l \in levels THEN m.truth[l] ELSE @[l]]]

\* A row that cannot be read raises: the lower side is replaced before the upper
\* one is read, and the rest is done only when both were.
BookRaises(m) == m.unread # {}
OnBook(b, m) ==
  IF m.unread \cap Side("lower") # {} THEN SetDefault(b)
  ELSE IF m.unread # {} THEN WithLevels(SetDefault(b), m, Side("lower"))
  ELSE [WithLevels(SetDefault(b), m, Levels) EXCEPT
          !.age = StampAge(m), !.snapshot = TRUE]

\* A change of which an entry cannot be read is applied without it; the mutant keeps
\* a level whose size fell to 0.  Before there is a snapshot nothing is applied.  The
\* check of the variance comes after all of this: it counts a jump as rejected, and
\* takes nothing back.
OnMetricChangeKeeping(b, m) ==
  IF b = NoBook \/ ~b.snapshot THEN b
  ELSE [WithLevels(b, m, {l \in m.changed \ m.unread : m.truth[l] > 0})
          EXCEPT !.age = StampAge(m)]
OnMetricChange(b, m) ==
  IF b = NoBook \/ ~b.snapshot THEN b
  ELSE [WithLevels(b, m, m.changed \ m.unread) EXCEPT !.age = StampAge(m)]

\* last_execution_metric is not kept here; the mutant takes an execution for news
\* of the book.
OnExecutionStamping(b, m) == [SetDefault(b) EXCEPT !.age = StampAge(m)]
OnExecution(b, m) == SetDefault(b)

Handled(b, m) ==
  CASE m.kind = "book" -> OnBook(b, m)
    [] m.kind = "change" -> OnMetricChange(b, m)
    [] m.kind = "execution" -> OnExecution(b, m)

\* The copy shows a whole book, and what get_book hands out.
Live(b) == b # NoBook /\ b.snapshot
Handed == Live(book) /\ book.age <= Freshness

-----------------------------------------------------------------------------
(* The client *)

\* _handle_frame: the messages of one frame, the first n on the wire, one after the
\* other; when one raises, those after it are dropped.
Raises(i) == wire[i].kind = "book" /\ BookRaises(wire[i])
Dropped(i) == \E j \in 1 .. i - 1 : Raises(j)

\* The copy after each of them.
Copies(n) ==
  LET copies[i \in 0 .. n] ==
        IF i = 0 THEN book
        ELSE IF Dropped(i) THEN copies[i - 1]
        ELSE Handled(copies[i - 1], wire[i])
  IN  copies

\* Those that made the copy younger, the snapshots among them, and what was sent after
\* the last of these and was not read in full.
Heeded(n) ==
  {i \in 1 .. n : /\ ~Dropped(i)
                  /\ \/ wire[i].kind = "book" /\ ~Raises(i)
                     \/ wire[i].kind = "change" /\ Live(Copies(n)[i - 1])}
Snapshots(n) == {i \in Heeded(n) : wire[i].kind = "book"}
Missed(n) ==
  {i \in 1 .. n : /\ \A s \in Snapshots(n) : i > s
                  /\ Dropped(i) \/ wire[i].unread # {}}
Latest(heeded) == wire[CHOOSE i \in heeded : \A j \in heeded : i >= j]

Handle(n) ==
  /\ book' = Copies(n)[n]
  /\ wire' = SubSeq(wire, n + 1, Len(wire))
  /\ spoilt' = (Missed(n) # {} \/ (spoilt /\ Snapshots(n) = {}))
  /\ mirrorAge' = IF Heeded(n) = {} THEN mirrorAge ELSE Latest(Heeded(n)).age
  /\ mirror' = IF spoilt' THEN NewBook.levels
               ELSE IF Heeded(n) = {} THEN mirror ELSE Latest(Heeded(n)).truth
  /\ UNCHANGED <<exchange, serving, connected, bad>>

\* The unit is sent and entered: the server answers with the whole book, also
\* when it was serving the unit already.
SendSubscribe(m) ==
  /\ connected /\ Len(wire) < MaxWire
  /\ serving' = TRUE
  /\ wire' = Append(wire, m)
  /\ book' = SetDefault(book)
  /\ UNCHANGED <<exchange, connected, mirror, mirrorAge, spoilt>>

\* unsubscribe: the copy is thrown away, and the server goes on.
Forget ==
  /\ book # NoBook
  /\ book' = NoBook
  /\ UNCHANGED <<exchange, serving, connected, wire, mirror, mirrorAge, spoilt, bad>>

ConnectionOpens ==
  /\ ~connected
  /\ connected' = TRUE
  /\ UNCHANGED <<exchange, serving, wire, book, mirror, mirrorAge, spoilt, bad>>

\* The copy is kept, and still handed out while it is young.
ConnectionBreaks ==
  /\ connected
  /\ connected' = FALSE /\ serving' = FALSE /\ wire' = <<>>
  /\ UNCHANGED <<exchange, book, mirror, mirrorAge, spoilt, bad>>

-----------------------------------------------------------------------------
(* The server *)

Sends(kind, truth, changed, unread, stamped) ==
  [kind |-> kind, truth |-> truth, changed |-> changed, unread |-> unread,
   stamped |-> stamped, age |-> 0]

\* At most one field of a message, a level or the stamp, cannot be read.
Fields(levels) ==
  {[unread |-> {}, stamped |-> TRUE]} \cup
    IF bad = MaxBad THEN {}
    ELSE {[unread |-> {}, stamped |-> FALSE]}
           \cup {[unread |-> {l}, stamped |-> TRUE] : l \in levels}
CountBad(f) == bad' = IF f.unread = {} /\ f.stamped THEN bad ELSE bad + 1

\* The rows of a snapshot are the levels that are there.
Rows == {l \in Levels : exchange[l] > 0}
ServerSnapshot ==
  \E f \in Fields(Rows) :
    /\ SendSubscribe(Sends("book", exchange, Levels, f.unread, f.stamped))
    /\ CountBad(f)

ServerMoves ==
  \E next \in Contents \ {exchange} :
    /\ exchange' = next
    /\ IF serving
       THEN LET changed == {l \in Levels : next[l] # exchange[l]}
            IN  /\ Len(wire) < MaxWire
                /\ \E f \in Fields(changed) :
                     /\ wire' = Append(wire, Sends("change", next, changed,
                                                  f.unread, f.stamped))
                     /\ CountBad(f)
       ELSE UNCHANGED <<wire, bad>>
    /\ UNCHANGED <<serving, connected, book, mirror, mirrorAge, spoilt>>

ServerExecutes ==
  /\ serving /\ Len(wire) < MaxWire
  /\ wire' = Append(wire, Sends("execution", NewBook.levels, {}, {}, TRUE))
  /\ UNCHANGED <<exchange, serving, connected, book, mirror, mirrorAge, spoilt, bad>>

Tick ==
  /\ \A i \in DOMAIN wire : wire[i].age < Latency
  /\ wire' = [i \in DOMAIN wire |-> [wire[i] EXCEPT !.age = @ + 1]]
  /\ book' = IF book = NoBook THEN NoBook ELSE [book EXCEPT !.age = Smaller(@ + 1, TooOld)]
  /\ mirrorAge' = Smaller(mirrorAge + 1, Forgotten)
  /\ UNCHANGED <<exchange, serving, connected, mirror, spoilt, bad>>

LocalInit ==
  /\ exchange \in Contents
  /\ serving = FALSE /\ connected = FALSE /\ wire = <<>>
  /\ book = NoBook
  /\ mirror = NewBook.levels /\ mirrorAge = Forgotten
  /\ spoilt = FALSE /\ bad = 0

LocalNext ==
  \/ \E n \in 1 .. Len(wire) : Handle(n)
  \/ ServerSnapshot
  \/ Forget
  \/ ConnectionOpens
  \/ ConnectionBreaks
  \/ ServerMoves
  \/ ServerExecutes
  \/ Tick

LocalSpec == LocalInit /\ [][LocalNext]_localVars

-----------------------------------------------------------------------------
(* Properties *)

LocalTypeOK ==
  /\ exchange \in Contents /\ mirror \in Contents
  /\ serving \in BOOLEAN /\ connected \in BOOLEAN /\ spoilt \in BOOLEAN
  /\ wire \in Seq(Message) /\ Len(wire) <= MaxWire
  /\ book \in Book \cup {NoBook}
  /\ mirrorAge \in 0 .. Forgotten /\ bad \in 0 .. MaxBad

\* A book that is handed out is, level by level, the server's book of one moment,
\* over disconnections, unsubscriptions and jumps beyond the variance guard, unless
\* a message since its snapshot could not be read in full: then it may be of two
\* moments, and is handed out all the same.
HandedWasTrue == Handed /\ ~spoilt => book.levels = mirror

\* And that moment is no longer ago than the freshness and the time a message
\* takes, also when stamps are missing and executions arrive.
HandedIsRecent == Handed => mirrorAge <= Freshness + Latency
=============================================================================
