--------------------------- MODULE BookClientProofs ---------------------------
(***************************************************************************)
(* The book client, for every set of units, whatever the connection does:  *)
(* no unit is forgotten and none is kept without a reason, and the books   *)
(* that are handed out are the server's.                                   *)
(*                                                                         *)
(* A frame is handled message by message, by a function that is defined    *)
(* from one copy to the next.  What it returns is proved by the least      *)
(* message at which it would be wrong.                                     *)
(***************************************************************************)
EXTENDS BookSubscriptions, LocalBooks, SequenceTheorems, WellFoundedInduction, TLAPS

-----------------------------------------------------------------------------
(* The subscriptions *)

\* What the pump is sending is wanted, or was unsubscribed meanwhile.
BatchExplained == batch \subseteq wanted \cup undone

IInv == TypeOK /\ NothingForgotten /\ UnwantedOnlyUndone /\ BatchExplained

-----------------------------------------------------------------------------

\* At the start nothing is wanted, pending or being sent.
LEMMA InitIInv == Init => IInv
BY DEF Init, IInv, TypeOK, NothingForgotten, UnwantedOnlyUndone, BatchExplained

\* A batch that was sent, or had nowhere to be sent to, is entered: it moves from
\* pending or from the pump to subscribed, and nothing else moves.
LEMMA EnterKeeps ==
  ASSUME IInv, NEW units \in SUBSET Units, Enter(units),
         units \subseteq wanted \cup undone,
         wanted \subseteq subscribed \cup pending' \cup units,
         pending' \subseteq pending, pending' # {} => wakeup',
         conn' = conn, UNCHANGED <<wanted, undone>>,
         resent' \subseteq Units, served' \subseteq Units,
         overtaken' \subseteq Units, ready' \subseteq Units,
         wakeup' \in BOOLEAN, alive' \in BOOLEAN
  PROVE  IInv'
<1>1. TypeOK'
  BY DEF IInv, TypeOK, Enter
<1>2. NothingForgotten' /\ UnwantedOnlyUndone' /\ BatchExplained'
  BY DEF IInv, TypeOK, NothingForgotten, UnwantedOnlyUndone, BatchExplained, Enter
<1> QED
  BY <1>1, <1>2 DEF IInv

\* A reconnection, a loss and a message only move what the socket's task keeps.
LEMMA SocketKeeps ==
  ASSUME IInv, TypeOK', UNCHANGED <<subscribed, pending, pump, batch, wanted, undone>>,
         wakeup => wakeup'
  PROVE  IInv'
BY DEF IInv, TypeOK, NothingForgotten, UnwantedOnlyUndone, BatchExplained

\* IInv is inductive.
LEMMA NextIInv == IInv /\ [Next]_vars => IInv'
<1> SUFFICES ASSUME IInv, [Next]_vars PROVE IInv'
  OBVIOUS
<1>0. TypeOK
  BY DEF IInv
<1>1. ASSUME NEW u \in Units, Subscribe(u) PROVE IInv'
  <2>1. TypeOK'
    <3>1. \/ pending' = pending /\ wakeup' = wakeup
          \/ pending' = pending \cup {u} /\ wakeup' = TRUE
      BY <1>1 DEF Subscribe
    <3> QED
      BY <1>0, <1>1, <3>1 DEF TypeOK, Subscribe, pumpVars, bookVars
  <2>2. NothingForgotten'
    <3>1. UNCHANGED <<subscribed, batch, pump>> /\ wanted' = wanted \cup {u}
      BY <1>1 DEF Subscribe, pumpVars
    <3>2. CASE u \in subscribed
      BY <1>1, <3>1, <3>2 DEF IInv, NothingForgotten, Subscribe
    <3>3. CASE u \notin subscribed
      BY <1>1, <3>1, <3>3 DEF IInv, NothingForgotten, Subscribe
    <3> QED
      BY <3>2, <3>3
  <2>3. UnwantedOnlyUndone' /\ BatchExplained'
    BY <1>1 DEF IInv, UnwantedOnlyUndone, BatchExplained, Subscribe, pumpVars
  <2> QED
    BY <2>1, <2>2, <2>3 DEF IInv
<1>2. ASSUME NEW u \in Units, Unsubscribe(u) PROVE IInv'
  <2>1. TypeOK'
    BY <1>0, <1>2 DEF TypeOK, Unsubscribe, pumpVars
  <2>2. NothingForgotten'
    BY <1>2 DEF IInv, NothingForgotten, Unsubscribe, pumpVars
  <2>3. UnwantedOnlyUndone' /\ BatchExplained'
    BY <1>0, <1>2 DEF IInv, TypeOK, UnwantedOnlyUndone, BatchExplained, Unsubscribe, pumpVars
  <2> QED
    BY <2>1, <2>2, <2>3 DEF IInv
<1>3. CASE PumpWakes
  BY <1>0, <1>3 DEF IInv, TypeOK, NothingForgotten, UnwantedOnlyUndone, BatchExplained,
                    PumpWakes, bookVars, history
<1>4. CASE PumpTakes
  <2>0. batch = {} /\ pending' = {} /\ wakeup' = FALSE
    BY <1>0, <1>4 DEF TypeOK, PumpTakes, Take
  <2>1. CASE pending = {}
    BY <1>0, <1>4, <2>0, <2>1 DEF IInv, TypeOK, NothingForgotten, UnwantedOnlyUndone,
                                  BatchExplained, PumpTakes, history
  <2>2. CASE pending # {} /\ conn = "down"
    <3>1. Enter(pending) /\ UNCHANGED <<conn, alive, resent, ready, served, history>>
      BY <1>4, <2>2 DEF PumpTakes
    <3> QED
      BY <1>0, <2>0, <3>1, EnterKeeps
      DEF IInv, TypeOK, NothingForgotten, UnwantedOnlyUndone, history
  <2>3. CASE pending # {} /\ conn # "down"
    BY <1>0, <1>4, <2>0, <2>3 DEF IInv, TypeOK, NothingForgotten, UnwantedOnlyUndone,
                                  BatchExplained, PumpTakes, history
  <2> QED
    BY <2>1, <2>2, <2>3
<1>5. CASE PumpSent
  <2>1. /\ pump = "sending" /\ Enter(batch)
        /\ UNCHANGED <<pending, wakeup, conn, alive, resent, ready, wanted, undone>>
    BY <1>5 DEF PumpSent
  <2>2. served' \subseteq Units /\ overtaken' \subseteq Units
    BY <1>0, <1>5 DEF TypeOK, PumpSent, Asked
  <2> QED
    BY <1>0, <2>1, <2>2, EnterKeeps DEF IInv, TypeOK, NothingForgotten, BatchExplained
<1>6. CASE Connect
  <2>1. TypeOK'
    BY <1>0, <1>6 DEF TypeOK, Connect, pumpVars, bookVars
  <2> QED
    BY <1>6, <2>1, SocketKeeps DEF Connect, pumpVars
<1>7. CASE Resent
  <2>1. TypeOK'
    BY <1>0, <1>7 DEF TypeOK, Resent, pumpVars, bookVars, history
  <2> QED
    BY <1>7, <2>1, SocketKeeps DEF Resent, pumpVars, history
<1>8. CASE Break
  <2>1. TypeOK'
    BY <1>0, <1>8 DEF TypeOK, Break, pumpVars, bookVars, history
  <2> QED
    BY <1>8, <2>1, SocketKeeps DEF Break, pumpVars, history
<1>9. CASE Drop \/ Watchdog
  <2>1. LoseSocket
    BY <1>9 DEF Drop, Watchdog
  <2>2. TypeOK'
    BY <1>0, <2>1 DEF TypeOK, LoseSocket, bookVars, history
  <2> QED
    BY <2>1, <2>2, SocketKeeps DEF LoseSocket, history
<1>10. ASSUME NEW u \in Units, Snapshot(u) PROVE IInv'
  <2>1. TypeOK'
    BY <1>0, <1>10 DEF TypeOK, Snapshot, pumpVars, history
  <2> QED
    BY <1>10, <2>1, SocketKeeps DEF Snapshot, pumpVars, history
<1>11. CASE UNCHANGED vars
  BY <1>11 DEF IInv, TypeOK, NothingForgotten, UnwantedOnlyUndone, BatchExplained, vars
<1> QED
  BY <1>1, <1>2, <1>3, <1>4, <1>5, <1>6, <1>7, <1>8, <1>9, <1>10, <1>11 DEF Next

\* Every variable keeps its type.
THEOREM TypeCorrect == Spec => []TypeOK
<1>1. IInv => TypeOK
  BY DEF IInv
<1> QED
  BY <1>1, InitIInv, NextIInv, PTL DEF Spec

\* A wanted unit is subscribed, pending or being sent, and no wake-up of the pump is
\* lost.
THEOREM NothingForgottenHolds == Spec => []NothingForgotten
<1>1. IInv => NothingForgotten
  BY DEF IInv
<1> QED
  BY <1>1, InitIInv, NextIInv, PTL DEF Spec

\* What is subscribed or pending is wanted, or was unsubscribed in the middle of its
\* sending.
THEOREM UnwantedOnlyUndoneHolds == Spec => []UnwantedOnlyUndone
<1>1. IInv => UnwantedOnlyUndone
  BY DEF IInv
<1> QED
  BY <1>1, InitIInv, NextIInv, PTL DEF Spec

-----------------------------------------------------------------------------
(* Induction on the messages of a frame *)

\* A set of natural numbers that is not empty has a least element.
LEMMA Least ==
  ASSUME NEW S \in SUBSET Nat, S # {}
  PROVE  \E n \in S : \A m \in S : n <= m
<1>1. \E n \in S : \A m \in S : ~(<<m, n>> \in OpToRel(<, Nat))
  <2>1. IsWellFoundedOn(OpToRel(<, Nat), Nat)
    BY NatLessThanWellFounded
  <2> DEFINE R == OpToRel(<, Nat)
  <2> HIDE DEF R
  <2>2. IsWellFoundedOn(R, Nat)
    BY <2>1 DEF R
  <2>3. \E x \in S : \A y \in S : ~(<<y, x>> \in R)
    BY <2>2, WFMin
  <2> QED
    BY <2>3 DEF R
<1>2. PICK n \in S : \A m \in S : ~(<<m, n>> \in OpToRel(<, Nat))
  BY <1>1
<1>3. \A m \in S : ~(m < n)
  BY <1>2 DEF OpToRel
<1> QED
  BY <1>3

\* A function that is defined from one number to the next exists.
Steps(n, B) == [B \X (1 .. n) -> B]
Iterates(g, n, B, a, step) ==
  /\ g \in [0 .. n -> B]
  /\ g[0] = a /\ \A i \in 1 .. n : g[i] = step[<<g[i - 1], i>>]

LEMMA Iteration ==
  ASSUME NEW n \in Nat, NEW B, NEW a \in B, NEW step \in Steps(n, B)
  PROVE  \E g : Iterates(g, n, B, a, step)
<1> USE DEF Steps, Iterates
<1> DEFINE Runs(h, k) == h[0] = a /\ \A i \in 1 .. k : h[i] = step[<<h[i - 1], i>>]
           Reached(k) == \E h \in [0 .. k -> B] : Runs(h, k)
           Wrong == {k \in 0 .. n : ~Reached(k)}
<1>1. ASSUME Wrong # {} PROVE FALSE
  <2>1. Wrong \in SUBSET Nat
    OBVIOUS
  <2> HIDE DEF Wrong
  <2>2. PICK k \in Wrong : \A m \in Wrong : k <= m
    BY <1>1, <2>1, Least
  <2> USE DEF Wrong
  <2>3. k \in 0 .. n /\ ~Reached(k)
    BY <2>2
  <2>4. k # 0
    <3>1. [i \in 0 .. 0 |-> a] \in [0 .. 0 -> B] /\ Runs([i \in 0 .. 0 |-> a], 0)
      OBVIOUS
    <3>2. Reached(0)
      BY <3>1
    <3> QED
      BY <2>3, <3>2
  <2>5. k \in 1 .. n /\ k - 1 \in 0 .. n /\ Reached(k - 1)
    BY <2>2, <2>3, <2>4
  <2>6. PICK h \in [0 .. k - 1 -> B] : Runs(h, k - 1)
    BY <2>5
  <2> DEFINE g == [i \in 0 .. k |-> IF i = k THEN step[<<h[k - 1], k>>] ELSE h[i]]
  <2>7. g \in [0 .. k -> B]
    BY <2>5
  <2>8. g[k] = step[<<g[k - 1], k>>] /\ g[0] = a
    <3>1. k \in 0 .. k /\ k - 1 \in 0 .. k /\ k - 1 # k /\ 0 \in 0 .. k /\ 0 # k
      BY <2>5
    <3>2. g[k] = step[<<h[k - 1], k>>] /\ g[k - 1] = h[k - 1] /\ g[0] = h[0]
      BY <3>1
    <3> QED
      BY <2>6, <3>2
  <2>9. ASSUME NEW i \in 1 .. k, i # k PROVE g[i] = step[<<g[i - 1], i>>]
    <3>1. i \in 1 .. k - 1 /\ i \in 0 .. k /\ i - 1 \in 0 .. k /\ i - 1 # k
      BY <2>5, <2>9
    <3>2. g[i] = h[i] /\ g[i - 1] = h[i - 1]
      BY <2>9, <3>1
    <3> QED
      BY <2>6, <3>1, <3>2
  <2> HIDE DEF g
  <2>10. Runs(g, k)
    BY <2>8, <2>9
  <2> QED
    BY <2>3, <2>7, <2>10
<1>2. n \notin Wrong
  BY <1>1
<1>3. Reached(n)
  BY <1>2
<1> QED
  BY <1>3

-----------------------------------------------------------------------------
(* The invariant of the local books *)

\* What a message shows, and what it leaves as it was.
Content(i) == wire[i].kind # "execution"
Follows(m, levels) == \A l \in Levels \ m.changed : m.truth[l] = levels[l]

\* The copy is meant to be a book of the server's.
Tracked == Live(book) /\ ~spoilt

WireIsServed == serving \/ wire = <<>>

\* A change on its way is one to what the message before it shows,
Linked ==
  \A i, j \in DOMAIN wire :
    (/\ i < j /\ Content(i) /\ wire[j].kind = "change"
     /\ \A k \in i + 1 .. j - 1 : ~Content(k))
      => Follows(wire[j], wire[i].truth)

\* and the first one to what the copy shows.
FirstLinked ==
  \A j \in DOMAIN wire :
    Tracked /\ wire[j].kind = "change" /\ (\A k \in 1 .. j - 1 : ~Content(k))
      => Follows(wire[j], mirror)

\* What was sent last is the server's book.
LastIsNow ==
  serving =>
    /\ \A i \in DOMAIN wire :
         Content(i) /\ (\A k \in i + 1 .. Len(wire) : ~Content(k)) => wire[i].truth = exchange
    /\ Tracked /\ (\A k \in DOMAIN wire : ~Content(k)) => mirror = exchange

CopyTrue == Tracked => book.levels = mirror
CopyRecent == Handed => mirrorAge <= book.age + Latency

LocalIInv ==
  /\ LocalTypeOK /\ WireIsServed
  /\ Linked /\ FirstLinked /\ LastIsNow
  /\ CopyTrue /\ CopyRecent

-----------------------------------------------------------------------------
(* What a message does to the copy *)

Copy == Book \cup {NoBook}

LEMMA BookBounds ==
  /\ Freshness \in Nat /\ Latency \in Nat /\ MaxSize \in Nat /\ MaxWire \in Nat /\ MaxBad \in Nat
  /\ TooOld \in Nat /\ Forgotten \in Nat /\ TooOld > Freshness
  /\ Forgotten > Freshness + Latency /\ 0 \in Sizes
BY BooksAssumption DEF TooOld, Forgotten, Sizes

LEMMA MessageIs ==
  ASSUME NEW m \in Message
  PROVE  /\ m.kind \in {"book", "change", "execution"} /\ m.truth \in Contents
         /\ m.changed \subseteq Levels /\ m.unread \subseteq Levels
         /\ m.stamped \in BOOLEAN /\ m.age \in 0 .. Latency
BY DEF Message

LEMMA NewBookIs == NewBook \in Book /\ ~NewBook.snapshot /\ NewBook.levels \in Contents
BY BookBounds DEF NewBook, Book, Contents

LEMMA SetDefaultIs ==
  ASSUME NEW b \in Copy
  PROVE  /\ SetDefault(b) \in Book
         /\ SetDefault(b).snapshot => Live(b) /\ SetDefault(b) = b
BY NewBookIs DEF SetDefault, Copy, Live, Book

LEMMA WithLevelsIs ==
  ASSUME NEW b \in Book, NEW m \in Message, NEW levels \in SUBSET Levels
  PROVE  /\ WithLevels(b, m, levels) \in Book
         /\ WithLevels(b, m, levels).age = b.age
         /\ WithLevels(b, m, levels).snapshot = b.snapshot
         /\ \A l \in Levels : WithLevels(b, m, levels).levels[l] =
                                IF l \in levels THEN m.truth[l] ELSE b.levels[l]
<1> DEFINE c == [l \in Levels |-> IF l \in levels THEN m.truth[l] ELSE b.levels[l]]
<1>1. c \in Contents /\ \A l \in Levels : c[l] = IF l \in levels THEN m.truth[l] ELSE b.levels[l]
  BY MessageIs DEF Book, Contents
<1>2. WithLevels(b, m, levels) = [b EXCEPT !.levels = c]
  BY DEF WithLevels
<1> HIDE DEF c
<1>3. WithLevels(b, m, levels) \in Book
  BY <1>1, <1>2 DEF Book
<1>4. /\ WithLevels(b, m, levels).age = b.age
      /\ WithLevels(b, m, levels).snapshot = b.snapshot
      /\ WithLevels(b, m, levels).levels = c
  BY <1>2 DEF Book
<1> QED
  BY <1>1, <1>3, <1>4

LEMMA StampAgeIs ==
  ASSUME NEW m \in Message
  PROVE  /\ StampAge(m) \in 0 .. TooOld
         /\ StampAge(m) <= Freshness => m.age <= StampAge(m) + Latency
<1>1. m.age \in 0 .. Latency
  BY MessageIs
<1> QED
  BY <1>1, BookBounds DEF StampAge, Smaller

\* A snapshot that is read in full is the copy from then on.
LEMMA SnapshotIs ==
  ASSUME NEW b \in Copy, NEW m \in Message, m.unread = {}
  PROVE  /\ OnBook(b, m) \in Book /\ OnBook(b, m).snapshot
         /\ OnBook(b, m).levels = m.truth /\ OnBook(b, m).age = StampAge(m)
<1> DEFINE d == WithLevels(SetDefault(b), m, Levels)
<1>1. OnBook(b, m) = [d EXCEPT !.age = StampAge(m), !.snapshot = TRUE]
  BY DEF OnBook
<1>2. d \in Book /\ \A l \in Levels : d.levels[l] = m.truth[l]
  <2>1. SetDefault(b) \in Book /\ Levels \in SUBSET Levels
    BY SetDefaultIs
  <2> QED
    BY <2>1, WithLevelsIs
<1>3. d.levels = m.truth
  <2>1. d.levels \in Contents /\ m.truth \in Contents
    BY <1>2, MessageIs DEF Book
  <2> QED
    BY <1>2, <2>1 DEF Contents
<1>4. StampAge(m) \in 0 .. TooOld
  BY StampAgeIs
<1> HIDE DEF d
<1> QED
  BY <1>1, <1>2, <1>3, <1>4 DEF Book

\* One that is not leaves the stamp as it was.
LEMMA RaisedSnapshotIs ==
  ASSUME NEW b \in Copy, NEW m \in Message, m.unread # {}
  PROVE  /\ OnBook(b, m) \in Book
         /\ OnBook(b, m).snapshot => Live(b) /\ OnBook(b, m).age = b.age
<1>1. CASE m.unread \cap Side("lower") # {}
  BY <1>1, SetDefaultIs DEF OnBook
<1>2. CASE m.unread \cap Side("lower") = {}
  <2>1. OnBook(b, m) = WithLevels(SetDefault(b), m, Side("lower"))
    BY <1>2 DEF OnBook
  <2>2. SetDefault(b) \in Book /\ Side("lower") \in SUBSET Levels
    BY SetDefaultIs DEF Side
  <2>3. /\ OnBook(b, m) \in Book
        /\ OnBook(b, m).age = SetDefault(b).age
        /\ OnBook(b, m).snapshot = SetDefault(b).snapshot
    BY <2>1, <2>2, WithLevelsIs
  <2> QED
    BY <2>3, SetDefaultIs
<1> QED
  BY <1>1, <1>2

\* A change is applied to a copy that shows a whole book.
LEMMA ChangeIs ==
  ASSUME NEW b \in Copy, NEW m \in Message
  PROVE  /\ OnMetricChange(b, m) \in Copy
         /\ ~Live(b) => OnMetricChange(b, m) = b
         /\ Live(b) => /\ Live(OnMetricChange(b, m))
                       /\ OnMetricChange(b, m).age = StampAge(m)
                       /\ OnMetricChange(b, m).levels \in Contents
                       /\ \A l \in Levels : OnMetricChange(b, m).levels[l] =
                            IF l \in m.changed \ m.unread THEN m.truth[l] ELSE b.levels[l]
<1>1. CASE ~Live(b)
  BY <1>1 DEF OnMetricChange, Live
<1>2. CASE Live(b)
  <2> DEFINE d == WithLevels(b, m, m.changed \ m.unread)
  <2>1. OnMetricChange(b, m) = [d EXCEPT !.age = StampAge(m)]
    BY <1>2 DEF OnMetricChange, Live
  <2>2. b \in Book
    BY <1>2 DEF Live, Copy
  <2>3. /\ d \in Book /\ d.snapshot = b.snapshot
        /\ \A l \in Levels : d.levels[l] =
             IF l \in m.changed \ m.unread THEN m.truth[l] ELSE b.levels[l]
    <3>1. m.changed \ m.unread \in SUBSET Levels
      BY MessageIs
    <3> QED
      BY <2>2, <3>1, WithLevelsIs
  <2>4. StampAge(m) \in 0 .. TooOld
    BY StampAgeIs
  <2> HIDE DEF d
  <2>5. /\ OnMetricChange(b, m) \in Book
        /\ OnMetricChange(b, m).snapshot = b.snapshot
        /\ OnMetricChange(b, m).age = StampAge(m)
        /\ OnMetricChange(b, m).levels = d.levels
    BY <2>1, <2>3, <2>4 DEF Book
  <2>6. OnMetricChange(b, m) # NoBook
    BY <2>5, NoBookAssumption
  <2> QED
    BY <1>2, <2>3, <2>5, <2>6 DEF Live, Copy, Book
<1> QED
  BY <1>1, <1>2

LEMMA HandledIs ==
  ASSUME NEW b \in Copy, NEW m \in Message PROVE Handled(b, m) \in Copy
<1>1. m.kind \in {"book", "change", "execution"}
  BY MessageIs
<1>2. CASE m.kind = "book"
  BY <1>2, SnapshotIs, RaisedSnapshotIs DEF Handled, Copy
<1>3. CASE m.kind = "change"
  BY <1>3, ChangeIs DEF Handled
<1>4. CASE m.kind = "execution"
  BY <1>4, SetDefaultIs DEF Handled, OnExecution, Copy
<1> QED
  BY <1>1, <1>2, <1>3, <1>4

-----------------------------------------------------------------------------
(* What a frame does to the copy *)

\* The copies of a frame, one after the other.
LEMMA CopiesAre ==
  ASSUME book \in Copy, wire \in Seq(Message), NEW n \in 1 .. Len(wire)
  PROVE  /\ Copies(n) \in [0 .. n -> Copy] /\ Copies(n)[0] = book
         /\ \A i \in 1 .. n :
              Copies(n)[i] = IF Dropped(i) THEN Copies(n)[i - 1]
                             ELSE Handled(Copies(n)[i - 1], wire[i])
<1> DEFINE step == [x \in Copy \X (1 .. n) |->
                      IF Dropped(x[2]) THEN x[1] ELSE Handled(x[1], wire[x[2]])]
           After(g) == [i \in 0 .. n |-> IF i = 0 THEN book
                                         ELSE IF Dropped(i) THEN g[i - 1]
                                         ELSE Handled(g[i - 1], wire[i])]
<1>1. step \in Steps(n, Copy)
  <2>1. ASSUME NEW b \in Copy, NEW i \in 1 .. n PROVE Handled(b, wire[i]) \in Copy
    <3>1. wire[i] \in Message
      OBVIOUS
    <3> QED
      BY <3>1, HandledIs
  <2> QED
    BY <2>1 DEF Steps
<1>2. \A b \in Copy, i \in 1 .. n :
        step[<<b, i>>] = IF Dropped(i) THEN b ELSE Handled(b, wire[i])
  OBVIOUS
<1> HIDE DEF step
<1>3. n \in Nat
  OBVIOUS
<1>4. PICK g : Iterates(g, n, Copy, book, step)
  BY <1>1, <1>3, Iteration
<1>5. /\ g \in [0 .. n -> Copy] /\ g[0] = book
      /\ \A i \in 1 .. n : g[i] = step[<<g[i - 1], i>>]
  BY <1>4 DEF Iterates
<1>6. \A i \in 1 .. n : i - 1 \in 0 .. n /\ g[i - 1] \in Copy
  BY <1>3, <1>5
<1>7. \A i \in 1 .. n : g[i] = IF Dropped(i) THEN g[i - 1] ELSE Handled(g[i - 1], wire[i])
  BY <1>2, <1>5, <1>6
<1>8. g = After(g)
  BY <1>3, <1>5, <1>7
<1>9. Copies(n) = CHOOSE h : h = After(h)
  BY DEF Copies
<1>10. Copies(n) = After(Copies(n))
  BY <1>8, <1>9
<1> DEFINE c == Copies(n)
<1> HIDE DEF c
<1>11. c = After(c)
  BY <1>10 DEF c
<1>12. /\ DOMAIN c = 0 .. n /\ c[0] = book
       /\ \A i \in 1 .. n : c[i] = IF Dropped(i) THEN c[i - 1] ELSE Handled(c[i - 1], wire[i])
  <2> DEFINE d == After(c)
  <2>1. /\ DOMAIN d = 0 .. n /\ d[0] = book
        /\ \A i \in 1 .. n : d[i] = IF Dropped(i) THEN c[i - 1] ELSE Handled(c[i - 1], wire[i])
    BY <1>3
  <2> HIDE DEF d
  <2>2. c = d
    BY <1>11 DEF d
  <2> QED
    BY <2>1, <2>2
<1>13. \A i \in 0 .. n : c[i] \in Copy
  <2> DEFINE Wrong == {i \in 0 .. n : c[i] \notin Copy}
  <2>1. ASSUME Wrong # {} PROVE FALSE
    <3>1. Wrong \in SUBSET Nat
      BY <1>3
    <3> HIDE DEF Wrong
    <3>2. PICK i \in Wrong : \A j \in Wrong : i <= j
      BY <2>1, <3>1, Least
    <3> USE DEF Wrong
    <3>3. i # 0 /\ i \in 0 .. n
      BY <1>12, <3>2
    <3>4. i \in 1 .. n /\ i - 1 \in 0 .. n /\ c[i - 1] \in Copy
      BY <1>3, <3>2, <3>3
    <3>5. c[i] \in Copy
      BY <1>12, <3>4, HandledIs
    <3> QED
      BY <3>2, <3>5
  <2> QED
    BY <2>1
<1>14. c \in [0 .. n -> Copy]
  <2>1. c = [i \in 0 .. n |-> c[i]]
    BY <1>11
  <2> QED
    BY <1>13, <2>1
<1> QED
  BY <1>12, <1>14 DEF c

\* What one message of a frame does: it is heeded, or the copy is the one before it as
\* far as it is live, with another book only if the message was not read in full.
MessageDoes(n, i, b, c, m) ==
  /\ b \in Copy /\ c \in Copy /\ m \in Message
  /\ i \in Heeded(n) =>
       /\ ~Dropped(i) /\ Content(i) /\ Live(c) /\ c.age = StampAge(m)
       /\ i \in Snapshots(n) => m.unread = {} /\ c.levels = m.truth
       /\ i \notin Snapshots(n) =>
            /\ m.kind = "change" /\ Live(b) /\ c.levels \in Contents
            /\ \A l \in Levels : c.levels[l] =
                 IF l \in m.changed \ m.unread THEN m.truth[l] ELSE b.levels[l]
  /\ i \notin Heeded(n) =>
       /\ Live(c) => Live(b) /\ c.age = b.age
       /\ Live(c) /\ ~Dropped(i) /\ m.unread = {} => ~Content(i) /\ c = b

LEMMA MessageStep ==
  ASSUME book \in Copy, wire \in Seq(Message), NEW n \in 1 .. Len(wire), NEW i \in 1 .. n,
         NEW b, NEW c, NEW m,
         b = Copies(n)[i - 1], c = Copies(n)[i], m = wire[i]
  PROVE  MessageDoes(n, i, b, c, m)
<1> USE DEF MessageDoes
<1>1. /\ b \in Copy /\ c \in Copy /\ m \in Message
      /\ c = IF Dropped(i) THEN b ELSE Handled(b, m)
  <2>1. /\ Copies(n) \in [0 .. n -> Copy]
        /\ Copies(n)[i] = IF Dropped(i) THEN Copies(n)[i - 1]
                          ELSE Handled(Copies(n)[i - 1], wire[i])
    BY CopiesAre
  <2>2. i \in 0 .. n /\ i - 1 \in 0 .. n /\ wire[i] \in Message
    OBVIOUS
  <2> QED
    BY <2>1, <2>2
<1>2. /\ i \in Heeded(n) <=>
           ~Dropped(i) /\ ((m.kind = "book" /\ m.unread = {}) \/ (m.kind = "change" /\ Live(b)))
      /\ (i \in Snapshots(n)) <=> (i \in Heeded(n) /\ m.kind = "book")
  BY DEF Heeded, Snapshots, Raises, BookRaises
<1>3. Content(i) <=> m.kind # "execution"
  BY DEF Content
<1>4. m.kind \in {"book", "change", "execution"}
  BY <1>1, MessageIs
<1>5. CASE Dropped(i)
  BY <1>1, <1>2, <1>5
<1>6. CASE ~Dropped(i) /\ m.kind = "book" /\ m.unread = {}
  <2>1. c = OnBook(b, m)
    BY <1>1, <1>6 DEF Handled
  <2>2. c \in Book /\ c.snapshot /\ c.levels = m.truth /\ c.age = StampAge(m)
    BY <1>1, <1>6, <2>1, SnapshotIs
  <2>3. Live(c)
    BY <2>2, NoBookAssumption DEF Live
  <2> QED
    BY <1>1, <1>2, <1>3, <1>6, <2>2, <2>3
<1>7. CASE ~Dropped(i) /\ m.kind = "book" /\ m.unread # {}
  <2>1. c = OnBook(b, m)
    BY <1>1, <1>7 DEF Handled
  <2>2. Live(c) => Live(b) /\ c.age = b.age
    BY <1>1, <1>7, <2>1, RaisedSnapshotIs DEF Live
  <2> QED
    BY <1>1, <1>2, <1>7, <2>2
<1>8. CASE ~Dropped(i) /\ m.kind = "change" /\ Live(b)
  <2>1. c = OnMetricChange(b, m)
    BY <1>1, <1>8 DEF Handled
  <2>2. /\ Live(c) /\ c.age = StampAge(m) /\ c.levels \in Contents
        /\ \A l \in Levels : c.levels[l] =
             IF l \in m.changed \ m.unread THEN m.truth[l] ELSE b.levels[l]
    BY <1>1, <1>8, <2>1, ChangeIs
  <2> QED
    BY <1>1, <1>2, <1>3, <1>8, <2>2
<1>9. CASE ~Dropped(i) /\ m.kind = "change" /\ ~Live(b)
  <2>1. c = b
    BY <1>1, <1>9, ChangeIs DEF Handled
  <2> QED
    BY <1>1, <1>2, <1>9, <2>1
<1>10. CASE ~Dropped(i) /\ m.kind = "execution"
  <2>1. c = SetDefault(b)
    BY <1>1, <1>10 DEF Handled, OnExecution
  <2>2. Live(c) => Live(b) /\ c = b
    BY <1>1, <2>1, SetDefaultIs DEF Live
  <2> QED
    BY <1>1, <1>2, <1>3, <1>10, <2>2
<1> QED
  BY <1>4, <1>5, <1>6, <1>7, <1>8, <1>9, <1>10

\* As far as the i-th message of a frame: the copy has the stamp of the last one heeded,
CopyStamped(n, i) ==
  Live(Copies(n)[i]) =>
    \/ \E q \in Heeded(n) :
         /\ q <= i /\ \A j \in Heeded(n) : j <= i => j <= q
         /\ Copies(n)[i].age = StampAge(wire[q])
    \/ /\ \A j \in Heeded(n) : j > i
       /\ Live(book) /\ Copies(n)[i].age = book.age

\* and unless something since the last snapshot was not read in full, it shows what that
\* message does, after which there was nothing but executions.
Clean(n, i) ==
  /\ \A j \in 1 .. i : (\A s \in Snapshots(n) : s <= i => j > s) =>
                         ~Dropped(j) /\ wire[j].unread = {}
  /\ spoilt => \E s \in Snapshots(n) : s <= i
CopyShows(n, i) ==
  Live(Copies(n)[i]) /\ Clean(n, i) =>
    \/ \E q \in Heeded(n) :
         /\ q <= i /\ \A k \in q + 1 .. i : ~Content(k)
         /\ Copies(n)[i].levels = wire[q].truth
    \/ /\ \A k \in 1 .. i : ~Content(k)
       /\ Tracked /\ Copies(n)[i].levels = mirror

\* The copy before the frame.
LEMMA FrameStart ==
  ASSUME LocalIInv, NEW n \in 1 .. Len(wire)
  PROVE  CopyStamped(n, 0) /\ CopyShows(n, 0)
<1>1. Copies(n)[0] = book
  BY CopiesAre DEF LocalIInv, LocalTypeOK, Copy
<1>2. \A j \in Heeded(n) : j > 0 /\ ~(j <= 0)
  BY DEF Heeded
<1>3. Clean(n, 0) => ~spoilt
  BY <1>2 DEF Clean, Snapshots
<1>4. CopyStamped(n, 0)
  BY <1>1, <1>2 DEF CopyStamped
<1>5. CopyShows(n, 0)
  BY <1>1, <1>3 DEF CopyShows, LocalIInv, CopyTrue, Tracked
<1> QED
  BY <1>4, <1>5

\* From one copy to the next.
LEMMA FrameStep ==
  ASSUME LocalIInv, NEW n \in 1 .. Len(wire), NEW i \in 1 .. n,
         CopyStamped(n, i - 1), CopyShows(n, i - 1)
  PROVE  CopyStamped(n, i) /\ CopyShows(n, i)
<1> DEFINE b == Copies(n)[i - 1]
           c == Copies(n)[i]
           m == wire[i]
<1>0. /\ book \in Copy /\ wire \in Seq(Message)
      /\ b = Copies(n)[i - 1] /\ c = Copies(n)[i] /\ m = wire[i]
  BY DEF LocalIInv, LocalTypeOK, Copy
<1> HIDE DEF b, c, m
<1>a. MessageDoes(n, i, b, c, m)
  BY <1>0, MessageStep
<1>1. /\ b \in Copy /\ c \in Copy /\ m \in Message
      /\ i \in Heeded(n) =>
           /\ ~Dropped(i) /\ Content(i) /\ Live(c) /\ c.age = StampAge(m)
           /\ i \in Snapshots(n) => m.unread = {} /\ c.levels = m.truth
           /\ i \notin Snapshots(n) =>
                /\ m.kind = "change" /\ Live(b) /\ c.levels \in Contents
                /\ \A l \in Levels : c.levels[l] =
                     IF l \in m.changed \ m.unread THEN m.truth[l] ELSE b.levels[l]
      /\ i \notin Heeded(n) =>
           /\ Live(c) => Live(b) /\ c.age = b.age
           /\ Live(c) /\ ~Dropped(i) /\ m.unread = {} => ~Content(i) /\ c = b
  BY <1>a DEF MessageDoes
<1> USE DEF b, c, m
<1>2. Heeded(n) \subseteq 1 .. n /\ Snapshots(n) \subseteq Heeded(n) /\ n \in Nat
  BY DEF Heeded, Snapshots
<1>3. CopyStamped(n, i)
  <2>1. CASE i \in Heeded(n)
    <3>1. i <= i /\ \A j \in Heeded(n) : j <= i => j <= i
      BY <1>2
    <3> QED
      BY <1>1, <2>1, <3>1 DEF CopyStamped
  <2>2. CASE i \notin Heeded(n)
    <3>1. \A j \in Heeded(n) : (j <= i <=> j <= i - 1) /\ (j > i <=> j > i - 1)
      BY <1>2, <2>2
    <3>2. Live(c) => Live(b) /\ c.age = b.age
      BY <1>1, <2>2
    <3> QED
      BY <3>1, <3>2 DEF CopyStamped
  <2> QED
    BY <2>1, <2>2
<1>4. CopyShows(n, i)
  <2> SUFFICES ASSUME Live(c), Clean(n, i)
               PROVE  \/ \E q \in Heeded(n) :
                           /\ q <= i /\ \A k \in q + 1 .. i : ~Content(k)
                           /\ c.levels = wire[q].truth
                      \/ /\ \A k \in 1 .. i : ~Content(k)
                         /\ Tracked /\ c.levels = mirror
    BY DEF CopyShows
  <2>1. ASSUME i \in Heeded(n), c.levels = m.truth
        PROVE  \E q \in Heeded(n) : /\ q <= i /\ \A k \in q + 1 .. i : ~Content(k)
                                    /\ c.levels = wire[q].truth
    <3>1. i <= i /\ \A k \in i + 1 .. i : ~Content(k)
      BY <1>2
    <3> QED
      BY <2>1, <3>1
  <2>2. CASE i \in Snapshots(n)
    BY <1>1, <1>2, <2>1, <2>2
  <2>3. CASE i \notin Snapshots(n)
    <3>1. \A s \in Snapshots(n) : (s <= i <=> s <= i - 1) /\ (s <= i => i > s)
      BY <1>2, <2>3
    <3>2. ~Dropped(i) /\ m.unread = {}
      <4>1. i \in 1 .. i
        BY <1>2
      <4> QED
        BY <3>1, <4>1 DEF Clean
    <3>3. Clean(n, i - 1)
      <4>1. \A j \in 1 .. i - 1 : j \in 1 .. i
        BY <1>2
      <4> QED
        BY <3>1, <4>1 DEF Clean
    <3>4. Live(b)
      BY <1>1, <2>3
    <3>5. \/ \E q \in Heeded(n) :
               /\ q <= i - 1 /\ \A k \in q + 1 .. i - 1 : ~Content(k)
               /\ b.levels = wire[q].truth
          \/ /\ \A k \in 1 .. i - 1 : ~Content(k)
             /\ Tracked /\ b.levels = mirror
      BY <3>3, <3>4 DEF CopyShows
    <3>6. CASE i \notin Heeded(n)
      <4>1. ~Content(i) /\ c = b
        BY <1>1, <3>2, <3>6
      <4>2. ASSUME NEW q \in Heeded(n), q <= i - 1, \A k \in q + 1 .. i - 1 : ~Content(k)
            PROVE  q <= i /\ \A k \in q + 1 .. i : ~Content(k)
        <5>1. q \in Nat /\ i \in Nat
          BY <1>2
        <5>2. \A k \in q + 1 .. i : k = i \/ k \in q + 1 .. i - 1
          BY <5>1
        <5> QED
          BY <4>1, <4>2, <5>1, <5>2
      <4>3. (\A k \in 1 .. i - 1 : ~Content(k)) => \A k \in 1 .. i : ~Content(k)
        <5>1. \A k \in 1 .. i : k = i \/ k \in 1 .. i - 1
          BY <1>2
        <5> QED
          BY <4>1, <5>1
      <4> QED
        BY <3>5, <4>1, <4>2, <4>3
    <3>7. CASE i \in Heeded(n)
      <4>1. /\ m.kind = "change" /\ c.levels \in Contents /\ m.truth \in Contents
            /\ \A l \in Levels : c.levels[l] =
                 IF l \in m.changed THEN m.truth[l] ELSE b.levels[l]
        BY <1>1, <2>3, <3>2, <3>7, MessageIs
      <4>2. Follows(m, b.levels)
        <5>1. CASE \E q \in Heeded(n) :
                     /\ q <= i - 1 /\ \A k \in q + 1 .. i - 1 : ~Content(k)
                     /\ b.levels = wire[q].truth
          <6>1. PICK q \in Heeded(n) : /\ q <= i - 1 /\ \A k \in q + 1 .. i - 1 : ~Content(k)
                                       /\ b.levels = wire[q].truth
            BY <5>1
          <6>2. q \in DOMAIN wire /\ i \in DOMAIN wire /\ q < i
            BY <1>0, <1>2, <6>1
          <6>3. Content(q)
            BY DEF Heeded, Content
          <6> QED
            BY <4>1, <6>1, <6>2, <6>3 DEF LocalIInv, Linked
        <5>2. CASE (\A k \in 1 .. i - 1 : ~Content(k)) /\ Tracked /\ b.levels = mirror
          <6>1. i \in DOMAIN wire
            BY <1>0
          <6> QED
            BY <4>1, <5>2, <6>1 DEF LocalIInv, FirstLinked
        <5> QED
          BY <3>5, <5>1, <5>2
      <4>3. c.levels = m.truth
        BY <4>1, <4>2 DEF Follows, Contents
      <4> QED
        BY <2>1, <3>7, <4>3
    <3> QED
      BY <3>6, <3>7
  <2> QED
    BY <2>2, <2>3
<1> QED
  BY <1>3, <1>4

\* So it is for the whole frame.
LEMMA FrameEnd ==
  ASSUME LocalIInv, NEW n \in 1 .. Len(wire)
  PROVE  CopyStamped(n, n) /\ CopyShows(n, n)
<1> DEFINE Wrong == {i \in 0 .. n : ~(CopyStamped(n, i) /\ CopyShows(n, i))}
<1>1. n \in Nat
  BY DEF LocalIInv, LocalTypeOK
<1>2. ASSUME Wrong # {} PROVE FALSE
  <2>1. Wrong \in SUBSET Nat
    BY <1>1
  <2> HIDE DEF Wrong
  <2>2. PICK i \in Wrong : \A j \in Wrong : i <= j
    BY <1>2, <2>1, Least
  <2> USE DEF Wrong
  <2>3. i # 0 /\ i \in 0 .. n
    BY <2>2, FrameStart
  <2>4. i \in 1 .. n /\ i - 1 \in 0 .. n /\ i - 1 \notin Wrong
    BY <1>1, <2>2, <2>3
  <2> QED
    BY <2>2, <2>4, FrameStep
<1>3. n \notin Wrong
  BY <1>2
<1> QED
  BY <1>1, <1>3

-----------------------------------------------------------------------------
(* The invariant is inductive *)

LEMMA LocalInitiation == LocalInit => LocalIInv
<1> SUFFICES ASSUME LocalInit PROVE LocalIInv
  OBVIOUS
<1>1. ~Live(book) /\ DOMAIN wire = {} /\ Len(wire) = 0 /\ wire \in Seq(Message)
  BY DEF LocalInit, Live
<1>2. LocalTypeOK
  <2>1. Len(wire) <= MaxWire /\ bad \in 0 .. MaxBad /\ mirrorAge \in 0 .. Forgotten
    BY <1>1, BookBounds DEF LocalInit
  <2>2. exchange \in Contents /\ mirror \in Contents /\ book \in Book \cup {NoBook}
    BY NewBookIs DEF LocalInit
  <2> QED
    BY <1>1, <2>1, <2>2 DEF LocalInit, LocalTypeOK
<1>3. WireIsServed /\ CopyTrue /\ CopyRecent
  BY <1>1 DEF LocalInit, WireIsServed, CopyTrue, CopyRecent, Tracked, Handed
<1>4. Linked /\ FirstLinked /\ LastIsNow
  BY <1>1 DEF LocalInit, Linked, FirstLinked, LastIsNow
<1> QED
  BY <1>2, <1>3, <1>4 DEF LocalIInv

\* What is left of the wire after a frame.
LEMMA Rest ==
  ASSUME wire \in Seq(Message), NEW n \in 1 .. Len(wire), wire' = SubSeq(wire, n + 1, Len(wire))
  PROVE  /\ wire' \in Seq(Message) /\ Len(wire') = Len(wire) - n
         /\ \A j \in DOMAIN wire' : j + n \in DOMAIN wire /\ wire'[j] = wire[j + n]
         /\ \A j \in n + 1 .. Len(wire) : j - n \in DOMAIN wire' /\ wire'[j - n] = wire[j]
<1>1. wire' \in Seq(Message) /\ Len(wire') = Len(wire) - n
  BY SubSeqProperties
<1>2. DOMAIN wire' = 1 .. Len(wire) - n /\ Len(wire) \in Nat /\ n \in Nat
  BY <1>1
<1>3. \A j \in 1 .. Len(wire) - n : wire'[j] = wire[j + n]
  BY SubSeqProperties
<1> QED
  BY <1>1, <1>2, <1>3

LEMMA LastHeeded ==
  ASSUME NEW n \in 1 .. Len(wire), wire \in Seq(Message),
         NEW q \in Heeded(n), \A j \in Heeded(n) : j <= q
  PROVE  Latest(Heeded(n)) = wire[q]
<1>1. Heeded(n) \subseteq Int
  BY DEF Heeded
<1> DEFINE H == Heeded(n)
<1> HIDE DEF H
<1>2. H \subseteq Int /\ q \in H /\ \A j \in H : j <= q
  BY <1>1 DEF H
<1>3. (CHOOSE i \in H : \A j \in H : i >= j) = q
  <2>1. \A j \in H : q >= j
    BY <1>2
  <2>2. PICK x : x = CHOOSE i \in H : \A j \in H : i >= j
    OBVIOUS
  <2>3. x \in H /\ \A j \in H : x >= j
    BY <1>2, <2>1, <2>2, Zenon
  <2>4. x \in Int /\ q \in Int /\ x >= q /\ q >= x
    BY <1>2, <2>1, <2>3
  <2> QED
    BY <2>2, <2>4
<1> QED
  BY <1>3 DEF H, Latest

\* What a frame leaves: a copy and a history of it that agree.
LEMMA FrameLeaves ==
  ASSUME LocalIInv, NEW n \in 1 .. Len(wire), Handle(n)
  PROVE  /\ Tracked' =>
              \/ \E q \in 1 .. n : /\ Content(q) /\ \A k \in q + 1 .. n : ~Content(k)
                                   /\ book'.levels = mirror' /\ mirror' = wire[q].truth
              \/ /\ \A k \in 1 .. n : ~Content(k)
                 /\ Tracked /\ book'.levels = mirror' /\ mirror' = mirror
         /\ CopyRecent' /\ book' \in Copy
         /\ mirror' \in Contents /\ mirrorAge' \in 0 .. Forgotten
<1>1. /\ book \in Copy /\ wire \in Seq(Message) /\ n \in Nat
      /\ mirror \in Contents /\ mirrorAge \in 0 .. Forgotten
  BY DEF LocalIInv, LocalTypeOK, Copy
<1>2. /\ Heeded(n) \subseteq 1 .. n /\ Snapshots(n) \subseteq Heeded(n)
      /\ \A i \in Heeded(n) : Content(i) /\ wire[i] \in Message
  BY <1>1 DEF Heeded, Snapshots, Content
<1>3. /\ book' = Copies(n)[n]
      /\ spoilt' <=> (Missed(n) # {} \/ (spoilt /\ Snapshots(n) = {}))
      /\ mirrorAge' = IF Heeded(n) = {} THEN mirrorAge ELSE Latest(Heeded(n)).age
      /\ mirror' = IF spoilt' THEN NewBook.levels
                   ELSE IF Heeded(n) = {} THEN mirror ELSE Latest(Heeded(n)).truth
  BY DEF Handle
<1>4. book' \in Copy
  BY <1>1, <1>3, CopiesAre
<1>5. Heeded(n) # {} => \E q \in Heeded(n) : Latest(Heeded(n)) = wire[q]
  <2> SUFFICES ASSUME Heeded(n) # {} PROVE \E q \in Heeded(n) : \A j \in Heeded(n) : j <= q
    BY <1>1, LastHeeded
  <2> DEFINE Above == {n - j : j \in Heeded(n)}
  <2>1. Above \in SUBSET Nat /\ Above # {}
    BY <1>1, <1>2
  <2> HIDE DEF Above
  <2>2. PICK a \in Above : \A x \in Above : a <= x
    BY <2>1, Least
  <2>3. PICK q \in Heeded(n) : a = n - q
    BY <2>2 DEF Above
  <2>4. \A j \in Heeded(n) : n - q <= n - j
    BY <2>2, <2>3 DEF Above
  <2> QED
    BY <1>1, <1>2, <2>4
<1>6. mirror' \in Contents /\ mirrorAge' \in 0 .. Forgotten
  <2>1. \A q \in Heeded(n) : wire[q].truth \in Contents /\ wire[q].age \in 0 .. Latency
    BY <1>2, MessageIs
  <2>2. \A a \in 0 .. Latency : a \in 0 .. Forgotten
    BY BookBounds
  <2> QED
    BY <1>1, <1>3, <1>5, <2>1, <2>2, NewBookIs
<1>7. CopyRecent'
  <2> SUFFICES ASSUME Live(book'), book'.age <= Freshness
               PROVE  mirrorAge' <= book'.age + Latency
    BY DEF CopyRecent, Handed, Live
  <2>1. CASE \E q \in Heeded(n) : /\ q <= n /\ \A j \in Heeded(n) : j <= n => j <= q
                                  /\ book'.age = StampAge(wire[q])
    <3>1. PICK q \in Heeded(n) : /\ \A j \in Heeded(n) : j <= n => j <= q
                                 /\ book'.age = StampAge(wire[q])
      BY <2>1
    <3>2. \A j \in Heeded(n) : j <= q
      BY <1>2, <3>1
    <3>3. Latest(Heeded(n)) = wire[q]
      BY <1>1, <3>2, LastHeeded
    <3>4. mirrorAge' = wire[q].age
      BY <1>3, <3>3
    <3> QED
      BY <1>2, <3>1, <3>4, StampAgeIs
  <2>2. CASE (\A j \in Heeded(n) : j > n) /\ Live(book) /\ book'.age = book.age
    <3>1. Heeded(n) = {}
      BY <1>2, <2>2
    <3>2. mirrorAge' = mirrorAge
      BY <1>3, <3>1
    <3> QED
      BY <2>2, <3>2 DEF LocalIInv, CopyRecent, Handed
  <2> QED
    BY <1>3, <2>1, <2>2, FrameEnd DEF CopyStamped
<1>8. ASSUME Tracked'
      PROVE  \/ \E q \in 1 .. n : /\ Content(q) /\ \A k \in q + 1 .. n : ~Content(k)
                                  /\ book'.levels = mirror' /\ mirror' = wire[q].truth
             \/ /\ \A k \in 1 .. n : ~Content(k)
                /\ Tracked /\ book'.levels = mirror' /\ mirror' = mirror
  <2>1. Live(Copies(n)[n]) /\ ~spoilt'
    BY <1>3, <1>8 DEF Tracked, Live
  <2>2. Clean(n, n)
    <3>1. Missed(n) = {} /\ (spoilt => Snapshots(n) # {})
      BY <1>3, <2>1
    <3>2. \A s \in Snapshots(n) : s <= n
      BY <1>2
    <3>3. \A j \in 1 .. n : (\A s \in Snapshots(n) : j > s) => ~Dropped(j) /\ wire[j].unread = {}
      BY <3>1 DEF Missed
    <3> QED
      BY <3>1, <3>2, <3>3 DEF Clean
  <2>3. mirror' = IF Heeded(n) = {} THEN mirror ELSE Latest(Heeded(n)).truth
    BY <1>3, <2>1
  <2>4. CASE \E q \in Heeded(n) : /\ q <= n /\ \A k \in q + 1 .. n : ~Content(k)
                                  /\ book'.levels = wire[q].truth
    <3>1. PICK q \in Heeded(n) : /\ \A k \in q + 1 .. n : ~Content(k)
                                 /\ book'.levels = wire[q].truth
      BY <2>4
    <3>2. \A j \in Heeded(n) : j <= q
      <4>1. \A j \in 1 .. n : j > q => j \in q + 1 .. n
        BY <1>1, <1>2
      <4> QED
        BY <1>1, <1>2, <3>1, <4>1
    <3>3. Latest(Heeded(n)) = wire[q]
      BY <1>1, <3>2, LastHeeded
    <3> QED
      BY <1>2, <2>3, <3>1, <3>3
  <2>5. CASE /\ \A k \in 1 .. n : ~Content(k)
             /\ Tracked /\ book'.levels = mirror
    <3>1. Heeded(n) = {}
      BY <1>2, <2>5
    <3> QED
      BY <2>3, <2>5, <3>1
  <2> QED
    BY <1>3, <2>1, <2>2, <2>4, <2>5, FrameEnd DEF CopyShows
<1> QED
  BY <1>4, <1>6, <1>7, <1>8

LEMMA HandlePreserves ==
  ASSUME LocalIInv, NEW n \in 1 .. Len(wire), Handle(n) PROVE LocalIInv'
<1>1. wire \in Seq(Message) /\ n \in Nat /\ Len(wire) \in Nat /\ DOMAIN wire = 1 .. Len(wire)
  BY DEF LocalIInv, LocalTypeOK
<1>2. wire' = SubSeq(wire, n + 1, Len(wire)) /\ serving' = serving /\ exchange' = exchange
  BY DEF Handle
<1>3. /\ wire' \in Seq(Message) /\ Len(wire') = Len(wire) - n
      /\ \A j \in DOMAIN wire' : j + n \in DOMAIN wire /\ wire'[j] = wire[j + n]
      /\ \A j \in n + 1 .. Len(wire) : j - n \in DOMAIN wire' /\ wire'[j - n] = wire[j]
  BY <1>1, <1>2, Rest
<1>4. DOMAIN wire' = 1 .. Len(wire) - n
  BY <1>3
<1>5. /\ \A j \in DOMAIN wire' : Content(j)' <=> Content(j + n)
      /\ \A j \in n + 1 .. Len(wire) : j - n \in DOMAIN wire' /\ (Content(j - n)' <=> Content(j))
  BY <1>3 DEF Content
\* Between two messages of the rest nothing was left out.
<1>6. ASSUME NEW i \in 0 .. Len(wire) - n, NEW j \in 0 .. Len(wire) - n + 1,
             \A k \in i + 1 .. j - 1 : ~Content(k)'
      PROVE  \A k \in i + n + 1 .. j + n - 1 : ~Content(k)
  <2> SUFFICES ASSUME NEW k \in i + n + 1 .. j + n - 1 PROVE ~Content(k)
    OBVIOUS
  <2>1. k - n \in i + 1 .. j - 1 /\ k \in n + 1 .. Len(wire)
    BY <1>1
  <2> QED
    BY <1>5, <1>6, <2>1
<1>7. /\ Tracked' =>
           \/ \E q \in 1 .. n : /\ Content(q) /\ \A k \in q + 1 .. n : ~Content(k)
                                /\ book'.levels = mirror' /\ mirror' = wire[q].truth
           \/ /\ \A k \in 1 .. n : ~Content(k)
              /\ Tracked /\ book'.levels = mirror' /\ mirror' = mirror
      /\ CopyRecent' /\ book' \in Copy
      /\ mirror' \in Contents /\ mirrorAge' \in 0 .. Forgotten
  BY FrameLeaves
<1>8. LocalTypeOK'
  <2>1. UNCHANGED <<exchange, serving, connected, bad>> /\ spoilt' \in BOOLEAN
    BY DEF Handle
  <2>2. Len(wire') <= MaxWire
    BY <1>1, <1>3, BookBounds DEF LocalIInv, LocalTypeOK
  <2> QED
    BY <1>3, <1>7, <2>1, <2>2 DEF LocalIInv, LocalTypeOK, Copy
<1>9. WireIsServed'
  BY <1>1, <1>2 DEF LocalIInv, WireIsServed
<1>10. CopyTrue'
  BY <1>7 DEF CopyTrue
<1>11. Linked'
  <2> SUFFICES ASSUME NEW i \in DOMAIN wire', NEW j \in DOMAIN wire',
                      i < j, Content(i)', wire'[j].kind = "change",
                      \A k \in i + 1 .. j - 1 : ~Content(k)'
               PROVE  Follows(wire'[j], wire'[i].truth)
    BY DEF Linked, Follows
  <2>1. /\ i + n \in DOMAIN wire /\ j + n \in DOMAIN wire /\ i + n < j + n
        /\ Content(i + n) /\ wire[j + n].kind = "change"
        /\ wire'[i] = wire[i + n] /\ wire'[j] = wire[j + n]
    BY <1>1, <1>3, <1>4, <1>5
  <2>2. i \in 0 .. Len(wire) - n /\ j \in 0 .. Len(wire) - n + 1
    BY <1>1, <1>4
  <2>3. \A k \in i + n + 1 .. j + n - 1 : ~Content(k)
    BY <1>6, <2>2, Zenon
  <2>4. Follows(wire[j + n], wire[i + n].truth)
    <3>1. PICK a, b : a = i + n /\ b = j + n
      OBVIOUS
    <3>2. /\ a \in DOMAIN wire /\ b \in DOMAIN wire /\ a < b
          /\ Content(a) /\ wire[b].kind = "change"
      BY <2>1, <3>1
    <3>3. ASSUME NEW k \in a + 1 .. b - 1 PROVE ~Content(k)
      <4>1. k \in i + n + 1 .. j + n - 1
        BY <1>1, <2>2, <3>1
      <4> QED
        BY <2>3, <4>1
    <3>4. Follows(wire[b], wire[a].truth)
      BY <3>2, <3>3 DEF LocalIInv, Linked
    <3> QED
      BY <3>1, <3>4
  <2> QED
    BY <2>1, <2>4
<1>12. FirstLinked'
  <2> SUFFICES ASSUME NEW j \in DOMAIN wire', Tracked', wire'[j].kind = "change",
                      \A k \in 1 .. j - 1 : ~Content(k)'
               PROVE  Follows(wire'[j], mirror')
    BY DEF FirstLinked, Follows
  <2>1. j + n \in DOMAIN wire /\ wire'[j] = wire[j + n] /\ j \in 1 .. Len(wire) - n
    BY <1>3, <1>4
  <2>2. \A k \in n + 1 .. j + n - 1 : ~Content(k)
    <3>1. /\ 0 \in 0 .. Len(wire) - n /\ j \in 0 .. Len(wire) - n + 1
          /\ \A k \in 0 + 1 .. j - 1 : ~Content(k)'
      BY <1>1, <2>1
    <3>2. \A k \in 0 + n + 1 .. j + n - 1 : ~Content(k)
      BY <1>6, <3>1, Zenon
    <3> QED
      BY <1>1, <3>2
  <2>3. CASE \E q \in 1 .. n : /\ Content(q) /\ \A k \in q + 1 .. n : ~Content(k)
                               /\ mirror' = wire[q].truth
    <3>1. PICK q \in 1 .. n : /\ Content(q) /\ \A k \in q + 1 .. n : ~Content(k)
                              /\ mirror' = wire[q].truth
      BY <2>3
    <3>2. q \in DOMAIN wire /\ q < j + n
      BY <1>1, <2>1
    <3>3. \A k \in q + 1 .. j + n - 1 : k \in q + 1 .. n \/ k \in n + 1 .. j + n - 1
      BY <1>1
    <3> QED
      BY <2>1, <2>2, <3>1, <3>2, <3>3 DEF LocalIInv, Linked
  <2>4. CASE (\A k \in 1 .. n : ~Content(k)) /\ Tracked /\ mirror' = mirror
    <3>1. \A k \in 1 .. j + n - 1 : k \in 1 .. n \/ k \in n + 1 .. j + n - 1
      BY <1>1
    <3> QED
      BY <2>1, <2>2, <2>4, <3>1 DEF LocalIInv, FirstLinked
  <2> QED
    BY <1>7, <2>3, <2>4
<1>13. LastIsNow'
  <2> SUFFICES ASSUME serving
               PROVE  /\ \A i \in DOMAIN wire' :
                           Content(i)' /\ (\A k \in i + 1 .. Len(wire') : ~Content(k)')
                             => wire'[i].truth = exchange
                      /\ Tracked' /\ (\A k \in DOMAIN wire' : ~Content(k)') => mirror' = exchange
    BY <1>2 DEF LastIsNow
  <2>1. ASSUME NEW i \in DOMAIN wire', Content(i)', \A k \in i + 1 .. Len(wire') : ~Content(k)'
        PROVE  wire'[i].truth = exchange
    <3>1. i + n \in DOMAIN wire /\ Content(i + n) /\ wire'[i] = wire[i + n]
      BY <1>3, <1>5, <2>1
    <3>2. \A k \in i + n + 1 .. Len(wire) : k - n \in i + 1 .. Len(wire') /\ k \in n + 1 .. Len(wire)
      BY <1>1, <1>3, <1>4
    <3>3. \A k \in i + n + 1 .. Len(wire) : ~Content(k)
      BY <1>5, <2>1, <3>2
    <3> QED
      BY <3>1, <3>3 DEF LocalIInv, LastIsNow
  <2>2. ASSUME Tracked', \A k \in DOMAIN wire' : ~Content(k)' PROVE mirror' = exchange
    <3>1. \A k \in n + 1 .. Len(wire) : ~Content(k)
      BY <1>5, <2>2
    <3>2. CASE \E q \in 1 .. n : /\ Content(q) /\ \A k \in q + 1 .. n : ~Content(k)
                                 /\ mirror' = wire[q].truth
      <4>1. PICK q \in 1 .. n : /\ Content(q) /\ \A k \in q + 1 .. n : ~Content(k)
                                /\ mirror' = wire[q].truth
        BY <3>2
      <4>2. q \in DOMAIN wire
        BY <1>1
      <4>3. \A k \in q + 1 .. Len(wire) : k \in q + 1 .. n \/ k \in n + 1 .. Len(wire)
        BY <1>1
      <4> QED
        BY <3>1, <4>1, <4>2, <4>3 DEF LocalIInv, LastIsNow
    <3>3. CASE (\A k \in 1 .. n : ~Content(k)) /\ Tracked /\ mirror' = mirror
      <4>1. \A k \in DOMAIN wire : k \in 1 .. n \/ k \in n + 1 .. Len(wire)
        BY <1>1
      <4> QED
        BY <3>1, <3>3, <4>1 DEF LocalIInv, LastIsNow
    <3> QED
      BY <1>7, <2>2, <3>2, <3>3
  <2> QED
    BY <2>1, <2>2
<1> QED
  BY <1>7, <1>8, <1>9, <1>10, <1>11, <1>12, <1>13 DEF LocalIInv

\* A message that is put on the wire.
LEMMA Appended ==
  ASSUME wire \in Seq(Message), NEW m \in Message, wire' = Append(wire, m)
  PROVE  /\ wire' \in Seq(Message) /\ Len(wire') = Len(wire) + 1 /\ Len(wire) \in Nat
         /\ DOMAIN wire = 1 .. Len(wire) /\ DOMAIN wire' = 1 .. Len(wire) + 1
         /\ wire'[Len(wire) + 1] = m
         /\ \A i \in 1 .. Len(wire) : wire'[i] = wire[i] /\ (Content(i)' <=> Content(i))
<1>1. /\ wire' \in Seq(Message) /\ Len(wire') = Len(wire) + 1 /\ Len(wire) \in Nat
      /\ DOMAIN wire = 1 .. Len(wire) /\ DOMAIN wire' = 1 .. Len(wire) + 1
      /\ wire'[Len(wire) + 1] = m /\ \A i \in 1 .. Len(wire) : wire'[i] = wire[i]
  OBVIOUS
<1> QED
  BY <1>1 DEF Content

\* The links hold over a message that is itself linked to the server's book.
LEMMA LinksOver ==
  ASSUME LocalIInv, NEW m \in Message, wire' = Append(wire, m), serving',
         serving /\ m.kind = "change" => Follows(m, exchange),
         ~serving => m.kind # "change",
         m.kind # "execution" => m.truth = exchange',
         m.kind = "execution" => serving /\ exchange' = exchange,
         Tracked' => Tracked, mirror' = mirror
  PROVE  Linked' /\ FirstLinked' /\ LastIsNow'
<1>1. wire \in Seq(Message)
  BY DEF LocalIInv, LocalTypeOK
<1>2. /\ Len(wire) \in Nat /\ Len(wire') = Len(wire) + 1
      /\ DOMAIN wire = 1 .. Len(wire) /\ DOMAIN wire' = 1 .. Len(wire) + 1
      /\ wire'[Len(wire) + 1] = m
      /\ \A i \in 1 .. Len(wire) : wire'[i] = wire[i] /\ (Content(i)' <=> Content(i))
  BY <1>1, Appended
<1> DEFINE last == Len(wire) + 1
<1>3. Linked'
  <2> SUFFICES ASSUME NEW i \in DOMAIN wire', NEW j \in DOMAIN wire',
                      i < j, Content(i)', wire'[j].kind = "change",
                      \A k \in i + 1 .. j - 1 : ~Content(k)'
               PROVE  Follows(wire'[j], wire'[i].truth)
    BY DEF Linked, Follows
  <2>1. i \in 1 .. Len(wire) /\ Content(i) /\ wire'[i] = wire[i]
    BY <1>2
  <2>2. \A k \in i + 1 .. j - 1 : k \in 1 .. Len(wire)
    BY <1>2, <2>1
  <2>3. \A k \in i + 1 .. j - 1 : ~Content(k)
    BY <1>2, <2>2
  <2>4. CASE j = last
    <3>1. serving
      BY <1>2, <2>4
    <3>2. \A k \in i + 1 .. Len(wire) : ~Content(k)
      BY <1>2, <2>3, <2>4
    <3>3. wire[i].truth = exchange
      BY <1>2, <2>1, <3>1, <3>2 DEF LocalIInv, LastIsNow
    <3> QED
      BY <1>2, <2>1, <2>4, <3>1, <3>3
  <2>5. CASE j # last
    <3>1. j \in 1 .. Len(wire) /\ wire'[j] = wire[j]
      BY <1>2, <2>5
    <3> QED
      BY <1>2, <2>1, <2>3, <3>1 DEF LocalIInv, Linked
  <2> QED
    BY <2>4, <2>5
<1>4. FirstLinked'
  <2> SUFFICES ASSUME NEW j \in DOMAIN wire', Tracked', wire'[j].kind = "change",
                      \A k \in 1 .. j - 1 : ~Content(k)'
               PROVE  Follows(wire'[j], mirror')
    BY DEF FirstLinked, Follows
  <2>1. \A k \in 1 .. j - 1 : k \in 1 .. Len(wire)
    BY <1>2
  <2>2. \A k \in 1 .. j - 1 : ~Content(k)
    BY <1>2, <2>1
  <2>3. CASE j = last
    <3>1. serving
      BY <1>2, <2>3
    <3>2. \A k \in DOMAIN wire : ~Content(k)
      BY <1>2, <2>2, <2>3
    <3>3. mirror = exchange
      BY <3>1, <3>2 DEF LocalIInv, LastIsNow
    <3> QED
      BY <1>2, <2>3, <3>1, <3>3
  <2>4. CASE j # last
    <3>1. j \in 1 .. Len(wire) /\ wire'[j] = wire[j]
      BY <1>2, <2>4
    <3> QED
      BY <1>2, <2>2, <3>1 DEF LocalIInv, FirstLinked
  <2> QED
    BY <2>3, <2>4
<1>5. LastIsNow'
  <2> SUFFICES /\ \A i \in DOMAIN wire' :
                    Content(i)' /\ (\A k \in i + 1 .. Len(wire') : ~Content(k)')
                      => wire'[i].truth = exchange'
               /\ Tracked' /\ (\A k \in DOMAIN wire' : ~Content(k)') => mirror' = exchange'
    BY DEF LastIsNow
  <2>1. ASSUME NEW i \in DOMAIN wire', Content(i)', \A k \in i + 1 .. Len(wire') : ~Content(k)'
        PROVE  wire'[i].truth = exchange'
    <3>1. CASE i = last
      BY <1>2, <2>1, <3>1 DEF Content
    <3>2. CASE i # last
      <4>1. i \in 1 .. Len(wire) /\ last \in i + 1 .. Len(wire')
        BY <1>2, <3>2
      <4>2. m.kind = "execution" /\ serving
        BY <1>2, <2>1, <4>1 DEF Content
      <4>3. \A k \in i + 1 .. Len(wire) : k \in i + 1 .. Len(wire') /\ k \in 1 .. Len(wire)
        BY <1>2, <4>1
      <4>4. \A k \in i + 1 .. Len(wire) : ~Content(k)
        BY <1>2, <2>1, <4>3
      <4>5. wire[i].truth = exchange
        BY <1>2, <2>1, <4>1, <4>2, <4>4 DEF LocalIInv, LastIsNow
      <4> QED
        BY <1>2, <4>1, <4>2, <4>5
    <3> QED
      BY <3>1, <3>2
  <2>2. ASSUME Tracked', \A k \in DOMAIN wire' : ~Content(k)' PROVE mirror' = exchange'
    <3>1. m.kind = "execution" /\ serving
      BY <1>2, <2>2 DEF Content
    <3>2. \A k \in DOMAIN wire : ~Content(k)
      BY <1>2, <2>2
    <3> QED
      BY <2>2, <3>1, <3>2 DEF LocalIInv, LastIsNow
  <2> QED
    BY <2>1, <2>2
<1> QED
  BY <1>3, <1>4, <1>5

LEMMA SentIs ==
  ASSUME LocalTypeOK, NEW truth \in Contents, NEW changed \in SUBSET Levels,
         NEW levels \in SUBSET Levels, NEW kind \in {"book", "change", "execution"},
         NEW f \in Fields(levels), CountBad(f)
  PROVE  /\ Sends(kind, truth, changed, f.unread, f.stamped) \in Message
         /\ bad' \in 0 .. MaxBad
<1>1. f.unread \subseteq Levels /\ f.stamped \in BOOLEAN
  <2>1. \/ f \in {[unread |-> {}, stamped |-> TRUE], [unread |-> {}, stamped |-> FALSE]}
        \/ \E l \in levels : f = [unread |-> {l}, stamped |-> TRUE]
    BY DEF Fields
  <2>2. CASE f \in {[unread |-> {}, stamped |-> TRUE], [unread |-> {}, stamped |-> FALSE]}
    <3>1. f.unread = {} /\ (f.stamped = TRUE \/ f.stamped = FALSE)
      BY <2>2
    <3> QED
      BY <3>1
  <2>3. CASE \E l \in levels : f = [unread |-> {l}, stamped |-> TRUE]
    BY <2>3
  <2> QED
    BY <2>1, <2>2, <2>3
<1>2. Sends(kind, truth, changed, f.unread, f.stamped) \in Message
  BY <1>1, BookBounds DEF Sends, Message
<1>3. bad = MaxBad => f = [unread |-> {}, stamped |-> TRUE]
  BY DEF Fields
<1>4. bad # MaxBad \/ bad' = bad
  BY <1>3 DEF CountBad
<1>5. bad' = bad \/ bad' = bad + 1
  BY DEF CountBad
<1> QED
  BY <1>2, <1>4, <1>5, BookBounds DEF LocalTypeOK

LEMMA SnapshotPreserves == LocalIInv /\ ServerSnapshot => LocalIInv'
<1> SUFFICES ASSUME LocalIInv, ServerSnapshot PROVE LocalIInv'
  OBVIOUS
<1>1. LocalTypeOK /\ wire \in Seq(Message) /\ book \in Copy /\ exchange \in Contents
  BY DEF LocalIInv, LocalTypeOK, Copy
<1>2. PICK f \in Fields(Rows) :
        /\ SendSubscribe(Sends("book", exchange, Levels, f.unread, f.stamped))
        /\ CountBad(f)
  BY DEF ServerSnapshot
<1> DEFINE m == Sends("book", exchange, Levels, f.unread, f.stamped)
<1>3. m \in Message /\ bad' \in 0 .. MaxBad
  <2>1. Rows \in SUBSET Levels /\ Levels \in SUBSET Levels
    BY DEF Rows
  <2> QED
    BY <1>1, <1>2, <2>1, SentIs
<1>4. m.kind = "book" /\ m.truth = exchange
  BY DEF Sends
<1> HIDE DEF m
<1>5. /\ Len(wire) < MaxWire /\ serving' = TRUE /\ wire' = Append(wire, m)
      /\ book' = SetDefault(book)
      /\ UNCHANGED <<exchange, connected, mirror, mirrorAge, spoilt>>
  BY <1>2 DEF SendSubscribe, m
<1>6. /\ wire' \in Seq(Message) /\ Len(wire') = Len(wire) + 1 /\ Len(wire) \in Nat
  BY <1>1, <1>3, <1>5, Appended
<1>7. book' \in Book /\ (Live(book') => Live(book) /\ book' = book)
  BY <1>1, <1>5, SetDefaultIs DEF Live
<1>8. Tracked' => Tracked /\ book' = book
  BY <1>5, <1>7 DEF Tracked, Live
<1>9. LocalTypeOK'
  <2>1. Len(wire') <= MaxWire
    BY <1>5, <1>6, BookBounds
  <2> QED
    BY <1>3, <1>5, <1>6, <1>7, <2>1 DEF LocalIInv, LocalTypeOK
<1>10. Linked' /\ FirstLinked' /\ LastIsNow'
  BY <1>3, <1>4, <1>5, <1>8, LinksOver
<1>11. WireIsServed' /\ CopyTrue'
  BY <1>5, <1>8 DEF LocalIInv, WireIsServed, CopyTrue
<1>12. CopyRecent'
  BY <1>5, <1>7 DEF LocalIInv, CopyRecent, Handed, Live
<1> QED
  BY <1>9, <1>10, <1>11, <1>12 DEF LocalIInv

LEMMA ExecutionPreserves == LocalIInv /\ ServerExecutes => LocalIInv'
<1> SUFFICES ASSUME LocalIInv, ServerExecutes PROVE LocalIInv'
  OBVIOUS
<1> DEFINE m == Sends("execution", NewBook.levels, {}, {}, TRUE)
<1>1. m \in Message /\ m.kind = "execution"
  <2>1. NewBook.levels \in Contents /\ 0 \in 0 .. Latency
    BY NewBookIs, BookBounds
  <2>2. {} \in SUBSET Levels /\ TRUE \in BOOLEAN
    OBVIOUS
  <2> QED
    BY <2>1, <2>2 DEF Sends, Message
<1>2. /\ serving /\ Len(wire) < MaxWire /\ wire' = Append(wire, m)
      /\ UNCHANGED <<exchange, serving, connected, book, mirror, mirrorAge, spoilt, bad>>
  BY DEF ServerExecutes
<1> HIDE DEF m
<1>3. wire \in Seq(Message)
  BY DEF LocalIInv, LocalTypeOK
<1>4. /\ wire' \in Seq(Message) /\ Len(wire') = Len(wire) + 1 /\ Len(wire) \in Nat
  BY <1>1, <1>2, <1>3, Appended
<1>5. LocalTypeOK'
  <2>1. Len(wire') <= MaxWire
    BY <1>2, <1>4, BookBounds
  <2> QED
    BY <1>2, <1>4, <2>1 DEF LocalIInv, LocalTypeOK
<1>6. Tracked' => Tracked
  BY <1>2 DEF Tracked, Live
<1>7. Linked' /\ FirstLinked' /\ LastIsNow'
  BY <1>1, <1>2, <1>6, LinksOver
<1>8. WireIsServed' /\ CopyTrue' /\ CopyRecent'
  BY <1>2 DEF LocalIInv, WireIsServed, CopyTrue, CopyRecent, Tracked, Handed, Live
<1> QED
  BY <1>5, <1>7, <1>8 DEF LocalIInv

LEMMA MovePreserves == LocalIInv /\ ServerMoves => LocalIInv'
<1> SUFFICES ASSUME LocalIInv, ServerMoves PROVE LocalIInv'
  OBVIOUS
<1>1. LocalTypeOK /\ wire \in Seq(Message) /\ exchange \in Contents
  BY DEF LocalIInv, LocalTypeOK
<1>2. /\ exchange' \in Contents
      /\ UNCHANGED <<serving, connected, book, mirror, mirrorAge, spoilt>>
  BY DEF ServerMoves
<1>3. (Tracked' => Tracked) /\ CopyTrue' /\ CopyRecent'
  BY <1>2 DEF LocalIInv, CopyTrue, CopyRecent, Tracked, Handed, Live
<1>4. CASE serving
  <2> DEFINE changed == {l \in Levels : exchange'[l] # exchange[l]}
  <2>1. PICK f \in Fields(changed) :
          /\ wire' = Append(wire, Sends("change", exchange', changed, f.unread, f.stamped))
          /\ CountBad(f)
    BY <1>4 DEF ServerMoves
  <2> DEFINE m == Sends("change", exchange', changed, f.unread, f.stamped)
  <2>2. m \in Message /\ bad' \in 0 .. MaxBad
    <3>1. changed \in SUBSET Levels
      OBVIOUS
    <3> HIDE DEF changed
    <3> QED
      BY <1>1, <1>2, <2>1, <3>1, SentIs
  <2>3. m.kind = "change" /\ m.truth = exchange' /\ Follows(m, exchange)
    BY DEF Sends, Follows
  <2>4. wire' = Append(wire, m) /\ Len(wire) < MaxWire
    BY <1>4, <2>1 DEF ServerMoves
  <2> HIDE DEF m
  <2>5. /\ wire' \in Seq(Message) /\ Len(wire') = Len(wire) + 1 /\ Len(wire) \in Nat
    BY <1>1, <2>2, <2>4, Appended
  <2>6. LocalTypeOK'
    <3>1. Len(wire') <= MaxWire
      BY <2>4, <2>5, BookBounds
    <3> QED
      BY <1>2, <2>2, <2>5, <3>1 DEF LocalIInv, LocalTypeOK
  <2>7. Linked' /\ FirstLinked' /\ LastIsNow'
    BY <1>2, <1>3, <1>4, <2>2, <2>3, <2>4, LinksOver
  <2>8. WireIsServed'
    BY <1>2, <1>4 DEF WireIsServed
  <2> QED
    BY <1>3, <2>6, <2>7, <2>8 DEF LocalIInv
<1>5. CASE ~serving
  <2>1. wire' = wire /\ bad' = bad
    BY <1>5 DEF ServerMoves
  <2>2. LocalTypeOK' /\ WireIsServed'
    BY <1>2, <2>1 DEF LocalIInv, LocalTypeOK, WireIsServed
  <2>3. wire = <<>>
    BY <1>5 DEF LocalIInv, WireIsServed
  <2>4. DOMAIN wire' = {}
    BY <2>1, <2>3
  <2>5. Linked' /\ FirstLinked' /\ LastIsNow'
    BY <1>2, <1>5, <2>4 DEF Linked, FirstLinked, LastIsNow
  <2> QED
    BY <1>3, <2>2, <2>5 DEF LocalIInv
<1> QED
  BY <1>4, <1>5

LEMMA ForgetPreserves == LocalIInv /\ Forget => LocalIInv'
<1> SUFFICES ASSUME LocalIInv, Forget PROVE LocalIInv'
  OBVIOUS
<1>1. /\ book' = NoBook
      /\ UNCHANGED <<exchange, serving, connected, wire, mirror, mirrorAge, spoilt, bad>>
  BY DEF Forget
<1>2. ~Tracked' /\ ~Handed'
  BY <1>1 DEF Tracked, Handed, Live
<1>3. LocalTypeOK' /\ WireIsServed' /\ CopyTrue' /\ CopyRecent'
  BY <1>1, <1>2 DEF LocalIInv, LocalTypeOK, WireIsServed, CopyTrue, CopyRecent
<1>4. Linked'
  BY <1>1 DEF LocalIInv, Linked, Content, Follows
<1>5. FirstLinked' /\ LastIsNow'
  BY <1>1, <1>2 DEF LocalIInv, FirstLinked, LastIsNow, Content
<1> QED
  BY <1>3, <1>4, <1>5 DEF LocalIInv

LEMMA OpenPreserves == LocalIInv /\ ConnectionOpens => LocalIInv'
<1> SUFFICES ASSUME LocalIInv, ConnectionOpens PROVE LocalIInv'
  OBVIOUS
<1>1. /\ connected' = TRUE
      /\ UNCHANGED <<exchange, serving, wire, book, mirror, mirrorAge, spoilt, bad>>
  BY DEF ConnectionOpens
<1>2. LocalTypeOK' /\ WireIsServed' /\ CopyTrue' /\ CopyRecent'
  BY <1>1 DEF LocalIInv, LocalTypeOK, WireIsServed, CopyTrue, CopyRecent, Tracked, Handed, Live
<1>3. Linked'
  BY <1>1 DEF LocalIInv, Linked, Content, Follows
<1>4. FirstLinked' /\ LastIsNow'
  BY <1>1 DEF LocalIInv, FirstLinked, LastIsNow, Content, Follows, Tracked, Live
<1> QED
  BY <1>2, <1>3, <1>4 DEF LocalIInv

LEMMA BreakPreserves == LocalIInv /\ ConnectionBreaks => LocalIInv'
<1> SUFFICES ASSUME LocalIInv, ConnectionBreaks PROVE LocalIInv'
  OBVIOUS
<1>1. /\ connected' = FALSE /\ serving' = FALSE /\ wire' = <<>>
      /\ UNCHANGED <<exchange, book, mirror, mirrorAge, spoilt, bad>>
  BY DEF ConnectionBreaks
<1>2. /\ wire' \in Seq(Message) /\ Len(wire') = 0 /\ DOMAIN wire' = {}
  BY <1>1
<1>3. LocalTypeOK' /\ WireIsServed'
  <2>1. Len(wire') <= MaxWire
    BY <1>2, BookBounds
  <2> QED
    BY <1>1, <1>2, <2>1 DEF LocalIInv, LocalTypeOK, WireIsServed
<1>4. CopyTrue' /\ CopyRecent'
  BY <1>1 DEF LocalIInv, CopyTrue, CopyRecent, Tracked, Handed, Live
<1>5. Linked' /\ FirstLinked' /\ LastIsNow'
  BY <1>1, <1>2 DEF Linked, FirstLinked, LastIsNow
<1> QED
  BY <1>3, <1>4, <1>5 DEF LocalIInv

LEMMA TickPreserves == LocalIInv /\ Tick => LocalIInv'
<1> SUFFICES ASSUME LocalIInv, Tick PROVE LocalIInv'
  OBVIOUS
<1>1. /\ \A i \in DOMAIN wire : wire[i].age < Latency
      /\ wire' = [i \in DOMAIN wire |-> [wire[i] EXCEPT !.age = @ + 1]]
      /\ book' = IF book = NoBook THEN NoBook ELSE [book EXCEPT !.age = Smaller(@ + 1, TooOld)]
      /\ mirrorAge' = Smaller(mirrorAge + 1, Forgotten)
      /\ UNCHANGED <<exchange, serving, connected, mirror, spoilt, bad>>
  BY DEF Tick
<1>2. wire \in Seq(Message) /\ DOMAIN wire = 1 .. Len(wire) /\ Len(wire) \in Nat
  BY DEF LocalIInv, LocalTypeOK
<1>3. ASSUME NEW i \in DOMAIN wire
      PROVE  /\ wire'[i] \in Message /\ wire'[i].kind = wire[i].kind
             /\ wire'[i].truth = wire[i].truth /\ wire'[i].changed = wire[i].changed
  <2>1. wire[i] \in Message /\ wire[i].age < Latency /\ wire'[i] = [wire[i] EXCEPT !.age = @ + 1]
    BY <1>1, <1>2
  <2>2. wire[i].age + 1 \in 0 .. Latency
    BY <2>1, BookBounds, MessageIs
  <2> QED
    BY <2>1, <2>2 DEF Message
<1>4. DOMAIN wire' = DOMAIN wire /\ wire' \in Seq(Message) /\ Len(wire') = Len(wire)
  <2>1. DOMAIN wire' = 1 .. Len(wire)
    BY <1>1, <1>2
  <2>2. wire' = [i \in 1 .. Len(wire) |-> wire'[i]]
    BY <1>1, <1>2
  <2>3. wire' \in [1 .. Len(wire) -> Message]
    BY <1>2, <1>3, <2>2
  <2> QED
    BY <1>2, <2>1, <2>3
<1>5. /\ book' \in Copy /\ (Live(book') => Live(book) /\ book'.levels = book.levels)
      /\ Live(book') => book'.age = Smaller(book.age + 1, TooOld)
  <2>1. CASE book = NoBook
    BY <1>1, <2>1 DEF Copy, Live
  <2>2. CASE book # NoBook
    <3>1. book \in Book /\ book.age \in 0 .. TooOld
      BY <2>2 DEF LocalIInv, LocalTypeOK, Book
    <3>2. Smaller(book.age + 1, TooOld) \in 0 .. TooOld
      BY <3>1, BookBounds DEF Smaller
    <3> QED
      BY <1>1, <2>2, <3>1, <3>2 DEF Copy, Live, Book
  <2> QED
    BY <2>1, <2>2
<1>6. Tracked' => Tracked
  BY <1>1, <1>5 DEF Tracked, Live
<1>7. LocalTypeOK'
  <2>1. mirrorAge' \in 0 .. Forgotten
    BY <1>1, BookBounds DEF LocalIInv, LocalTypeOK, Smaller
  <2> QED
    BY <1>1, <1>4, <1>5, <2>1 DEF LocalIInv, LocalTypeOK, Copy
<1>8. WireIsServed'
  BY <1>1, <1>2, <1>4 DEF LocalIInv, WireIsServed
<1>9. \A i \in DOMAIN wire : Content(i)' <=> Content(i)
  BY <1>3 DEF Content
<1>10. CopyTrue'
  BY <1>1, <1>5, <1>6 DEF LocalIInv, CopyTrue, Tracked, Live
<1>11. CopyRecent'
  <2> SUFFICES ASSUME Live(book'), book'.age <= Freshness
               PROVE  mirrorAge' <= book'.age + Latency
    BY DEF CopyRecent, Handed, Live
  <2>1. Live(book) /\ book.age \in 0 .. TooOld /\ mirrorAge \in 0 .. Forgotten
    BY <1>5 DEF LocalIInv, LocalTypeOK, Live, Book
  <2>2. book'.age = Smaller(book.age + 1, TooOld)
    BY <1>5
  <2>3. book'.age = book.age + 1 /\ book.age <= Freshness
    BY <2>1, <2>2, BookBounds DEF Smaller
  <2>4. mirrorAge <= book.age + Latency
    BY <2>1, <2>3 DEF LocalIInv, CopyRecent, Handed
  <2> QED
    BY <1>1, <2>1, <2>3, <2>4, BookBounds DEF Smaller
<1>12. Linked'
  <2> SUFFICES ASSUME NEW i \in DOMAIN wire', NEW j \in DOMAIN wire',
                      i < j, Content(i)', wire'[j].kind = "change",
                      \A k \in i + 1 .. j - 1 : ~Content(k)'
               PROVE  Follows(wire'[j], wire'[i].truth)
    BY DEF Linked, Follows
  <2>1. \A k \in i + 1 .. j - 1 : k \in DOMAIN wire
    BY <1>2, <1>4
  <2>2. \A k \in i + 1 .. j - 1 : ~Content(k)
    BY <1>9, <2>1
  <2>3. Content(i) /\ wire[j].kind = "change"
    BY <1>3, <1>4, <1>9
  <2>4. Follows(wire[j], wire[i].truth)
    BY <1>4, <2>2, <2>3 DEF LocalIInv, Linked
  <2> QED
    BY <1>3, <1>4, <2>4 DEF Follows
<1>13. FirstLinked'
  <2> SUFFICES ASSUME NEW j \in DOMAIN wire', Tracked', wire'[j].kind = "change",
                      \A k \in 1 .. j - 1 : ~Content(k)'
               PROVE  Follows(wire'[j], mirror')
    BY DEF FirstLinked, Follows
  <2>1. \A k \in 1 .. j - 1 : k \in DOMAIN wire
    BY <1>2, <1>4
  <2>2. \A k \in 1 .. j - 1 : ~Content(k)
    BY <1>9, <2>1
  <2>3. Follows(wire[j], mirror)
    BY <1>3, <1>4, <1>6, <2>2 DEF LocalIInv, FirstLinked
  <2> QED
    BY <1>1, <1>3, <1>4, <2>3 DEF Follows
<1>14. LastIsNow'
  <2> SUFFICES ASSUME serving
               PROVE  /\ \A i \in DOMAIN wire' :
                           Content(i)' /\ (\A k \in i + 1 .. Len(wire') : ~Content(k)')
                             => wire'[i].truth = exchange
                      /\ Tracked' /\ (\A k \in DOMAIN wire' : ~Content(k)') => mirror = exchange
    BY <1>1 DEF LastIsNow
  <2>1. ASSUME NEW i \in DOMAIN wire', Content(i)', \A k \in i + 1 .. Len(wire') : ~Content(k)'
        PROVE  wire'[i].truth = exchange
    <3>1. \A k \in i + 1 .. Len(wire) : k \in DOMAIN wire /\ k \in i + 1 .. Len(wire')
      BY <1>2, <1>4
    <3>2. \A k \in i + 1 .. Len(wire) : ~Content(k)
      BY <1>9, <2>1, <3>1
    <3> QED
      BY <1>3, <1>4, <1>9, <2>1, <3>2 DEF LocalIInv, LastIsNow
  <2>2. ASSUME Tracked', \A k \in DOMAIN wire' : ~Content(k)' PROVE mirror = exchange
    BY <1>4, <1>6, <1>9, <2>2 DEF LocalIInv, LastIsNow
  <2> QED
    BY <2>1, <2>2
<1> QED
  BY <1>7, <1>8, <1>10, <1>11, <1>12, <1>13, <1>14 DEF LocalIInv

LEMMA LocalConsecution == LocalIInv /\ [LocalNext]_localVars => LocalIInv'
<1> SUFFICES ASSUME LocalIInv, [LocalNext]_localVars PROVE LocalIInv'
  OBVIOUS
<1>1. CASE \E n \in 1 .. Len(wire) : Handle(n)
  BY <1>1, HandlePreserves
<1>2. CASE ServerSnapshot
  BY <1>2, SnapshotPreserves
<1>3. CASE Forget
  BY <1>3, ForgetPreserves
<1>4. CASE ConnectionOpens
  BY <1>4, OpenPreserves
<1>5. CASE ConnectionBreaks
  BY <1>5, BreakPreserves
<1>6. CASE ServerMoves
  BY <1>6, MovePreserves
<1>7. CASE ServerExecutes
  BY <1>7, ExecutionPreserves
<1>8. CASE Tick
  BY <1>8, TickPreserves
<1>9. CASE UNCHANGED localVars
  <2>1. UNCHANGED <<exchange, serving, connected, wire, book, mirror, mirrorAge, spoilt, bad>>
    BY <1>9 DEF localVars
  <2>2. LocalTypeOK' /\ WireIsServed' /\ CopyTrue' /\ CopyRecent'
    BY <2>1 DEF LocalIInv, LocalTypeOK, WireIsServed, CopyTrue, CopyRecent, Tracked, Handed, Live
  <2>3. Linked'
    BY <2>1 DEF LocalIInv, Linked, Content, Follows
  <2>4. FirstLinked' /\ LastIsNow'
    BY <2>1 DEF LocalIInv, FirstLinked, LastIsNow, Content, Follows, Tracked, Live
  <2> QED
    BY <2>2, <2>3, <2>4 DEF LocalIInv
<1> QED
  BY <1>1, <1>2, <1>3, <1>4, <1>5, <1>6, <1>7, <1>8, <1>9 DEF LocalNext

LEMMA LocalInvariance == LocalSpec => []LocalIInv
<1>1. LocalInit => LocalIInv
  BY LocalInitiation
<1>2. LocalIInv /\ [LocalNext]_localVars => LocalIInv'
  BY LocalConsecution
<1> QED
  BY <1>1, <1>2, PTL DEF LocalSpec

\* The local books keep to their types: no size, stamp or history leaves its range,
\* whatever arrives and whatever part of it can be read.
THEOREM LocalTypeCorrect == LocalSpec => []LocalTypeOK
<1>1. LocalIInv => LocalTypeOK
  BY DEF LocalIInv
<1> QED
  BY <1>1, LocalInvariance, PTL

\* get_book hands out, level by level, what the server's book was at one moment, unless
\* a message since the snapshot could not be read in full.
THEOREM HandedWasTrueHolds == LocalSpec => []HandedWasTrue
<1>1. LocalIInv => HandedWasTrue
  BY DEF LocalIInv, CopyTrue, Tracked, HandedWasTrue, Handed
<1> QED
  BY <1>1, LocalInvariance, PTL

\* And that moment is no longer ago than the freshness and the time on the way.
THEOREM HandedIsRecentHolds == LocalSpec => []HandedIsRecent
<1>1. LocalIInv => HandedIsRecent
  <2> SUFFICES ASSUME LocalIInv, Handed PROVE mirrorAge <= Freshness + Latency
    BY DEF HandedIsRecent
  <2>1. mirrorAge <= book.age + Latency /\ book.age <= Freshness
    BY DEF LocalIInv, CopyRecent, Handed
  <2>2. book.age \in 0 .. TooOld /\ mirrorAge \in 0 .. Forgotten
    BY DEF LocalIInv, LocalTypeOK, Handed, Live, Book
  <2> QED
    BY <2>1, <2>2, BookBounds
<1> QED
  BY <1>1, LocalInvariance, PTL
===============================================================================
