------------------------ MODULE PayloadManagerProofs ------------------------
(***************************************************************************)
(* What is sent to the exchange while simulating or not live, what callers *)
(* are told, that no fill is out of reach of a caller whom the answer gave *)
(* its payload's name, and why a client can be without credentials: for    *)
(* every set of callers, every quantity and every bound on the payloads.   *)
(***************************************************************************)
EXTENDS PayloadManager, TLAPS

Clients == {"loop", "thread"}

\* What a caller was told of a payload of which so much is filled.
ToldOK(told, filled, unnamed) ==
  /\ told.filled <= filled \/ told.assumed
  /\ told.id \/ unnamed

\* Of one payload: it is open while some of it is to be filled, its caller was told
\* no more than is so unless the amount was assumed, and can poll it unless no answer
\* named it.
OrderOK(o) ==
  /\ o.open => o.filled < Quantity
  /\ o.told # None => ToldOK(o.told, o.filled, o.unnamed)
  /\ o.polled # None =>
       /\ o.polled.filled <= o.filled
       /\ ~o.polled.open => ~o.open /\ (o.polled.filled = o.filled \/ o.polled.silent)

OrdersOK == \A i \in DOMAIN orders : OrderOK(orders[i])

\* An answer on its way was true when the exchange gave it.
AnswerOK(c) ==
  /\ call[c].order \in DOMAIN orders
  /\ call[c].answer \in Posted
  /\ call[c].answer.filled <= orders[call[c].order].filled

AnswersOK == \A c \in Calls : call[c] # None /\ call[c].at = "posted" => AnswerOK(c)

\* A process that simulates never makes a client, so no submission of it gets beyond
\* the book; one that is not live begins none but the pool's, and no fallback of those.
Pooled == {"TEMPLATE", "SIGN"}
Harmless ==
  /\ simulation => client = None /\ prewarm = "before"
  /\ simulation => \A c \in Calls : call[c] # None => call[c].at = "book"
  /\ ~live => \A c \in Calls : call[c] # None => call[c].kind \in Pooled
  /\ SimulationSendsNothing

\* Who is about to get credentials finds a client to give them to.
KeysOK ==
  /\ prewarm = "keying" => client # None
  /\ \A c \in Calls : call[c] # None /\ call[c].at = "keying" => client # None
  /\ KeylessForCause

IInv == TypeOK /\ OrdersOK /\ AnswersOK /\ Harmless /\ KeysOK

-----------------------------------------------------------------------------
(* The parts of a step *)

\* The client has the credentials, or both ways to get them have failed.
LEMMA KeyKeeps ==
  ASSUME TypeOK, client # None, UNCHANGED client, NEW key \in Keys, Key(key)
  PROVE  /\ keyed' \subseteq Clients /\ keyless' \in BOOLEAN
         /\ client \in keyed' \/ keyless'
BY DEF TypeOK, Key, Clients

\* When the orders stay, or one more is accepted, or more of one is filled, the
\* answers on their way stay true.
LEMMA AnswersGrow ==
  ASSUME AnswersOK, NEW c \in Calls, call'[c] = call[c],
         call[c] # None /\ call[c].at = "posted",
         DOMAIN orders \subseteq DOMAIN orders',
         \A i \in DOMAIN orders : /\ orders[i].filled \in Nat /\ orders'[i].filled \in Nat
                                  /\ orders[i].filled <= orders'[i].filled
  PROVE  AnswerOK(c)'
<1>1. AnswerOK(c)
  BY DEF AnswersOK
<1>2. call[c].answer.filled \in Nat
  BY <1>1 DEF AnswerOK, Posted
<1> QED
  BY <1>1, <1>2 DEF AnswerOK

\* A payload that the exchange accepts is in order, and its status is one of four.
LEMMA FatesInOrder ==
  ASSUME NEW kind, NEW fate \in Fates(kind)
  PROVE  /\ fate \in Order /\ OrderOK(fate) /\ fate.pooled = (kind = "TEMPLATE")
         /\ [status |-> StatusOfPost(fate), filled |-> fate.filled] \in Posted
<1> DEFINE pooled == kind = "TEMPLATE"
<1>1. /\ fate \in [filled: 0 .. Quantity, open: BOOLEAN, delayed: BOOLEAN,
                   pooled: {pooled}, unnamed: {FALSE}, told: {None}, polled: {None}]
      /\ fate.open => fate.filled < Quantity
  BY Zenon DEF Fates
<1>2. pooled \in BOOLEAN
  OBVIOUS
<1> HIDE DEF pooled
<1>3. fate \in Order /\ OrderOK(fate) /\ fate.pooled = pooled
  BY <1>1, <1>2 DEF Order, OrderOK
<1>4. StatusOfPost(fate) \in {"matched", "delayed", "live", "unmatched"}
  BY DEF StatusOfPost
<1>5. fate.filled \in 0 .. Quantity
  BY <1>1
<1>6. [status |-> StatusOfPost(fate), filled |-> fate.filled] \in Posted
  BY <1>4, <1>5 DEF Posted
<1> QED
  BY <1>3, <1>6 DEF pooled

\* A submission stays where it is or, having been to the exchange, goes on to the next.
Onward(c) ==
  \/ call'[c] = call[c]
  \/ /\ call[c] # None /\ call[c].at = "posted"
     /\ call'[c] # None => /\ call'[c].at = "signing"
                           /\ ~live => call'[c].kind \in Pooled

\* One payload changes, and is in order afterwards.
LEMMA OneOrder ==
  ASSUME IInv, NEW i \in DOMAIN orders, NEW o \in Order, OrderOK(o),
         orders' = [orders EXCEPT ![i] = o], orders[i].filled <= o.filled,
         o.pooled = orders[i].pooled,
         UNCHANGED <<live, simulation, client, keyed, prewarm, keyless>>,
         \A c \in Calls : Onward(c),
         call' \in [Calls -> {None} \cup Call]
  PROVE  IInv'
<1>1. orders \in Seq(Order) /\ Len(orders) <= MaxOrders
  BY DEF IInv, TypeOK
<1>2. /\ orders' \in Seq(Order) /\ Len(orders') <= MaxOrders
      /\ DOMAIN orders' = DOMAIN orders /\ orders # <<>>
      /\ orders'[i] = o /\ \A j \in DOMAIN orders : j # i => orders'[j] = orders[j]
  BY <1>1
<1>3. \A j \in DOMAIN orders : /\ orders[j].filled \in Nat /\ orders'[j].filled \in Nat
                               /\ orders[j].filled <= orders'[j].filled
  <2>1. \A j \in DOMAIN orders : orders[j] \in Order
    BY <1>1
  <2> QED
    BY <1>2, <2>1 DEF Order
<1>4. TypeOK'
  BY <1>2 DEF IInv, TypeOK, Call, Posted, Clients
<1>5. OrdersOK'
  BY <1>2 DEF IInv, OrdersOK, OrderOK
<1>6. AnswersOK'
  <2> SUFFICES ASSUME NEW c \in Calls, call'[c] # None /\ call'[c].at = "posted"
               PROVE  AnswerOK(c)'
    BY DEF AnswersOK
  <2>1. call'[c] = call[c]
    BY DEF Onward
  <2> QED
    BY <1>2, <1>3, <2>1, AnswersGrow DEF IInv
<1>7. Harmless'
  <2>1. ~live => \A j \in DOMAIN orders : orders'[j].pooled
    BY <1>2 DEF IInv, Harmless, SimulationSendsNothing
  <2>2. ~simulation
    BY <1>2 DEF IInv, Harmless, SimulationSendsNothing
  <2>3. ~live => \A c \in Calls : call'[c] # None => call'[c].kind \in Pooled
    <3> SUFFICES ASSUME ~live, NEW c \in Calls, call'[c] # None
                 PROVE  call'[c].kind \in Pooled
      OBVIOUS
    <3> QED
      BY DEF IInv, Harmless, Onward
  <2> QED
    BY <1>2, <2>1, <2>2, <2>3 DEF Harmless, SimulationSendsNothing
<1>8. KeysOK'
  <2>1. \A c \in Calls : call'[c] # None /\ call'[c].at = "keying" => call'[c] = call[c]
    BY DEF Onward
  <2>2. \A c \in Calls : call[c] # None /\ call[c].at = "keying" => call'[c] = call[c]
    BY DEF Onward
  <2> QED
    BY <2>1, <2>2 DEF IInv, KeysOK, KeylessForCause
<1> QED
  BY <1>4, <1>5, <1>6, <1>7, <1>8 DEF IInv

\* A submission goes on, with whatever the client is then.
LEMMA CallGoesOn ==
  ASSUME IInv, NEW c \in Calls, NEW w \in {None} \cup Call,
         call' = [call EXCEPT ![c] = w], w # None => w.at # "posted",
         UNCHANGED <<live, simulation, prewarm, orders>>,
         client' \in {None} \cup Clients, keyed' \subseteq Clients, keyless' \in BOOLEAN,
         KeysOK', simulation => client' = None,
         simulation => (w # None => w.at = "book"),
         ~live => (w # None => w.kind \in Pooled)
  PROVE  IInv'
<1>0. call \in [Calls -> {None} \cup Call]
  BY DEF IInv, TypeOK, Call, Posted, Clients
<1>1. /\ call'[c] = w /\ \A d \in Calls : d # c => call'[d] = call[d]
      /\ call' \in [Calls -> {None} \cup Call]
  BY <1>0
<1>2. TypeOK'
  BY <1>1 DEF IInv, TypeOK, Call, Posted, Clients
<1>3. OrdersOK'
  BY DEF IInv, OrdersOK, OrderOK, ToldOK
<1>4. AnswersOK'
  BY <1>1 DEF IInv, AnswersOK, AnswerOK
<1>5. Harmless'
  BY <1>1 DEF IInv, Harmless, SimulationSendsNothing
<1> QED
  BY <1>2, <1>3, <1>4, <1>5 DEF IInv

\* A submission goes on, and the client is left alone.
LEMMA CallMoves ==
  ASSUME IInv, NEW c \in Calls, NEW w \in {None} \cup Call,
         call' = [call EXCEPT ![c] = w], w # None => w.at \in {"book", "making", "signing"},
         call[c] # None => call[c].at # "keying",
         UNCHANGED <<live, simulation, client, keyed, prewarm, orders, keyless>>,
         simulation => (w # None => w.at = "book"),
         ~live => (w # None => w.kind \in Pooled)
  PROVE  IInv'
<1>0. call \in [Calls -> {None} \cup Call]
  BY DEF IInv, TypeOK, Call, Posted, Clients
<1>1. call'[c] = w /\ \A d \in Calls : d # c => call'[d] = call[d]
  BY <1>0
<1>2. KeysOK'
  BY <1>1 DEF IInv, KeysOK, KeylessForCause
<1>3. /\ client' \in {None} \cup Clients /\ keyed' \subseteq Clients /\ keyless' \in BOOLEAN
      /\ simulation => client' = None
  BY DEF IInv, TypeOK, Harmless, Clients
<1> QED
  BY <1>2, <1>3, CallGoesOn

\* A submission that has the client, or has to make it, goes on.
LEMMA EnsureKeeps ==
  ASSUME IInv, NEW c \in Calls, NEW kind \in Kinds, EnsureClient(c, kind),
         call[c] # None => call[c].at # "keying",
         UNCHANGED <<live, simulation, client, keyed, prewarm, orders, keyless>>,
         ~live => kind \in Pooled
  PROVE  IInv'
<1> DEFINE w == IF client # None THEN Waits(kind, "signing", client)
                ELSE IF simulation THEN None ELSE Waits(kind, "making", None)
<1>1. call' = [call EXCEPT ![c] = w]
  BY DEF EnsureClient
<1>2. w \in {None} \cup Call
  BY ManagerAssumption DEF Waits, Call, IInv, TypeOK, Clients
<1>3. w # None => w.at \in {"book", "making", "signing"} /\ w.kind = kind
  BY DEF Waits
<1>4. simulation => w = None
  BY DEF IInv, Harmless
<1> HIDE DEF w
<1> QED
  BY <1>1, <1>2, <1>3, <1>4, CallMoves

\* What is made of an answer is so, or assumed, and has the id unless the answer did not
\* name the payload.
LEMMA ToldIs ==
  ASSUME NEW kind \in Kinds, NEW a \in Posted, NEW filled \in Nat, a.filled <= filled,
         NEW r \in Replies(a.status, a.filled)
  PROVE  LET told == IF kind = "REST" THEN ParseResting(r) ELSE ParseResponse(r)
         IN  told \in Told /\ ToldOK(told, filled, Unnamed(kind, r))
<1>1. /\ {r.dict, r.id, r.success, r.err} \subseteq BOOLEAN
      /\ r.status \in {a.status, "", "error"} /\ r.amount \in {a.filled, None}
      /\ a.status \in {"matched", "delayed", "live", "unmatched"}
      /\ a.filled \in 0 .. Quantity /\ Quantity \in Nat
  BY ManagerAssumption DEF Replies, Posted
<1>4. /\ Quantity \in Nat /\ Quantity \in 0 .. Quantity /\ 0 \in 0 .. Quantity
      /\ a.filled \in 0 .. Quantity /\ 0 <= filled
  <2>1. Quantity \in Nat /\ a.filled \in 0 .. Quantity
    BY ManagerAssumption DEF Posted
  <2> QED
    BY <2>1
<1>2. CASE kind = "REST"
  <2>1. ParseResting(r) =
          [filled |-> 0, assumed |-> FALSE,
           id |-> r.dict /\ r.id /\ r.success /\ ~r.err /\ r.status \notin Reject]
    BY DEF ParseResting
  <2> DEFINE id == r.dict /\ r.id /\ r.success /\ ~r.err /\ r.status \notin Reject
  <2>2. id \/ Unnamed(kind, r)
    BY <1>1, <1>2 DEF Unnamed, Reject
  <2>3. id \in BOOLEAN
    OBVIOUS
  <2> HIDE DEF id
  <2>4. ParseResting(r) = [filled |-> 0, assumed |-> FALSE, id |-> id]
    BY <2>1 DEF id
  <2>5. ParseResting(r) \in Told /\ ParseResting(r).filled <= filled
    BY <1>4, <2>3, <2>4 DEF Told
  <2>6. ParseResting(r).id = id
    BY <2>4
  <2> QED
    BY <1>2, <2>2, <2>5, <2>6 DEF ToldOK
<1>3. CASE kind # "REST"
  <2>1. CASE ~r.dict
    <3>1. ParseResponse(r) = NotTold /\ Unnamed(kind, r)
      BY <2>1 DEF ParseResponse, Unnamed
    <3>2. NotTold \in Told /\ NotTold.filled <= filled
      BY <1>4 DEF NotTold, Told
    <3> QED
      BY <1>3, <3>1, <3>2 DEF ToldOK
  <2>2. CASE r.dict
    <3> DEFINE counts == Counts(r)
               silent == r.amount = None
               amount == IF ~counts THEN 0 ELSE IF silent THEN Quantity ELSE r.amount
               assumed == counts /\ silent
    <3>1. assumed \in BOOLEAN /\ r.id \in BOOLEAN
      BY <1>1
    <3>2. ParseResponse(r) = [filled |-> amount, id |-> r.id, assumed |-> assumed]
      BY <2>2 DEF ParseResponse
    <3>6. ~silent => r.amount = a.filled
      BY <1>1
    <3> HIDE DEF silent, counts
    <3>7. amount \in 0 .. Quantity /\ (amount <= filled \/ assumed)
      <4>1. amount \in {0, Quantity, a.filled}
        BY <3>6
      <4>2. amount = 0 \/ amount = a.filled \/ assumed
        BY <3>6
      <4>3. amount \in 0 .. Quantity
        BY <1>4, <4>1
      <4> HIDE DEF amount, assumed
      <4> QED
        BY <1>4, <4>2, <4>3
    <3> HIDE DEF assumed, amount
    <3>3. ParseResponse(r) \in Told
      BY <3>1, <3>2, <3>7 DEF Told
    <3>4. ParseResponse(r).filled <= filled \/ ParseResponse(r).assumed
      BY <3>2, <3>7
    <3>5. ParseResponse(r).id \/ Unnamed(kind, r)
      <4>1. ParseResponse(r).id = r.id
        BY <3>2
      <4>2. r.id \/ Unnamed(kind, r)
        BY Zenon DEF Unnamed
      <4> QED
        BY <4>1, <4>2
    <3> QED
      BY <1>3, <3>3, <3>4, <3>5 DEF ToldOK
  <2> QED
    BY <1>1, <2>1, <2>2
<1> QED
  BY <1>2, <1>3

-----------------------------------------------------------------------------
(* The invariant *)

\* Every initial state satisfies IInv.
LEMMA InitIInv == Init => IInv
<1> SUFFICES ASSUME Init PROVE IInv
  OBVIOUS
<1>1. TypeOK
  <2>1. call \in [Calls -> {None}] /\ orders \in Seq(Order) /\ Len(orders) <= MaxOrders
    BY ManagerAssumption DEF Init
  <2> QED
    BY <2>1 DEF Init, TypeOK
<1>2. OrdersOK /\ AnswersOK
  BY DEF Init, OrdersOK, AnswersOK
<1>3. Harmless /\ KeysOK
  BY DEF Init, Harmless, SimulationSendsNothing, KeysOK, KeylessForCause
<1> QED
  BY <1>1, <1>2, <1>3 DEF IInv

\* IInv is inductive.
LEMMA NextIInv == IInv /\ [Next]_vars => IInv'
<1> SUFFICES ASSUME IInv, [Next]_vars PROVE IInv'
  OBVIOUS
<1>0. /\ TypeOK /\ call \in [Calls -> {None} \cup Call]
      /\ orders \in Seq(Order) /\ \A i \in DOMAIN orders : orders[i] \in Order
  <2>1. orders \in Seq(Order) /\ call \in [Calls -> {None} \cup Call]
    BY DEF IInv, TypeOK, Call, Posted, Clients
  <2> QED
    BY <2>1 DEF IInv
<1>1. CASE PrewarmBegins \/ PrewarmMakes \/ PrewarmKeys
  <2>1. UNCHANGED <<live, simulation, call, orders>> /\ ~simulation
    BY <1>1 DEF PrewarmBegins, PrewarmMakes, PrewarmKeys, IInv, Harmless
  <2>2. /\ client' \in {None} \cup Clients /\ keyed' \subseteq Clients
        /\ keyless' \in BOOLEAN /\ prewarm' \in {"before", "making", "keying", "over"}
        /\ KeysOK'
    <3>1. CASE PrewarmBegins
      BY <3>1 DEF PrewarmBegins, IInv, TypeOK, KeysOK, KeylessForCause, Clients
    <3>2. CASE PrewarmMakes
      BY <3>2, ManagerAssumption
         DEF PrewarmMakes, IInv, TypeOK, KeysOK, KeylessForCause, Clients
    <3>3. CASE PrewarmKeys
      <4>1. client # None /\ UNCHANGED <<client, call>> /\ prewarm' = "over"
        BY <3>3 DEF PrewarmKeys, IInv, KeysOK
      <4>2. /\ keyed' \subseteq Clients /\ keyless' \in BOOLEAN
            /\ client \in keyed' \/ keyless'
        BY <3>3, <4>1, KeyKeeps DEF PrewarmKeys, IInv
      <4> QED
        BY <4>1, <4>2 DEF IInv, TypeOK, KeysOK, KeylessForCause, Clients
    <3> QED
      BY <1>1, <3>1, <3>2, <3>3
  <2>3. TypeOK'
    BY <2>1, <2>2 DEF IInv, TypeOK, Clients
  <2>4. OrdersOK' /\ AnswersOK' /\ Harmless'
    BY <2>1 DEF IInv, OrdersOK, OrderOK, ToldOK, AnswersOK, AnswerOK, Posted, Harmless,
                SimulationSendsNothing
  <2> QED
    BY <2>2, <2>3, <2>4 DEF IInv
<1>2. ASSUME NEW c \in Calls, NEW kind \in Kinds, NEW paper \in BOOLEAN \cup {None},
             Begin(c, kind, paper)
      PROVE  IInv'
  <2>0. /\ UNCHANGED <<live, simulation, client, keyed, prewarm, orders, keyless>>
        /\ call[c] = None /\ (~live => kind \in Pooled)
    BY <1>0, <1>2 DEF Begin, Goes, IsPaper, TypeOK, Pooled
  <2>1. CASE kind = "SELL_MARKET"
    <3>1. call' = [call EXCEPT ![c] = Waits(kind, "book", None)]
      BY <1>2, <2>1 DEF Begin
    <3>2. /\ Waits(kind, "book", None) \in Call
          /\ Waits(kind, "book", None).at = "book" /\ Waits(kind, "book", None).kind = kind
      BY ManagerAssumption DEF Waits, Call, Clients
    <3> QED
      BY <2>0, <3>1, <3>2, CallMoves
  <2>2. CASE kind # "SELL_MARKET"
    BY <1>2, <2>0, <2>2, EnsureKeeps DEF Begin
  <2> QED
    BY <2>1, <2>2
<1>3. ASSUME NEW c \in Calls, BookComes(c) PROVE IInv'
  <2>0. /\ UNCHANGED <<live, simulation, client, keyed, prewarm, orders, keyless>>
        /\ call[c] # None /\ call[c].at = "book" /\ call[c].kind \in Kinds
        /\ ~live => call[c].kind \in Pooled
    BY <1>0, <1>3 DEF BookComes, IInv, Harmless, Call
  <2>1. CASE call' = [call EXCEPT ![c] = None]
    BY <2>0, <2>1, CallMoves
  <2>2. CASE EnsureClient(c, call[c].kind)
    BY <2>0, <2>2, EnsureKeeps
  <2> QED
    BY <1>3, <2>1, <2>2 DEF BookComes
<1>10. ASSUME NEW c \in Calls, MakeClient(c) PROVE IInv'
  <2>0. /\ UNCHANGED <<live, simulation, keyed, prewarm, orders, keyless>>
        /\ call[c] \in Call /\ call[c] # None /\ call[c].at = "making" /\ ~simulation
        /\ ~live => call[c].kind \in Pooled
    BY <1>0, <1>10 DEF MakeClient, IInv, Harmless
  <2>1. CASE call' = [call EXCEPT ![c] = None] /\ UNCHANGED client
    BY <2>0, <2>1, CallMoves
  <2>2. CASE client' = "loop" /\ call' = [call EXCEPT ![c].at = "keying"]
    <3> DEFINE w == [call[c] EXCEPT !.at = "keying"]
    <3>1. w \in Call /\ w.at = "keying" /\ w.kind = call[c].kind
      BY <2>0 DEF Call
    <3>2. call' = [call EXCEPT ![c] = w]
      BY <1>0, <2>2
    <3> HIDE DEF w
    <3>3. call'[c] = w
      BY <1>0, <3>2
    <3>4. KeysOK'
      <4>1. w # None
        BY <3>1, NoneAssumption
      <4>2. client' # None /\ call'[c] # None /\ call'[c].at = "keying"
        BY <2>2, <3>1, <3>3, <4>1, ManagerAssumption
      <4> QED
        BY <4>2 DEF KeysOK, KeylessForCause
    <3>5. client' \in {None} \cup Clients /\ keyed' \subseteq Clients /\ keyless' \in BOOLEAN
      BY <2>0, <2>2 DEF IInv, TypeOK, Clients
    <3> QED
      BY <2>0, <3>1, <3>2, <3>4, <3>5, CallGoesOn
  <2> QED
    BY <1>10, <2>1, <2>2 DEF MakeClient
<1>11. ASSUME NEW c \in Calls, KeyClient(c) PROVE IInv'
  <2>0. /\ UNCHANGED <<live, simulation, client, prewarm, orders>>
        /\ call[c] \in Call /\ call[c] # None /\ call[c].at = "keying" /\ ~simulation
        /\ client # None /\ client \in Clients
        /\ ~live => call[c].kind \in Pooled
    BY <1>0, <1>11 DEF KeyClient, IInv, Harmless, KeysOK, TypeOK, Clients
  <2>1. PICK key \in Keys :
          /\ Key(key)
          /\ call' = [call EXCEPT ![c] = IF key = "failed" THEN None
                                         ELSE Waits(call[c].kind, "signing", client)]
    BY <1>11 DEF KeyClient
  <2> DEFINE w == IF key = "failed" THEN None ELSE Waits(call[c].kind, "signing", client)
  <2>2. /\ w \in {None} \cup Call
        /\ w # None => w.at = "signing" /\ w.kind = call[c].kind
    BY <2>0, ManagerAssumption DEF Waits, Call, Clients
  <2>3. call' = [call EXCEPT ![c] = w]
    BY <2>1
  <2> HIDE DEF w
  <2>4. /\ keyed' \subseteq Clients /\ keyless' \in BOOLEAN
        /\ client \in keyed' \/ keyless'
    BY <2>0, <2>1, KeyKeeps DEF IInv
  <2>5. KeysOK'
    BY <2>0, <2>4 DEF IInv, KeysOK, KeylessForCause
  <2> QED
    BY <2>0, <2>2, <2>3, <2>4, <2>5, CallGoesOn
<1>12. ASSUME NEW c \in Calls, call[c] # None, ~simulation,
              ~live => call[c].kind \in Pooled,
              NEW w \in {None} \cup AfterRaise(call[c].kind)
       PROVE  /\ w \in {None} \cup Call
              /\ w # None => w.at = "signing" /\ (~live => w.kind \in Pooled)
  <2>1. client \in {None} \cup Clients
    BY <1>0 DEF TypeOK, Clients
  <2>2. /\ Waits("PRESIGNED", "signing", client) \in Call
        /\ Waits("ATOMIC_EXECUTION", "signing", client) \in Call
    BY <2>1, ManagerAssumption DEF Waits, Call, Kinds, Clients
  <2>3. w # None => live
    BY <1>12 DEF AfterRaise, IsPaper, Pooled
  <2>4. w \in {None, Waits("PRESIGNED", "signing", client),
               Waits("ATOMIC_EXECUTION", "signing", client)}
    BY <1>12 DEF AfterRaise
  <2>5. /\ Waits("PRESIGNED", "signing", client).at = "signing"
        /\ Waits("ATOMIC_EXECUTION", "signing", client).at = "signing"
    BY DEF Waits
  <2> QED
    BY <2>2, <2>3, <2>4, <2>5
<1>4. ASSUME NEW c \in Calls, Raise(c) PROVE IInv'
  <2>0. /\ UNCHANGED <<live, simulation, client, keyed, prewarm, orders, keyless>>
        /\ call[c] # None /\ call[c].at = "signing" /\ ~simulation
        /\ ~live => call[c].kind \in Pooled
    BY <1>4 DEF Raise, IInv, Harmless
  <2>1. PICK w \in {None} \cup AfterRaise(call[c].kind) : call' = [call EXCEPT ![c] = w]
    BY <1>4 DEF Raise
  <2>2. /\ w \in {None} \cup Call
        /\ w # None => w.at = "signing" /\ (~live => w.kind \in Pooled)
    BY <1>12, <2>0
  <2> QED
    BY <2>0, <2>1, <2>2, CallMoves
<1>5. ASSUME NEW c \in Calls, Post(c) PROVE IInv'
  <2>0. /\ UNCHANGED <<live, simulation, client, keyed, prewarm, keyless>>
        /\ call[c] \in Call /\ ~simulation /\ Len(orders) < MaxOrders
        /\ call[c].at = "signing" /\ (~live => call[c].kind = "TEMPLATE")
    BY <1>0, <1>5 DEF Post, IInv, Harmless, Pooled
  <2>1. PICK fate \in Fates(call[c].kind) :
          /\ orders' = Append(orders, fate)
          /\ call' = [call EXCEPT ![c].at = "posted", ![c].order = Len(orders) + 1,
                ![c].answer = [status |-> StatusOfPost(fate), filled |-> fate.filled]]
    BY <1>5 DEF Post
  <2> DEFINE answer == [status |-> StatusOfPost(fate), filled |-> fate.filled]
  <2>2. /\ fate \in Order /\ OrderOK(fate) /\ answer \in Posted
        /\ ~live => fate.pooled
    BY <2>0, <2>1, FatesInOrder
  <2>3. /\ orders' \in Seq(Order) /\ Len(orders') = Len(orders) + 1
        /\ DOMAIN orders' = DOMAIN orders \cup {Len(orders) + 1}
        /\ orders'[Len(orders) + 1] = fate
        /\ \A j \in DOMAIN orders : orders'[j] = orders[j]
    BY <1>0, <2>1, <2>2
  <2>4. /\ call' \in [Calls -> {None} \cup Call]
        /\ call'[c].order = Len(orders) + 1 /\ call'[c].answer = answer
        /\ call'[c].at = "posted" /\ call'[c].kind = call[c].kind
        /\ \A d \in Calls : d # c => call'[d] = call[d]
    <3>1. Len(orders) + 1 \in 0 .. MaxOrders
      BY <1>0, <2>0, ManagerAssumption
    <3> HIDE DEF answer
    <3>2. call' = [call EXCEPT ![c] =
                     [call[c] EXCEPT !.at = "posted", !.order = Len(orders) + 1,
                                     !.answer = answer]]
      BY <1>0, <2>0, <2>1 DEF answer
    <3>3. [call[c] EXCEPT !.at = "posted", !.order = Len(orders) + 1,
                          !.answer = answer] \in Call
      BY <2>0, <2>2, <3>1 DEF Call
    <3> QED
      BY <1>0, <2>0, <3>2, <3>3 DEF Call
  <2> HIDE DEF answer
  <2>5. TypeOK'
    BY <2>0, <2>3, <2>4, ManagerAssumption DEF IInv, TypeOK, Call, Posted, Clients
  <2>6. OrdersOK'
    BY <2>2, <2>3 DEF IInv, OrdersOK, OrderOK, ToldOK
  <2>7. AnswersOK'
    <3> SUFFICES ASSUME NEW d \in Calls, call'[d] # None /\ call'[d].at = "posted"
                 PROVE  AnswerOK(d)'
      BY DEF AnswersOK
    <3>1. CASE d = c
      <4>1. answer.filled = fate.filled /\ fate.filled \in Nat
        BY <2>2 DEF answer, Order
      <4> QED
        BY <2>2, <2>3, <2>4, <3>1, <4>1 DEF AnswerOK
    <3>2. CASE d # c
      <4>1. \A j \in DOMAIN orders : orders[j].filled \in Nat
        BY <1>0 DEF Order
      <4> QED
        BY <2>3, <2>4, <3>2, <4>1, AnswersGrow DEF IInv
    <3> QED
      BY <3>1, <3>2
  <2>8. Harmless'
    BY <2>0, <2>2, <2>3, <2>4 DEF IInv, Harmless, SimulationSendsNothing, Pooled
  <2>9. KeysOK'
    BY <2>0, <2>4 DEF IInv, KeysOK, KeylessForCause
  <2> QED
    BY <2>5, <2>6, <2>7, <2>8, <2>9 DEF IInv
<1>6. ASSUME NEW c \in Calls, Answer(c) PROVE IInv'
  <2> DEFINE i == call[c].order
             a == call[c].answer
             kind == call[c].kind
  <2>1. /\ UNCHANGED <<live, simulation, client, keyed, prewarm, keyless>>
        /\ call[c] # None /\ call[c].at = "posted" /\ i \in DOMAIN orders /\ a \in Posted
        /\ a.filled <= orders[i].filled /\ OrderOK(orders[i]) /\ orders[i] \in Order
        /\ ~simulation /\ (~live => kind \in Pooled)
    BY <1>0, <1>6 DEF Answer, IInv, AnswersOK, AnswerOK, OrdersOK, Harmless
  <2>2. /\ call' \in [Calls -> {None} \cup Call] /\ \A d \in Calls : Onward(d)
    <3>1. PICK w \in {None} \cup AfterRaise(kind) : call' = [call EXCEPT ![c] = w]
      BY <1>6 DEF Answer
    <3>2. /\ w \in {None} \cup Call
          /\ w # None => w.at = "signing" /\ (~live => w.kind \in Pooled)
      BY <1>12, <2>1
    <3> HIDE DEF i, a, kind
    <3> QED
      BY <1>0, <2>1, <3>1, <3>2 DEF Onward
  <2>3. PICK told \in Told, unnamed \in BOOLEAN :
          /\ orders' = [orders EXCEPT ![i] = [@ EXCEPT !.told = told, !.unnamed = unnamed]]
          /\ ToldOK(told, orders[i].filled, unnamed)
    <3>0. orders[i].filled \in Nat /\ a.filled \in 0 .. Quantity /\ Quantity \in Nat
      BY <2>1, ManagerAssumption DEF Order, Posted
    <3>1. CASE orders' = [orders EXCEPT ![i].unnamed = TRUE, ![i].told = NotTold]
      <4>1. NotTold \in Told /\ ToldOK(NotTold, orders[i].filled, TRUE)
        BY <3>0 DEF Told, NotTold, ToldOK
      <4>2. orders' = [orders EXCEPT ![i] = [@ EXCEPT !.told = NotTold, !.unnamed = TRUE]]
        BY <1>0, <2>1, <3>1 DEF Order
      <4> QED
        BY <4>1, <4>2
    <3>2. CASE \E r \in Replies(a.status, a.filled) :
                 orders' = [orders EXCEPT
                   ![i].unnamed = Unnamed(kind, r),
                   ![i].told = IF kind = "REST" THEN ParseResting(r) ELSE ParseResponse(r)]
      <4>1. PICK r \in Replies(a.status, a.filled) :
                 orders' = [orders EXCEPT
                   ![i].unnamed = Unnamed(kind, r),
                   ![i].told = IF kind = "REST" THEN ParseResting(r) ELSE ParseResponse(r)]
        BY <3>2
      <4> DEFINE told == IF kind = "REST" THEN ParseResting(r) ELSE ParseResponse(r)
                 unnamed == Unnamed(kind, r)
      <4>2. unnamed \in BOOLEAN
        BY DEF Unnamed
      <4>3. told \in Told /\ ToldOK(told, orders[i].filled, unnamed)
        <5>1. kind \in Kinds /\ a \in Posted /\ orders[i].filled \in Nat
              /\ a.filled <= orders[i].filled
          BY <1>0, <2>1, <3>0 DEF Call
        <5>2. r \in Replies(a.status, a.filled)
          BY <4>1
        <5> HIDE DEF a, i, kind
        <5> QED
          BY <5>1, <5>2, ToldIs
      <4>4. orders' = [orders EXCEPT ![i] = [@ EXCEPT !.told = told, !.unnamed = unnamed]]
        <5> HIDE DEF told, unnamed
        <5>1. orders' = [orders EXCEPT ![i].unnamed = unnamed, ![i].told = told]
          BY <4>1 DEF told, unnamed
        <5> QED
          BY <1>0, <2>1, <5>1 DEF Order
      <4> HIDE DEF told, unnamed
      <4> QED
        BY <4>2, <4>3, <4>4
    <3> QED
      BY <1>6, <3>1, <3>2 DEF Answer
  <2> DEFINE o == [orders[i] EXCEPT !.told = told, !.unnamed = unnamed]
  <2>4. o \in Order /\ OrderOK(o) /\ orders[i].filled <= o.filled /\ o.pooled = orders[i].pooled
    <3>1. o \in Order
      BY <2>1, <2>3 DEF Order
    <3>2. /\ o.told = told /\ o.unnamed = unnamed /\ o.open = orders[i].open
          /\ o.filled = orders[i].filled /\ o.polled = orders[i].polled
          /\ o.filled \in Nat /\ o.pooled = orders[i].pooled
      BY <2>1 DEF Order
    <3> HIDE DEF o
    <3> QED
      BY <2>1, <2>3, <3>1, <3>2 DEF OrderOK
  <2>5. orders' = [orders EXCEPT ![i] = o]
    BY <2>3
  <2> HIDE DEF a, o, kind, i
  <2> QED
    BY <2>1, <2>2, <2>4, <2>5, OneOrder
<1>7. ASSUME NEW i \in DOMAIN orders, NEW paper \in BOOLEAN \cup {None}, Poll(i, paper)
      PROVE  IInv'
  <2>1. /\ UNCHANGED <<live, simulation, client, keyed, prewarm, keyless, call>>
        /\ OrderOK(orders[i]) /\ orders[i] \in Order
    BY <1>0, <1>7 DEF Poll, IInv, OrdersOK
  <2>2. PICK polled \in Polled :
          /\ orders' = [orders EXCEPT ![i].polled = polled]
          /\ polled.filled <= orders[i].filled
          /\ ~polled.open =>
               ~orders[i].open /\ (polled.filled = orders[i].filled \/ polled.silent)
    <3>0. orders[i].filled \in 0 .. Quantity /\ Quantity \in Nat
      BY <2>1, ManagerAssumption DEF Order
    <3>1. CASE orders' = [orders EXCEPT ![i].polled =
                            [filled |-> 0, open |-> TRUE, silent |-> TRUE]]
      <4> DEFINE polled == [filled |-> 0, open |-> TRUE, silent |-> TRUE]
      <4>1. polled \in Polled /\ polled.filled <= orders[i].filled /\ polled.open
        BY <3>0 DEF Polled
      <4> QED
        BY <3>1, <4>1
    <3>2. CASE \E r \in PollReplies(orders[i]) :
                 orders' = [orders EXCEPT ![i].polled = ParsePayloadStatus(r)]
      <4>1. PICK r \in PollReplies(orders[i]) :
                 orders' = [orders EXCEPT ![i].polled = ParsePayloadStatus(r)]
        BY <3>2
      <4> DEFINE polled == ParsePayloadStatus(r)
      <4>2. /\ r.amount \in {orders[i].filled, None}
            /\ r.status \in {StatusOfPoll(orders[i]), ""}
        BY <4>1 DEF PollReplies
      <4>3. /\ polled \in Polled /\ polled.filled <= orders[i].filled
            /\ polled.filled = orders[i].filled \/ polled.silent
        <5> DEFINE silent == r.amount = None
                   amount == IF silent THEN 0 ELSE r.amount
                   open == r.status \notin Terminal
        <5>1. polled = [filled |-> amount, open |-> open, silent |-> silent]
          BY DEF ParsePayloadStatus
        <5>2. ~silent => r.amount = orders[i].filled
          BY <4>2
        <5>3. open \in BOOLEAN /\ silent \in BOOLEAN
          OBVIOUS
        <5> HIDE DEF silent, open
        <5>4. /\ amount \in 0 .. Quantity /\ amount <= orders[i].filled
              /\ amount = orders[i].filled \/ silent
          BY <3>0, <5>2
        <5> HIDE DEF amount, polled
        <5> QED
          BY <5>1, <5>3, <5>4 DEF Polled
      <4>4. ~polled.open => ~orders[i].open
        BY <4>2 DEF ParsePayloadStatus, StatusOfPoll, Terminal
      <4> HIDE DEF polled
      <4>5. orders' = [orders EXCEPT ![i].polled = polled]
        BY <4>1 DEF polled
      <4> QED
        BY <4>3, <4>4, <4>5
    <3> QED
      BY <1>7, <3>1, <3>2 DEF Poll
  <2> DEFINE o == [orders[i] EXCEPT !.polled = polled]
  <2>3. o \in Order /\ OrderOK(o) /\ orders[i].filled <= o.filled /\ o.pooled = orders[i].pooled
    <3>1. o \in Order
      BY <2>1, <2>2 DEF Order
    <3>2. /\ o.told = orders[i].told /\ o.unnamed = orders[i].unnamed
          /\ o.open = orders[i].open /\ o.filled = orders[i].filled /\ o.polled = polled
          /\ o.filled \in Nat /\ o.pooled = orders[i].pooled
      BY <2>1 DEF Order
    <3> HIDE DEF o
    <3> QED
      BY <2>1, <2>2, <3>1, <3>2 DEF OrderOK
  <2>4. orders' = [orders EXCEPT ![i] = o]
    BY <1>0, <2>1, <2>2
  <2> HIDE DEF o
  <2>5. \A d \in Calls : Onward(d)
    BY <2>1 DEF Onward
  <2> QED
    BY <1>0, <2>1, <2>3, <2>4, <2>5, OneOrder
<1>8. ASSUME NEW i \in DOMAIN orders, Fill(i) \/ End(i) PROVE IInv'
  <2>1. /\ UNCHANGED <<live, simulation, client, keyed, prewarm, keyless, call>>
        /\ OrderOK(orders[i]) /\ orders[i] \in Order /\ orders[i].open
    BY <1>0, <1>8 DEF Fill, End, IInv, OrdersOK
  <2>0. \A d \in Calls : Onward(d)
    BY <2>1 DEF Onward
  <2> DEFINE more == [orders[i] EXCEPT !.filled = @ + 1, !.delayed = FALSE,
                                       !.open = orders[i].filled + 1 < Quantity]
             less == [orders[i] EXCEPT !.open = FALSE, !.delayed = FALSE]
  <2>2. CASE Fill(i)
    <3>1. /\ more \in Order /\ OrderOK(more) /\ orders[i].filled <= more.filled
          /\ more.pooled = orders[i].pooled
      <4>1. orders[i].filled \in 0 .. Quantity /\ orders[i].filled < Quantity
        BY <2>1 DEF Order, OrderOK
      <4>2. more \in Order
        <5> DEFINE open == orders[i].filled + 1 < Quantity
        <5>1. open \in BOOLEAN /\ orders[i].filled + 1 \in 0 .. Quantity
          BY <4>1, ManagerAssumption
        <5> HIDE DEF open
        <5>2. more = [orders[i] EXCEPT !.filled = @ + 1, !.delayed = FALSE, !.open = open]
          BY DEF open
        <5> HIDE DEF more
        <5> QED
          BY <2>1, <5>1, <5>2 DEF Order
      <4>3. /\ more.told = orders[i].told /\ more.unnamed = orders[i].unnamed
            /\ more.pooled = orders[i].pooled
            /\ more.filled = orders[i].filled + 1 /\ more.polled = orders[i].polled
            /\ more.open => orders[i].filled + 1 < Quantity
        BY <2>1 DEF Order
      <4>4. /\ orders[i].told # None => orders[i].told.filled \in Nat
            /\ orders[i].polled # None => orders[i].polled.filled \in Nat
        BY <2>1 DEF Order, Told, Polled
      <4> HIDE DEF more
      <4> QED
        <5>1. more.filled \in Nat /\ more.filled > orders[i].filled /\ Quantity \in Nat
          BY <4>1, <4>3, ManagerAssumption
        <5>2. more.told # None => ToldOK(more.told, more.filled, more.unnamed)
          BY <2>1, <4>1, <4>3, <4>4, <5>1 DEF OrderOK, ToldOK
        <5>3. more.polled # None => /\ more.polled.filled <= more.filled
                                    /\ more.polled.open
          BY <2>1, <4>1, <4>3, <4>4, <5>1 DEF OrderOK
        <5> QED
          BY <4>1, <4>2, <4>3, <5>1, <5>2, <5>3 DEF OrderOK
    <3>2. orders' = [orders EXCEPT ![i] = more]
      BY <1>0, <2>1, <2>2 DEF Fill
    <3> HIDE DEF more
    <3> QED
      BY <1>0, <2>0, <2>1, <3>1, <3>2, OneOrder
  <2>3. CASE End(i)
    <3>1. /\ less \in Order /\ OrderOK(less) /\ orders[i].filled <= less.filled
          /\ less.pooled = orders[i].pooled
      <4>1. less \in Order
        BY <2>1 DEF Order
      <4>2. /\ less.told = orders[i].told /\ less.unnamed = orders[i].unnamed
            /\ less.pooled = orders[i].pooled
            /\ less.filled = orders[i].filled /\ less.polled = orders[i].polled
            /\ less.open = FALSE /\ less.filled \in Nat
        BY <2>1 DEF Order
      <4> HIDE DEF less
      <4> QED
        BY <2>1, <4>1, <4>2 DEF OrderOK
    <3>2. orders' = [orders EXCEPT ![i] = less]
      BY <1>0, <2>1, <2>3 DEF End
    <3> HIDE DEF less
    <3> QED
      BY <1>0, <2>0, <2>1, <3>1, <3>2, OneOrder
  <2> QED
    BY <1>8, <2>2, <2>3
<1>9. CASE UNCHANGED vars
  BY <1>9 DEF vars, IInv, TypeOK, OrdersOK, OrderOK, ToldOK, AnswersOK, AnswerOK, Harmless,
              SimulationSendsNothing, KeysOK, KeylessForCause
<1> QED
  BY <1>1, <1>2, <1>3, <1>4, <1>5, <1>6, <1>7, <1>8, <1>9, <1>10,
     <1>11 DEF Next

-----------------------------------------------------------------------------
(* The theorems *)

\* IInv is an invariant of the specification.
LEMMA Invariance == Spec => []IInv
BY InitIInv, NextIInv, PTL DEF Spec

\* Every variable keeps its type.
THEOREM TypeCorrect == Spec => []TypeOK
<1>1. IInv => TypeOK
  BY DEF IInv
<1> QED
  BY <1>1, Invariance, PTL

\* A process that simulates sends nothing to the exchange, whatever its callers say of
\* paper, and one that is not enabled to be live nothing but what the pool posts itself.
THEOREM SimulationSendsNothingHolds == Spec => []SimulationSendsNothing
<1>1. IInv => SimulationSendsNothing
  BY DEF IInv, Harmless
<1> QED
  BY <1>1, Invariance, PTL

\* Callers are told of no fill that is not so, unless the exchange did not say how much,
\* and what a poll said is over is over.
THEOREM ToldIsTrueHolds == Spec => []ToldIsTrue
<1>1. IInv => ToldIsTrue
  BY DEF IInv, OrdersOK, OrderOK, ToldOK, ToldIsTrue
<1> QED
  BY <1>1, Invariance, PTL

\* A payload that fills beyond what its caller was told can be polled by the caller,
\* unless no answer to its post named it.
THEOREM NothingLostHolds == Spec => []NothingLost
<1>1. IInv => NothingLost
  BY DEF IInv, OrdersOK, OrderOK, ToldOK, NothingLost
<1> QED
  BY <1>1, Invariance, PTL

\* While nobody is about to get credentials, a client without them is one for which both
\* ways to get them failed.
THEOREM KeylessForCauseHolds == Spec => []KeylessForCause
<1>1. IInv => KeylessForCause
  BY DEF IInv, KeysOK
<1> QED
  BY <1>1, Invariance, PTL
=============================================================================
