--------------------------- MODULE PayloadManager ---------------------------
(***************************************************************************)
(* execution/payload_manager.py: whether a submission is on paper, the     *)
(* client and its credentials, what the exchange's answer to a submission  *)
(* is taken for, and polls of payloads that may still fill.  Which payload *)
(* the pool of signed ones gives is in PresignedPool; that one is posted,  *)
(* by the manager or by the pool itself, is here.                          *)
(*                                                                         *)
(* A submission on paper is answered at once and changes nothing here.     *)
(* The exchange is external: it accepts a payload or not, fills it now or  *)
(* later, in full or in part.  A status and an amount that it answers are  *)
(* true of that moment, but either may be missing, as may the id; it may   *)
(* call an error what it has accepted; and the answer may be lost.  Every  *)
(* leg is of one quantity.                                                 *)
(***************************************************************************)
EXTENDS Integers, Sequences

CONSTANTS
  Calls,      \* callers, each with one submission at a time
  Quantity,   \* leg.qty, in lots
  MaxOrders,  \* bound: how many payloads the exchange accepts
  None

ASSUME ManagerAssumption ==
  /\ Quantity \in Nat \ {0} /\ MaxOrders \in Nat
  /\ None \notin {"loop", "thread"}

VARIABLES
  live,        \* ENV.live_synchronizing_enabled
  simulation,  \* ENV.simulation_mode
  client,      \* _client: None, or who made it, "loop" or "thread"
  keyed,       \* the clients that have credentials
  prewarm,     \* where the thread of prewarm is
  call,        \* where the submission of each caller awaits, or None
  orders,      \* the payloads the exchange has accepted, the first one first
  keyless      \* history: both ways to get credentials have failed

vars == <<live, simulation, client, keyed, prewarm, call, orders, keyless>>

\* submit_... and place_resting; of submit_ATOMIC_EXECUTION, whether the payload is
\* one of the pool; the pool's own submit, of a template; and its signing of one.
Kinds == {"KILL_ON_FAILURE", "RESTING_STATE", "ATOMIC_EXECUTION", "PRESIGNED",
          "SELL_MARKET", "REST", "TEMPLATE", "SIGN"}
Rests(kind) == kind \in {"RESTING_STATE", "REST"}

\* What a caller has been told: how much is filled, with the payload's id or not; and,
\* for the record, whether the amount was the leg's, for want of another (assumed), or
\* the answer to a poll had none (silent).
Told == [filled: 0 .. Quantity, id: BOOLEAN, assumed: BOOLEAN]
Polled == [filled: 0 .. Quantity, open: BOOLEAN, silent: BOOLEAN]

\* A payload at the exchange.  History: whether the pool posted it itself, and whether
\* no answer to it that named it has come.
Order == [filled: 0 .. Quantity, open: BOOLEAN, delayed: BOOLEAN,
          pooled: BOOLEAN, unnamed: BOOLEAN,
          told: Told \cup {None}, polled: Polled \cup {None}]

\* Where a submission awaits, with which client, for which payload, and what the
\* exchange has answered.
Posted == [status: {"matched", "delayed", "live", "unmatched"}, filled: 0 .. Quantity]
Call == [kind: Kinds, at: {"book", "making", "keying", "signing", "posted"},
         by: {None, "loop", "thread"}, order: 0 .. MaxOrders, answer: {None} \cup Posted]

ASSUME NoneAssumption == None \notin Call

-----------------------------------------------------------------------------
(* The client *)

\* _is_paper, of the argument a caller gives or leaves out.
IsPaper(paper) == ~live \/ (IF paper # None THEN paper ELSE simulation)

\* derive_api_key, or create_api_key when it raises.
Keys == {"derived", "created", "failed"}
\* It is _client that gets the credentials, whoever made it.  The mutant forgets those
\* that had to be created.
KeyDerivedOnly(key) ==
  /\ keyed' = IF key = "derived" THEN keyed \cup {client} ELSE keyed
  /\ keyless' = (keyless \/ key = "failed")
Key(key) ==
  /\ keyed' = IF key = "failed" THEN keyed ELSE keyed \cup {client}
  /\ keyless' = (keyless \/ key = "failed")

Waits(kind, at, by) == [kind |-> kind, at |-> at, by |-> by, order |-> 0, answer |-> None]

\* While a submission makes the client, the loop does nothing else.
LoopFree == \A c \in Calls : call[c] # None => call[c].at \notin {"making", "keying"}

\* _ensure_client on the event loop, for a submission that then awaits the signing: the
\* client there is, or an exception, or a client has to be made.  The mutant makes one
\* in a simulation.
EnsureClientAnywhere(c, kind) ==
  call' = [call EXCEPT ![c] = IF client # None THEN Waits(kind, "signing", client)
                              ELSE Waits(kind, "making", None)]
EnsureClient(c, kind) ==
  call' = [call EXCEPT ![c] = IF client # None THEN Waits(kind, "signing", client)
                              ELSE IF simulation THEN None
                              ELSE Waits(kind, "making", None)]

\* The client is made and kept, or not, and then it gets its credentials.
MakeClient(c) ==
  /\ call[c] # None /\ call[c].at = "making"
  /\ \/ client' = "loop" /\ call' = [call EXCEPT ![c].at = "keying"]
     \/ call' = [call EXCEPT ![c] = None] /\ UNCHANGED client
  /\ UNCHANGED <<live, simulation, keyed, prewarm, orders, keyless>>
KeyClient(c) ==
  /\ call[c] # None /\ call[c].at = "keying"
  /\ \E key \in Keys :
       /\ Key(key)
       /\ call' = [call EXCEPT ![c] = IF key = "failed" THEN None
                                      ELSE Waits(call[c].kind, "signing", client)]
  /\ UNCHANGED <<live, simulation, client, prewarm, orders>>

\* prewarm does the same in a thread, beside the loop: it finds no client, makes one,
\* and gets its credentials.
PrewarmBegins ==
  /\ prewarm = "before" /\ ~simulation
  /\ prewarm' = IF client = None THEN "making" ELSE "over"
  /\ UNCHANGED <<live, simulation, client, keyed, call, orders, keyless>>
PrewarmMakes ==
  /\ prewarm = "making"
  /\ \/ prewarm' = "keying" /\ client' = "thread"
     \/ prewarm' = "over" /\ UNCHANGED client
  /\ UNCHANGED <<live, simulation, keyed, call, orders, keyless>>
PrewarmKeys ==
  /\ prewarm = "keying"
  /\ prewarm' = "over"
  /\ \E key \in Keys : Key(key)
  /\ UNCHANGED <<live, simulation, client, call, orders>>

-----------------------------------------------------------------------------
(* The exchange *)

\* What it does with a payload that it accepts: some of it may be filled; the rest
\* is killed, unless it rests or the payload is to be looked at later.
Fates(kind) ==
  { fate \in [filled: 0 .. Quantity, open: BOOLEAN, delayed: BOOLEAN,
              pooled: {kind = "TEMPLATE"}, unnamed: {FALSE},
              told: {None}, polled: {None}] :
      /\ fate.delayed => fate.filled = 0 /\ fate.open
      /\ fate.open => fate.filled < Quantity /\ (Rests(kind) \/ fate.delayed)
      /\ ~fate.open => ~Rests(kind) \/ fate.filled = Quantity }

\* The status in the answer to a submission, and in the one to a poll.
StatusOfPost(o) ==
  CASE o.filled > 0 -> "matched"
    [] o.delayed    -> "delayed"
    [] o.open       -> "live"
    [] OTHER        -> "unmatched"
StatusOfPoll(o) ==
  CASE ~o.open /\ o.filled = Quantity -> "matched"
    [] ~o.open   -> "cancelled"
    [] o.delayed -> "delayed"
    [] OTHER     -> "live"

\* The forms an answer comes in.  An amount that is missing, cannot be read or is the
\* number zero is None; what is not a dict answers a poll as one without entries does.
Replies(status, filled) ==
  [dict: BOOLEAN, id: BOOLEAN, success: BOOLEAN, err: BOOLEAN,
   status: {status, "", "error"}, amount: {filled, None}]
PollReplies(o) == [status: {StatusOfPoll(o), ""}, amount: {o.filled, None}]

\* An open payload is filled further, or ends.
Fill(i) ==
  /\ orders[i].open
  /\ orders' = [orders EXCEPT ![i].filled = @ + 1, ![i].delayed = FALSE,
                              ![i].open = orders[i].filled + 1 < Quantity]
  /\ UNCHANGED <<live, simulation, client, keyed, prewarm, call, keyless>>
End(i) ==
  /\ orders[i].open
  /\ orders' = [orders EXCEPT ![i].open = FALSE, ![i].delayed = FALSE]
  /\ UNCHANGED <<live, simulation, client, keyed, prewarm, call, keyless>>

-----------------------------------------------------------------------------
(* Submissions *)

Negative == {"unmatched", "live", "delayed", "cancelled", "killed", "rejected",
             "expired", "error", "failed"}
Reject == {"rejected", "error", "failed", "cancelled", "killed", "expired"}
Terminal == {"filled", "complete", "completed", "matched", "cancelled", "rejected",
             "expired", "killed"}

NotTold == [filled |-> 0, id |-> FALSE, assumed |-> FALSE]

\* _parse_response: not filled without an id, without success or with a status that
\* says so; else filled by the amount in the answer, or in full where there is none.
\* Filled or not, the id is passed on.  The mutants take every fill for a full one, and
\* drop the id of what is not filled.
Counts(r) == r.id /\ r.success /\ r.status \notin Negative
ParseResponseInFull(r) ==
  IF ~r.dict THEN NotTold
  ELSE [filled |-> IF Counts(r) THEN Quantity ELSE 0,
        id |-> r.id, assumed |-> Counts(r) /\ r.amount = None]
ParseResponseBare(r) ==
  IF ~r.dict \/ ~Counts(r) THEN NotTold
  ELSE [filled |-> IF r.amount = None THEN Quantity ELSE r.amount,
        id |-> TRUE, assumed |-> r.amount = None]
ParseResponse(r) ==
  IF ~r.dict THEN NotTold
  ELSE [filled |-> IF ~Counts(r) THEN 0 ELSE IF r.amount = None THEN Quantity ELSE r.amount,
        id |-> r.id, assumed |-> Counts(r) /\ r.amount = None]

\* _parse_resting: the id or nothing.
ParseResting(r) ==
  [filled |-> 0, assumed |-> FALSE,
   id |-> r.dict /\ r.id /\ r.success /\ ~r.err /\ r.status \notin Reject]

\* _parse_payload_status
ParsePayloadStatus(r) ==
  [filled |-> IF r.amount = None THEN 0 ELSE r.amount,
   open |-> r.status \notin Terminal, silent |-> r.amount = None]

\* Whether a submission goes to the exchange at all: the pool asks simulation_mode only.
Goes(kind, paper) ==
  IF kind \in {"TEMPLATE", "SIGN"} THEN ~simulation ELSE ~IsPaper(paper)

\* Up to the first await: for a release the book is fetched, for the others the
\* payload is signed, or one that was signed before is posted, in a thread.
Begin(c, kind, paper) ==
  /\ LoopFree /\ call[c] = None /\ Goes(kind, paper)
  /\ kind \in {"PRESIGNED", "TEMPLATE"} => client # None
  /\ IF kind = "SELL_MARKET"
     THEN call' = [call EXCEPT ![c] = Waits(kind, "book", None)]
     ELSE EnsureClient(c, kind)
  /\ UNCHANGED <<live, simulation, client, keyed, prewarm, orders, keyless>>

\* The book of a release comes, or it does not or is empty.
BookComes(c) ==
  /\ LoopFree /\ call[c] # None /\ call[c].at = "book"
  /\ call' = [call EXCEPT ![c] = None] \/ EnsureClient(c, call[c].kind)
  /\ UNCHANGED <<live, simulation, client, keyed, prewarm, orders, keyless>>

\* What a submission does about an exception: with a payload of the pool it tries
\* another, the pool by a submission that may be on paper.
AfterRaise(kind) ==
  CASE kind = "TEMPLATE" /\ ~IsPaper(None) ->
         {Waits("PRESIGNED", "signing", client), Waits("ATOMIC_EXECUTION", "signing", client)}
    [] kind = "PRESIGNED" -> {Waits("ATOMIC_EXECUTION", "signing", client)}
    [] OTHER -> {None}

\* Signing or posting raises, or the exchange answers that it does not accept; a
\* client without credentials gets no further, and the pool keeps what it signs.
Raise(c) ==
  /\ LoopFree /\ call[c] # None /\ call[c].at = "signing"
  /\ \E w \in {None} \cup AfterRaise(call[c].kind) : call' = [call EXCEPT ![c] = w]
  /\ UNCHANGED <<live, simulation, client, keyed, prewarm, orders, keyless>>

\* The payload is signed and posted, and the exchange accepts it.
Post(c) ==
  /\ call[c] # None /\ call[c].at = "signing" /\ call[c].by \in keyed
  /\ call[c].kind # "SIGN"
  /\ Len(orders) < MaxOrders
  /\ \E fate \in Fates(call[c].kind) :
       /\ orders' = Append(orders, fate)
       /\ call' = [call EXCEPT ![c].at = "posted", ![c].order = Len(orders) + 1,
                     ![c].answer = [status |-> StatusOfPost(fate), filled |-> fate.filled]]
  /\ UNCHANGED <<live, simulation, client, keyed, prewarm, keyless>>

\* An answer that does not name the payload, or that place_resting is to take for an
\* error.
Unnamed(kind, r) ==
  \/ ~r.dict \/ ~r.id
  \/ kind = "REST" /\ (~r.success \/ r.err \/ r.status = "error")

\* The answer comes, by when more may have been filled, or an error instead of it.
Answer(c) ==
  /\ LoopFree /\ call[c] # None /\ call[c].at = "posted"
  /\ LET i == call[c].order
         a == call[c].answer
         kind == call[c].kind
     IN  \/ /\ orders' = [orders EXCEPT ![i].unnamed = TRUE, ![i].told = NotTold]
            /\ \E w \in AfterRaise(kind) : call' = [call EXCEPT ![c] = w]
         \/ /\ \E r \in Replies(a.status, a.filled) :
                 orders' = [orders EXCEPT
                   ![i].unnamed = Unnamed(kind, r),
                   ![i].told = IF kind = "REST" THEN ParseResting(r) ELSE ParseResponse(r)]
            /\ call' = [call EXCEPT ![c] = None]
  /\ UNCHANGED <<live, simulation, client, keyed, prewarm, keyless>>

\* poll_payload by a caller that has the id, so that there is a client: on paper, or
\* when it raises, it tells nothing.
Poll(i, paper) ==
  /\ LoopFree /\ orders[i].told # None /\ orders[i].told.id
  /\ \/ orders' = [orders EXCEPT ![i].polled =
                     [filled |-> 0, open |-> TRUE, silent |-> TRUE]]
     \/ /\ ~IsPaper(paper)
        /\ \E r \in PollReplies(orders[i]) :
             orders' = [orders EXCEPT ![i].polled = ParsePayloadStatus(r)]
  /\ UNCHANGED <<live, simulation, client, keyed, prewarm, call, keyless>>

Init ==
  /\ live \in BOOLEAN /\ simulation \in BOOLEAN
  /\ client = None /\ keyed = {} /\ prewarm = "before"
  /\ call = [c \in Calls |-> None]
  /\ orders = <<>> /\ keyless = FALSE

Next ==
  \/ PrewarmBegins
  \/ PrewarmMakes
  \/ PrewarmKeys
  \/ \E c \in Calls, kind \in Kinds, paper \in BOOLEAN \cup {None} : Begin(c, kind, paper)
  \/ \E c \in Calls : MakeClient(c)
  \/ \E c \in Calls : KeyClient(c)
  \/ \E c \in Calls : BookComes(c)
  \/ \E c \in Calls : Raise(c)
  \/ \E c \in Calls : Post(c)
  \/ \E c \in Calls : Answer(c)
  \/ \E i \in DOMAIN orders, paper \in BOOLEAN \cup {None} : Poll(i, paper)
  \/ \E i \in DOMAIN orders : Fill(i)
  \/ \E i \in DOMAIN orders : End(i)

Spec == Init /\ [][Next]_vars

-----------------------------------------------------------------------------
(* Properties *)

TypeOK ==
  /\ live \in BOOLEAN /\ simulation \in BOOLEAN /\ keyless \in BOOLEAN
  /\ client \in {None, "loop", "thread"} /\ keyed \subseteq {"loop", "thread"}
  /\ prewarm \in {"before", "making", "keying", "over"}
  /\ call \in [Calls -> {None} \cup Call]
  /\ orders \in Seq(Order) /\ Len(orders) <= MaxOrders

\* Nothing is sent to the exchange in a process that is simulating, whatever a caller
\* says of paper: what _is_paper lets through, _ensure_client stops.  In a process that
\* is not enabled to be live, nothing is but what the pool posts itself, which does not
\* ask; and no fallback of the pool's is.
SimulationSendsNothing ==
  /\ simulation => orders = <<>>
  /\ ~live => \A i \in DOMAIN orders : orders[i].pooled

\* What callers are told is so: no more is filled than they were told is, by a
\* submission or a poll, and a payload that a poll said to be over fills no more and
\* was filled as much as it said.  Where the exchange did not say how much, a submission
\* may have assumed more, and a poll less.
ToldIsTrue ==
  \A i \in DOMAIN orders :
    LET o == orders[i]
    IN  /\ o.told # None => o.told.filled <= o.filled \/ o.told.assumed
        /\ o.polled # None =>
             /\ o.polled.filled <= o.filled
             /\ ~o.polled.open => ~o.open /\ (o.polled.filled = o.filled \/ o.polled.silent)

\* A payload that fills beyond what its caller was told is one that the caller can
\* poll, whatever the status, the success, the error and the amount in the answer, as
\* long as there was an answer that names it, and that is no error where it rests.
NothingLost ==
  \A i \in DOMAIN orders :
    LET o == orders[i]
    IN  o.told # None /\ o.told.filled < o.filled => o.told.id \/ o.unnamed

\* Once neither the loop nor prewarm is about to get credentials, the client has them
\* unless both ways to get them failed once; then it has none for good, because it is
\* kept.
KeylessForCause ==
  client # None /\ prewarm # "keying" /\ (\A c \in Calls : call[c] # None => call[c].at # "keying")
    => client \in keyed \/ keyless
=============================================================================
