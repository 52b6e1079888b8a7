--------------------------- MODULE CapacityLedger ---------------------------
(***************************************************************************)
(* What the allocator promises to the executors, without caches, leases or *)
(* databases: a ledger in which units of work hold amounts of an engine's  *)
(* budget.  A unit takes an amount in one step, only if the budget and the *)
(* engine's number of places allow it at that moment, and what units hold  *)
(* otherwise only falls.  An engine outside Budgeted (its budget is a      *)
(* balance that moves by itself) is bound by its number of places only.    *)
(* The ledger is about what was taken: what work costs beyond the amount   *)
(* that was taken for it is never written in it.                           *)
(***************************************************************************)
EXTENDS Integers, FiniteSets, Amounts

CONSTANTS Units, Engines, Budgeted, Budget, Places, MaxAmount, Free

VARIABLE ledger

Holding == [engine: Engines, amount: 0 .. MaxAmount]

Held(e) ==
  Total([u \in Units |-> IF ledger[u] # Free /\ ledger[u].engine = e
                           THEN ledger[u].amount ELSE 0], MaxAmount)
Holders(e) == {u \in Units : ledger[u] # Free /\ ledger[u].engine = e}

Init == ledger = [u \in Units |-> Free]

Take(u, e, a) ==
  /\ ledger[u] = Free
  /\ e \in Budgeted => Held(e) + a <= Budget[e]
  /\ Cardinality(Holders(e)) < Places[e]
  /\ ledger' = [ledger EXCEPT ![u] = [engine |-> e, amount |-> a]]

\* Units finish, or turn out to cost less: one at a time or, when the process
\* dies, many at once.
Fall ==
  /\ ledger' \in [Units -> Holding \cup {Free}]
  /\ \A u \in Units :
       \/ ledger'[u] = ledger[u]
       \/ ledger'[u] = Free
       \/ /\ Free \notin {ledger[u], ledger'[u]}
          /\ ledger'[u].engine = ledger[u].engine
          /\ ledger'[u].amount <= ledger[u].amount

Next ==
  \/ Fall
  \/ \E u \in Units, e \in Engines, a \in 1 .. MaxAmount : Take(u, e, a)

Spec == Init /\ [][Next]_ledger

\* No engine ever holds more than its budget or more than its places.
WithinBudget == \A e \in Budgeted : Held(e) <= Budget[e]
WithinPlaces == \A e \in Engines : Cardinality(Holders(e)) <= Places[e]
=============================================================================
