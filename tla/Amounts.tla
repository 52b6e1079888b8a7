------------------------------ MODULE Amounts ------------------------------
(***************************************************************************)
(* Sums of amounts of money over a finite set of keys.  The allocator adds *)
(* up the basis of vectors and of reservations with Python's sum(); money  *)
(* is counted here in whole units of account, and a sum is the number of   *)
(* units <<key, k>> it is made of, so that the theorems on Cardinality     *)
(* apply to it (a fold would need induction over the keys).                *)
(***************************************************************************)
EXTENDS Naturals, FiniteSets

\* The units of account of amounts, a function from keys to 0 .. max.
Coins(amounts, max) ==
  {c \in (DOMAIN amounts) \X (1 .. max) : c[2] <= amounts[c[1]]}

\* The sum of amounts, provided none exceeds max.
Total(amounts, max) == Cardinality(Coins(amounts, max))

\* What amounts come to beyond base, key by key.
Beyond(amounts, base, max) ==
  Cardinality({c \in Coins(amounts, max) : c[2] > base[c[1]]})

\* n per cent of amount, rounded down: every amount compared with it is whole.
Percent(n, amount) == (n * amount) \div 100

Larger(a, b) == IF a >= b THEN a ELSE b
Smaller(a, b) == IF a <= b THEN a ELSE b
=============================================================================
