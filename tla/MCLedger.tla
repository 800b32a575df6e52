------------------------------ MODULE MCLedger ------------------------------
(***************************************************************************)
(* A small ledger for TLC: two families, two billing periods, two or three *)
(* payments.                                                               *)
(***************************************************************************)
EXTENDS Views, TLC, Functions

CONSTANTS f1, f2, p1, p2

\* One family is billed twice and has autopay; the other is billed once.
TwoBillsAndOne == {<<f1, p1>>, <<f1, p2>>, <<f2, p1>>}
OnlyTheFirst   == {f1}

\* Dated and undated bills, and one discounted to nothing.
SomeTerms ==
  (<<f1, p1>> :> {[total |-> 2, due |-> 1], [total |-> 2, due |-> NoDate]}) @@
  (<<f1, p2>> :> {[total |-> 2, due |-> 1], [total |-> 0, due |-> NoDate]}) @@
  (<<f2, p1>> :> {[total |-> 2, due |-> 1]})

\* Nothing compares idempotency keys except for equality.
Symmetry == Permutations(Keys)

\* Counting coins adds up.
ASSUME SumOfIsAFold ==
  \A f \in [1 .. 3 -> 0 .. 3] : SumOf(f) = FoldFunction(+, 0, f)
=============================================================================
