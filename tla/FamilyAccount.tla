--------------------------- MODULE FamilyAccount ---------------------------
(***************************************************************************)
(* What the ledger promises a family: an account with a running balance.   *)
(* Issuing a bill adds its amount, once per bill; receiving a payment      *)
(* takes its amount off, once per key; returning a payment puts back       *)
(* exactly what it took; waiving a bill takes back exactly what it added.  *)
(* Nothing else moves the balance.                                         *)
(***************************************************************************)
EXTENDS Integers

CONSTANTS
  Families,
  Bills,      \* pairs whose first component is the family billed
  Keys,       \* one per payment
  Sums,       \* the amounts bills and payments come in
  NoRow

VARIABLES
  balance,    \* > 0 owed, < 0 in credit
  bill,       \* bills issued
  receipt     \* payments received

account == <<balance, bill, receipt>>

Moves(f, cents) == balance' = [balance EXCEPT ![f] = @ + cents]

Init ==
  /\ balance = [f \in Families |-> 0]
  /\ bill = [b \in Bills |-> NoRow]
  /\ receipt = [k \in Keys |-> NoRow]

Issue(b, cents) ==
  /\ bill[b] = NoRow
  /\ bill' = [bill EXCEPT ![b] = [amount |-> cents, waived |-> FALSE]]
  /\ Moves(b[1], cents)
  /\ UNCHANGED receipt

Waive(b) ==
  /\ bill[b] # NoRow
  /\ ~bill[b].waived
  /\ bill' = [bill EXCEPT ![b].waived = TRUE]
  /\ Moves(b[1], -bill[b].amount)
  /\ UNCHANGED receipt

Receive(k, f, cents) ==
  /\ receipt[k] = NoRow
  /\ receipt' = [receipt EXCEPT ![k] = [family |-> f, amount |-> cents, returned |-> FALSE]]
  /\ Moves(f, -cents)
  /\ UNCHANGED bill

Return(k) ==
  /\ receipt[k] # NoRow
  /\ ~receipt[k].returned
  /\ receipt' = [receipt EXCEPT ![k].returned = TRUE]
  /\ Moves(receipt[k].family, receipt[k].amount)
  /\ UNCHANGED bill

Next ==
  \/ \E b \in Bills, cents \in Sums : Issue(b, cents)
  \/ \E b \in Bills : Waive(b)
  \/ \E k \in Keys, f \in Families, cents \in Sums : Receive(k, f, cents)
  \/ \E k \in Keys : Return(k)

Spec == Init /\ [][Next]_account
=============================================================================
