------------------------------- MODULE Ledger -------------------------------
(***************************************************************************)
(* The family ledger (billing/ledger.ts): invoices, payments with their    *)
(* allocations, reversals, and the voiding of an invoice.  All database    *)
(* calls are synchronous, so each operation is one atomic step; what a     *)
(* crash can cut off is the statement recordPayment runs after its         *)
(* transaction has committed (the reset of the autopay retry ladder).      *)
(*                                                                         *)
(* An invoice is identified by <<family, period>>, which the schema makes  *)
(* unique; a payment by its idempotency key, also unique.  Nothing is ever *)
(* deleted, so a row is NoRow until it is inserted.  Totals, paid amounts  *)
(* and balances are derived from the rows here as they are in the code;    *)
(* only an invoice's status is stored.                                     *)
(***************************************************************************)
EXTENDS Cents

CONSTANTS
  Families,   \* families
  Periods,    \* billing periods (periodKey)
  Invoices,   \* the (family, period) pairs for which there are fees to bill
  Enrolled,   \* families with an autopay enrollment, hence a retry ladder
  Keys,       \* idempotency keys: Stripe intents, Fabric calls, manual entries
  Amounts,    \* payment amounts in cents
  Terms,      \* per invoice, the totals (0 when fully discounted) and due
              \* dates it can be generated with
  NoDate,     \* an invoice generated without a due date
  NoRow       \* a row that has not been inserted

VARIABLES
  invoice,    \* invoice rows, each with the sum of its items
  payment,    \* payment rows, each with its allocation rows
  reversal,   \* the reversal of a payment: a row of negated amounts
  ladder      \* has autopay's retry ladder moved off its first rung?

vars == <<invoice, payment, reversal, ladder>>

Statuses == {"open", "partially_paid", "paid", "void"}
Invoice  == [total : Nat, due : Nat \cup {NoDate}, createdAt : Nat, status : Statuses]
Payment  == [family : Families, amount : Nat, alloc : [Invoices -> Nat]]
Reversal == [amount : Nat, alloc : [Invoices -> Nat]]

\* What the ledger asks of its constants: finitely many rows, bills and ladders
\* of families, amounts in cents, and sentinels that are neither a date nor a
\* row, of the ledger or of the account that abstracts it.
SoundConstants ==
  /\ IsFiniteSet(Families) /\ IsFiniteSet(Periods) /\ IsFiniteSet(Keys)
  /\ Invoices \subseteq Families \X Periods /\ Enrolled \subseteq Families
  /\ Amounts \subseteq Nat \ {0}
  /\ NoDate \notin Nat
  /\ \A i \in Invoices : \A terms \in Terms[i] :
       terms.total \in Nat /\ terms.due \in Nat \cup {NoDate}
  /\ NoRow \notin Invoice \cup Payment \cup Reversal
  /\ NoRow \notin [amount : Nat, waived : BOOLEAN]
                   \cup [family : Families, amount : Nat, returned : BOOLEAN]

ASSUME ConstantsAreSound == SoundConstants

TypeOK ==
  /\ invoice \in [Invoices -> Invoice \cup {NoRow}]
  /\ payment \in [Keys -> Payment \cup {NoRow}]
  /\ reversal \in [Keys -> Reversal \cup {NoRow}]
  /\ ladder \in [Enrolled -> {"clear", "raised"}]

-----------------------------------------------------------------------------
(* Derived amounts *)

Issued(i) == invoice[i] # NoRow
Live(i)   == Issued(i) /\ invoice[i].status # "void"
BillsOf(f)  == {i \in Invoices : i[1] = f /\ Issued(i)}

Applied(k, i)  == IF payment[k] = NoRow THEN 0 ELSE payment[k].alloc[i]
Restored(k, i) == IF reversal[k] = NoRow THEN 0 ELSE reversal[k].alloc[i]

\* Allocations against an invoice; those of a reversal are negative.
InvoicePaid(i) ==
  SumOf([k \in Keys |-> Applied(k, i)]) - SumOf([k \in Keys |-> Restored(k, i)])

Balance(i) == invoice[i].total - InvoicePaid(i)

\* Fault: voided invoices stay in the invoiced total.
Invoiced_VoidCounts(f) ==
  SumOf([i \in Invoices |-> IF i[1] = f /\ Issued(i) THEN invoice[i].total ELSE 0])

Invoiced(f) ==
  SumOf([i \in Invoices |-> IF i[1] = f /\ Live(i) THEN invoice[i].total ELSE 0])
Received(f) ==
  SumOf([k \in Keys |-> IF payment[k] # NoRow /\ payment[k].family = f
                        THEN payment[k].amount ELSE 0])
Returned(f) ==
  SumOf([k \in Keys |-> IF reversal[k] # NoRow /\ payment[k].family = f
                        THEN reversal[k].amount ELSE 0])

\* > 0 owed, < 0 overpaid.
FamilyBalance(f) == Invoiced(f) - (Received(f) - Returned(f))

StatusFor(total, paid) ==
  IF paid <= 0 THEN "open" ELSE IF paid >= total THEN "paid" ELSE "partially_paid"

\* The invoice rows once every invoice in touched has been refreshed against
\* the amount paid on it by then.  A void invoice stays void.
Refreshed(touched, paid) ==
  [i \in Invoices |->
     IF i \in touched /\ Live(i)
     THEN [invoice[i] EXCEPT !.status = StatusFor(invoice[i].total, paid[i])]
     ELSE invoice[i]]

-----------------------------------------------------------------------------
(* How a payment is spread over a family's invoices *)

\* Fault: SQLite's own order, undated invoices first.
Before_UndatedFirst(i, j) ==
  \/ invoice[i].due = NoDate /\ invoice[j].due # NoDate
  \/ /\ invoice[i].due # NoDate /\ invoice[j].due # NoDate
     /\ invoice[i].due < invoice[j].due
  \/ invoice[i].due = invoice[j].due /\ invoice[i].createdAt < invoice[j].createdAt

\* The order in which automatic allocation visits a family's invoices: by due
\* date with the undated ones last, then by time of creation.
Before(i, j) ==
  \/ invoice[i].due # NoDate /\ invoice[j].due = NoDate
  \/ /\ invoice[i].due # NoDate /\ invoice[j].due # NoDate
     /\ invoice[i].due < invoice[j].due
  \/ invoice[i].due = invoice[j].due /\ invoice[i].createdAt < invoice[j].createdAt

\* Fault: the loop does not skip void invoices.
Room_VoidToo(i) == IF Issued(i) /\ Balance(i) > 0 THEN Balance(i) ELSE 0

\* What the loop can place on i: nothing on a void or a settled invoice.
Room(i) == IF Live(i) /\ Balance(i) > 0 THEN Balance(i) ELSE 0

\* What the loop has placed by the time it reaches i, were the payment endless.
RoomBefore(f, i) ==
  SumOf([j \in Invoices |-> IF j \in BillsOf(f) /\ Before(j, i) THEN Room(j) ELSE 0])

\* Fault: the loop does not stop when nothing remains.
OldestDueFirst_NoBreak(f, amt) ==
  [i \in Invoices |->
     IF i \in BillsOf(f) THEN Lesser(Room(i), amt - RoomBefore(f, i)) ELSE 0]

\* What the loop comes to: each invoice in turn takes the lesser of its balance and
\* of what the invoices before it have left of the payment.
OldestDueFirst(f, amt) ==
  [i \in Invoices |->
     IF i \in BillsOf(f) THEN Lesser(Room(i), LessBy(amt, RoomBefore(f, i))) ELSE 0]

\* The loop as the code runs it, which OldestDueFirst gives in closed form.  The
\* key its query sorts by, from left to right: undated, due date, creation.
SortKey(i) ==
  IF invoice[i].due = NoDate THEN <<1, 0, invoice[i].createdAt>>
                             ELSE <<0, invoice[i].due, invoice[i].createdAt>>
QueriedBefore(i, j) ==
  \E n \in 1 .. 3 : /\ SortKey(i)[n] < SortKey(j)[n]
                    /\ \A m \in 1 .. n - 1 : SortKey(i)[m] = SortKey(j)[m]

\* The family's invoices as the query returns them.
Queried(f) ==
  LET count == Cardinality(BillsOf(f))
  IN CHOOSE open \in [1 .. count -> BillsOf(f)] :
       \A m, n \in 1 .. count : m < n => QueriedBefore(open[m], open[n])

\* What one iteration allocates of what remains.
Taken(remaining, i) ==
  IF remaining <= 0 \/ invoice[i].status = "void" \/ Balance(i) <= 0
  THEN 0 ELSE Lesser(remaining, Balance(i))

\* What remains of the payment after each iteration.
Remaining(f, amt) ==
  LET left[n \in 0 .. Cardinality(BillsOf(f))] ==
        IF n = 0 THEN amt ELSE left[n - 1] - Taken(left[n - 1], Queried(f)[n])
  IN left

Loop(f, amt) ==
  [i \in Invoices |->
     IF i \in BillsOf(f)
     THEN LET n == CHOOSE k \in DOMAIN Queried(f) : Queried(f)[k] = i
          IN Taken(Remaining(f, amt)[n - 1], i)
     ELSE 0]

\* Fault: the invoice's balance is not looked at.
Allowed_PastBalance(f, amt, asked) ==
  /\ \A i \in DOMAIN asked : i[1] = f /\ Live(i)
  /\ SumOf(asked) <= amt

\* Fault: each allocation is held against the payment, not their sum.
Allowed_PastPayment(f, amt, asked) ==
  \A i \in DOMAIN asked : i[1] = f /\ Live(i) /\ asked[i] <= Balance(i) /\ asked[i] <= amt

\* Allocations a caller may dictate: every invoice named is a live one of the
\* family, none gets more than its balance, and together no more than the payment.
Allowed(f, amt, asked) ==
  /\ \A i \in DOMAIN asked : i[1] = f /\ Live(i) /\ asked[i] <= Balance(i)
  /\ SumOf(asked) <= amt

AsAsked(asked) ==
  [i \in Invoices |-> IF i \in DOMAIN asked THEN asked[i] ELSE 0]

-----------------------------------------------------------------------------
(* Operations *)

Init ==
  /\ invoice = [i \in Invoices |-> NoRow]
  /\ payment = [k \in Keys |-> NoRow]
  /\ reversal = [k \in Keys |-> NoRow]
  /\ ladder = [f \in Enrolled |-> "clear"]

\* generateForFamily: idempotent on (family, period), a voided invoice included.
GenerateForFamily(i, terms) ==
  /\ ~Issued(i)
  /\ invoice' = [invoice EXCEPT ![i] =
                   [total |-> terms.total, due |-> terms.due, status |-> "open",
                    createdAt |-> Cardinality(BillsOf(i[1])) + 1]]
  /\ UNCHANGED <<payment, reversal, ladder>>

\* The transaction of recordPayment, for the allocation it settles on.  A key
\* that was used before changes nothing.
RecordRows(k, f, amt, alloc) ==
  /\ payment[k] = NoRow
  /\ payment' = [payment EXCEPT ![k] = [family |-> f, amount |-> amt, alloc |-> alloc]]
  /\ invoice' = Refreshed({i \in Invoices : alloc[i] > 0},
                          [i \in Invoices |-> InvoicePaid(i) + alloc[i]])
  /\ UNCHANGED reversal

\* The transaction, and the ladder reset that follows it: not reached when the
\* process dies in between.
Record(k, f, amt, alloc) ==
  /\ RecordRows(k, f, amt, alloc)
  /\ \/ ladder' = [g \in Enrolled |-> IF g = f /\ FamilyBalance(f)' <= 0
                                    THEN "clear" ELSE ladder[g]]
     \/ UNCHANGED ladder

\* recordPayment without allocations: manual, portal, autopay, reconciliation.
RecordAuto(k, f, amt) == Record(k, f, amt, OldestDueFirst(f, amt))

\* recordPayment with allocations, as a Fabric consumer may send them.  A
\* refused allocation rolls the whole payment back.
RecordExplicit(k, f, amt, asked) ==
  /\ Allowed(f, amt, asked)
  /\ Record(k, f, amt, AsAsked(asked))

\* Fault: the invoices a reversal frees are not refreshed.
ReversePayment_StaleStatus(k) ==
  /\ payment[k] # NoRow
  /\ reversal[k] = NoRow
  /\ reversal' = [reversal EXCEPT ![k] =
                    [amount |-> payment[k].amount, alloc |-> payment[k].alloc]]
  /\ UNCHANGED <<invoice, payment, ladder>>

\* reversePayment: a payment that was reversed already is left as it is.
ReversePayment(k) ==
  /\ payment[k] # NoRow
  /\ reversal[k] = NoRow
  /\ reversal' = [reversal EXCEPT ![k] =
                    [amount |-> payment[k].amount, alloc |-> payment[k].alloc]]
  /\ invoice' = Refreshed({i \in Invoices : payment[k].alloc[i] > 0},
                          [i \in Invoices |-> InvoicePaid(i) - payment[k].alloc[i]])
  /\ UNCHANGED <<payment, ladder>>

\* Fault: a paid invoice can be voided.
VoidInvoice_Paid(i) ==
  /\ Live(i)
  /\ invoice' = [invoice EXCEPT ![i].status = "void"]
  /\ UNCHANGED <<payment, reversal, ladder>>

\* voidInvoice: refused while money is allocated to the invoice.
VoidInvoice(i) ==
  /\ Live(i)
  /\ InvoicePaid(i) = 0
  /\ invoice' = [invoice EXCEPT ![i].status = "void"]
  /\ UNCHANGED <<payment, reversal, ladder>>

\* Autopay's own writes to its retry ladder (a decline raises it; a success, or
\* the parent turning autopay on again, clears it).
AutopayMovesLadder(f) ==
  /\ \E rung \in {"clear", "raised"} : ladder' = [ladder EXCEPT ![f] = rung]
  /\ UNCHANGED <<invoice, payment, reversal>>

Next ==
  \/ \E i \in Invoices : \E terms \in Terms[i] : GenerateForFamily(i, terms)
  \/ \E k \in Keys, f \in Families, amt \in Amounts : RecordAuto(k, f, amt)
  \/ \E k \in Keys, f \in Families, amt \in Amounts, named \in SUBSET Invoices :
        /\ named # {}
        /\ \E asked \in [named -> 1 .. amt] : RecordExplicit(k, f, amt, asked)
  \/ \E k \in Keys : ReversePayment(k)
  \/ \E i \in Invoices : VoidInvoice(i)
  \/ \E f \in Enrolled : AutopayMovesLadder(f)

Spec == Init /\ [][Next]_vars
-----------------------------------------------------------------------------
(* Properties *)

\* A void invoice holds no money: every payment that was ever allocated to it
\* has been reversed (voidInvoice's reason for refusing a paid invoice).
VoidHoldsNoMoney ==
  \A i \in Invoices : Issued(i) /\ ~Live(i) =>
    \A k \in Keys : Applied(k, i) > 0 => reversal[k] # NoRow

\* An invoice is never paid beyond its total and never refunded below zero,
\* whatever mix of automatic, dictated and reversed payments reached it.
NeverOverpaid ==
  \A i \in Invoices : Issued(i) => InvoicePaid(i) \in 0 .. invoice[i].total

\* The one stored figure agrees with the derived ones: the status of a live
\* invoice is the status its total and its allocations give.
StatusMatchesMoney ==
  \A i \in Invoices : Live(i) =>
    invoice[i].status = StatusFor(invoice[i].total, InvoicePaid(i))

\* A payment is allocated to invoices of the family that paid it, and to no
\* more than its amount (an allocation cannot manufacture negative credit).
AllocationsAreCovered ==
  \A k \in Keys : payment[k] # NoRow =>
    /\ SumOf(payment[k].alloc) <= payment[k].amount
    /\ \A i \in Invoices : payment[k].alloc[i] > 0 =>
         i[1] = payment[k].family /\ Issued(i)

\* The allocation that the operations use is the one the code's loop computes.
AllocationIsTheLoop ==
  \A f \in Families, amt \in Amounts : OldestDueFirst(f, amt) = Loop(f, amt)

\* The running balance that the derived one implements.
Account == INSTANCE FamilyAccount WITH
  Bills   <- Invoices,
  Sums    <- Amounts \cup {terms.total : terms \in UNION {Terms[i] : i \in Invoices}},
  balance <- [f \in Families |-> FamilyBalance(f)],
  bill    <- [i \in Invoices |->
                IF Issued(i) THEN [amount |-> invoice[i].total, waived |-> ~Live(i)]
                             ELSE NoRow],
  receipt <- [k \in Keys |->
                IF payment[k] = NoRow THEN NoRow
                ELSE [family |-> payment[k].family, amount |-> payment[k].amount,
                      returned |-> reversal[k] # NoRow]]

\* Every operation moves the derived balance by its own amount and no other.
ImplementsFamilyAccount == Account!Spec
=============================================================================
