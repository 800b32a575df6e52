------------------------------- MODULE Views -------------------------------
(***************************************************************************)
(* What the ledger's readers are shown of a family: the portal's home      *)
(* (myFamily), the printed statement and the lookup a donation site or a   *)
(* kiosk makes before it offers to take a payment.  All are computed from  *)
(* the rows when they are asked for; nothing of them is stored.            *)
(***************************************************************************)
EXTENDS Ledger

\* Fault: only the invoices nothing was paid on are listed.
Listed_OpenOnly(f) ==
  {i \in BillsOf(f) : invoice[i].status = "open" /\ Balance(i) > 0}

\* The invoices all three list as open, by their stored status and then by what
\* is left of them.
Listed(f) ==
  {i \in BillsOf(f) : invoice[i].status \in {"open", "partially_paid"} /\ Balance(i) > 0}

ListedSum(f) == SumOf([i \in Listed(f) |-> Balance(i)])

\* What familyBalance has them say is owed, and is in credit.
Owed(f)     == IF FamilyBalance(f) > 0 THEN FamilyBalance(f) ELSE 0
InCredit(f) == IF FamilyBalance(f) < 0 THEN -FamilyBalance(f) ELSE 0

\* Fault: an undated invoice is listed before the dated ones.
PortalBefore_UndatedFirst(i, j) ==
  \/ invoice[i].due = NoDate /\ invoice[j].due # NoDate
  \/ /\ invoice[i].due # NoDate /\ invoice[j].due # NoDate
     /\ invoice[i].due < invoice[j].due

\* The order of the portal: by due date alone, the undated ones last.
PortalBefore(i, j) ==
  \/ invoice[i].due # NoDate /\ invoice[j].due = NoDate
  \/ /\ invoice[i].due # NoDate /\ invoice[j].due # NoDate
     /\ invoice[i].due < invoice[j].due

\* The order of the statement: that of the allocation, creation last.
StatementBefore(i, j) == PortalBefore(i, j) \/
  (invoice[i].due = invoice[j].due /\ invoice[i].createdAt < invoice[j].createdAt)

-----------------------------------------------------------------------------
(* Properties *)

\* Part of a family's unreversed payments that lies on no invoice.
Unplaced(f) ==
  SumOf([k \in Keys |->
    IF payment[k] # NoRow /\ reversal[k] = NoRow /\ payment[k].family = f
    THEN payment[k].amount - SumOf(payment[k].alloc) ELSE 0])

\* The open invoices a family is shown and the balance it is shown agree: what is
\* owed or in credit is what the invoices listed come to, less the money that lies
\* on no invoice.  And a consumer that offers to pay the invoices listed is not
\* refused when it then dictates that very allocation.
OffersAddUp ==
  \A f \in Families :
    /\ Owed(f) - InCredit(f) = ListedSum(f) - Unplaced(f)
    /\ Allowed(f, ListedSum(f), [i \in Listed(f) |-> Balance(i)])

\* A parent who reads the list from the top sees where the next payment goes: an
\* automatic allocation reaches an invoice only when those listed before it, on
\* the portal or on the statement, are paid in full.
ListedInTheOrderPaid ==
  \A f \in Families, amt \in Amounts : \A i, j \in Listed(f) :
    (PortalBefore(i, j) \/ StatementBefore(i, j)) /\ OldestDueFirst(f, amt)[j] > 0
      => OldestDueFirst(f, amt)[i] = Balance(i)
=============================================================================
