---------------------------- MODULE LedgerProofs ----------------------------
(***************************************************************************)
(* Theorems about the ledger, and about what its readers are shown, for    *)
(* any families, invoices, payments and amounts.                           *)
(***************************************************************************)
EXTENDS Views, CentsTheorems

-----------------------------------------------------------------------------
(* Types of the derived amounts *)

LEMMA FinitelyMany == IsFiniteSet(Families) /\ IsFiniteSet(Periods) /\ IsFiniteSet(Keys)
BY ConstantsAreSound DEF SoundConstants

LEMMA BilledAndEnrolled == Invoices \subseteq Families \X Periods /\ Enrolled \subseteq Families
BY ConstantsAreSound DEF SoundConstants

LEMMA PaymentsArePositive == Amounts \subseteq Nat \ {0}
BY ConstantsAreSound DEF SoundConstants

LEMMA TermsAreSound ==
  /\ NoDate \notin Nat
  /\ \A i \in Invoices : \A terms \in Terms[i] :
       terms.total \in Nat /\ terms.due \in Nat \cup {NoDate}
BY ConstantsAreSound DEF SoundConstants

LEMMA NoRowIsNoRow == NoRow \notin Invoice \cup Payment \cup Reversal
BY ConstantsAreSound DEF SoundConstants

LEMMA NoRowIsNoEntry ==
  NoRow \notin [amount : Nat, waived : BOOLEAN]
                \cup [family : Families, amount : Nat, returned : BOOLEAN]
BY ConstantsAreSound DEF SoundConstants

LEMMA InvoicesFinite == IsFiniteSet(Invoices)
<1>1. IsFiniteSet(Families \X Periods)
  BY FinitelyMany, FS_Product
<1> QED
  BY <1>1, BilledAndEnrolled, FS_Subset

LEMMA PaidTypes ==
  ASSUME TypeOK, NEW i \in Invoices
  PROVE  /\ [k \in Keys |-> Applied(k, i)] \in [Keys -> Nat]
         /\ [k \in Keys |-> Restored(k, i)] \in [Keys -> Nat]
         /\ InvoicePaid(i) \in Int
<1>1. [k \in Keys |-> Applied(k, i)] \in [Keys -> Nat]
  BY DEF TypeOK, Applied, Payment
<1>2. [k \in Keys |-> Restored(k, i)] \in [Keys -> Nat]
  BY DEF TypeOK, Restored, Reversal
<1>3. /\ SumOf([k \in Keys |-> Applied(k, i)]) \in Nat
      /\ SumOf([k \in Keys |-> Restored(k, i)]) \in Nat
  BY <1>1, <1>2, FinitelyMany, SumIsNat
<1> QED
  BY <1>1, <1>2, <1>3 DEF InvoicePaid

LEMMA RoomTypes ==
  ASSUME TypeOK, NEW i \in Invoices
  PROVE  /\ Room(i) \in Nat
         /\ Room(i) > 0 => Live(i) /\ Room(i) = Balance(i)
<1>1. CASE Live(i)
  <2>1. invoice[i].total \in Nat
    BY <1>1 DEF TypeOK, Live, Issued, Invoice
  <2>2. Balance(i) \in Int
    BY <2>1, PaidTypes DEF Balance
  <2> QED
    BY <1>1, <2>2 DEF Room
<1>2. CASE ~Live(i)
  BY <1>2 DEF Room
<1> QED
  BY <1>1, <1>2

\* The allocation of the loop is a natural number of cents per invoice, within
\* the balance of an invoice of the family that is not void.
LEMMA LoopWithinBalance ==
  ASSUME TypeOK, NEW f \in Families, NEW amt \in Nat
  PROVE  /\ OldestDueFirst(f, amt) \in [Invoices -> Nat]
         /\ \A i \in Invoices : OldestDueFirst(f, amt)[i] > 0 =>
              i[1] = f /\ Live(i) /\ OldestDueFirst(f, amt)[i] <= Balance(i)
<1> DEFINE placed(i) == [j \in Invoices |->
             IF j \in BillsOf(f) /\ Before(j, i) THEN Room(j) ELSE 0]
<1>1. ASSUME NEW i \in Invoices
      PROVE  RoomBefore(f, i) \in Nat
  <2>1. placed(i) \in [Invoices -> Nat]
    BY RoomTypes
  <2>2. SumOf(placed(i)) \in Nat
    BY <2>1, InvoicesFinite, SumIsNat
  <2> QED
    BY <2>2 DEF RoomBefore
<1>2. ASSUME NEW i \in Invoices
      PROVE  /\ OldestDueFirst(f, amt)[i] \in Nat
             /\ OldestDueFirst(f, amt)[i] > 0 =>
                  i[1] = f /\ Live(i) /\ OldestDueFirst(f, amt)[i] <= Balance(i)
  <2>1. /\ Room(i) \in Nat
        /\ Room(i) > 0 => Live(i) /\ Room(i) = Balance(i)
    BY RoomTypes
  <2>2. LessBy(amt, RoomBefore(f, i)) \in Nat
    BY <1>1 DEF LessBy
  <2>3. CASE i \in BillsOf(f)
    BY <2>1, <2>2, <2>3 DEF OldestDueFirst, Lesser, BillsOf
  <2>4. CASE i \notin BillsOf(f)
    BY <2>4 DEF OldestDueFirst
  <2> QED
    BY <2>3, <2>4
<1> QED
  BY <1>2 DEF OldestDueFirst

LEMMA AskedWithinBalance ==
  ASSUME TypeOK, NEW f \in Families, NEW amt \in Nat, NEW named \in SUBSET Invoices,
         NEW asked \in [named -> 1 .. amt], Allowed(f, amt, asked)
  PROVE  /\ AsAsked(asked) \in [Invoices -> Nat]
         /\ \A i \in Invoices : AsAsked(asked)[i] > 0 =>
              i[1] = f /\ Live(i) /\ AsAsked(asked)[i] <= Balance(i)
BY DEF AsAsked, Allowed

-----------------------------------------------------------------------------
(* Type correctness *)

LEMMA StatusTypes == ASSUME NEW total, NEW paid PROVE StatusFor(total, paid) \in Statuses
BY DEF StatusFor, Statuses

\* Refreshing changes nothing of an invoice but its status, and that only to
\* what the amount paid gives; void stays void.
LEMMA RefreshKeeps ==
  ASSUME TypeOK, NEW touched, NEW paid
  PROVE  /\ Refreshed(touched, paid) \in [Invoices -> Invoice \cup {NoRow}]
         /\ \A i \in Invoices :
              IF i \in touched /\ Live(i)
              THEN /\ Refreshed(touched, paid)[i] \in Invoice
                   /\ Refreshed(touched, paid)[i].total = invoice[i].total
                   /\ Refreshed(touched, paid)[i].due = invoice[i].due
                   /\ Refreshed(touched, paid)[i].createdAt = invoice[i].createdAt
                   /\ Refreshed(touched, paid)[i].status = StatusFor(invoice[i].total, paid[i])
              ELSE Refreshed(touched, paid)[i] = invoice[i]
<1>1. ASSUME NEW i \in Invoices, i \in touched, Live(i)
      PROVE  /\ Refreshed(touched, paid)[i] \in Invoice
             /\ Refreshed(touched, paid)[i].total = invoice[i].total
             /\ Refreshed(touched, paid)[i].due = invoice[i].due
             /\ Refreshed(touched, paid)[i].createdAt = invoice[i].createdAt
             /\ Refreshed(touched, paid)[i].status = StatusFor(invoice[i].total, paid[i])
  <2>1. invoice[i] \in Invoice
    BY <1>1 DEF TypeOK, Live, Issued
  <2>2. StatusFor(invoice[i].total, paid[i]) \in Statuses
    BY StatusTypes
  <2>3. Refreshed(touched, paid)[i] =
          [invoice[i] EXCEPT !.status = StatusFor(invoice[i].total, paid[i])]
    BY <1>1 DEF Refreshed
  <2> QED
    BY <2>1, <2>2, <2>3 DEF Invoice
<1>2. ASSUME NEW i \in Invoices, ~(i \in touched /\ Live(i))
      PROVE  Refreshed(touched, paid)[i] = invoice[i]
  BY <1>2 DEF Refreshed
<1>3. DOMAIN Refreshed(touched, paid) = Invoices
  BY DEF Refreshed
<1>4. ASSUME NEW i \in Invoices
      PROVE  Refreshed(touched, paid)[i] \in Invoice \cup {NoRow}
  BY <1>1, <1>2 DEF TypeOK
<1>5. Refreshed(touched, paid) \in [Invoices -> Invoice \cup {NoRow}]
  BY <1>3, <1>4 DEF Refreshed
<1> QED
  BY <1>1, <1>2, <1>5

LEMMA RecordMovesLadder ==
  ASSUME TypeOK, NEW k, NEW f, NEW amt, NEW alloc, Record(k, f, amt, alloc)
  PROVE  ladder' \in [Enrolled -> {"clear", "raised"}]
BY DEF TypeOK, Record

LEMMA RecordTypes ==
  ASSUME TypeOK, NEW k \in Keys, NEW f \in Families, NEW amt \in Nat,
         NEW alloc \in [Invoices -> Nat], RecordRows(k, f, amt, alloc),
         ladder' \in [Enrolled -> {"clear", "raised"}]
  PROVE  TypeOK'
<1>1. [family |-> f, amount |-> amt, alloc |-> alloc] \in Payment
  BY DEF Payment
<1>2. payment' \in [Keys -> Payment \cup {NoRow}]
  BY <1>1 DEF TypeOK, RecordRows
<1>3. invoice' \in [Invoices -> Invoice \cup {NoRow}]
  BY RefreshKeeps DEF RecordRows
<1> QED
  BY <1>2, <1>3 DEF TypeOK, RecordRows

LEMMA ReverseTypes ==
  ASSUME TypeOK, NEW k \in Keys, ReversePayment(k)
  PROVE  TypeOK'
<1>1. payment[k] \in Payment
  BY DEF TypeOK, ReversePayment
<1>2. [amount |-> payment[k].amount, alloc |-> payment[k].alloc] \in Reversal
  BY <1>1 DEF Payment, Reversal
<1>3. reversal' \in [Keys -> Reversal \cup {NoRow}]
  BY <1>2 DEF TypeOK, ReversePayment
<1>4. invoice' \in [Invoices -> Invoice \cup {NoRow}]
  BY RefreshKeeps DEF ReversePayment
<1> QED
  BY <1>3, <1>4 DEF TypeOK, ReversePayment

LEMMA GenerateTypes ==
  ASSUME TypeOK, NEW i \in Invoices, NEW terms \in Terms[i], GenerateForFamily(i, terms)
  PROVE  TypeOK'
<1> DEFINE row == [total |-> terms.total, due |-> terms.due, status |-> "open",
                   createdAt |-> Cardinality(BillsOf(i[1])) + 1]
<1>1. IsFiniteSet(BillsOf(i[1]))
  BY InvoicesFinite, FS_Subset DEF BillsOf
<1>2. Cardinality(BillsOf(i[1])) \in Nat
  BY <1>1, FS_CardinalityType
<1>3. row \in Invoice
  BY <1>2, TermsAreSound DEF Invoice, Statuses
<1>4. invoice' = [invoice EXCEPT ![i] = row]
  BY DEF GenerateForFamily
<1>5. invoice' \in [Invoices -> Invoice \cup {NoRow}]
  BY <1>3, <1>4 DEF TypeOK
<1> QED
  BY <1>5 DEF TypeOK, GenerateForFamily

LEMMA VoidTypes ==
  ASSUME TypeOK, NEW i \in Invoices, VoidInvoice(i)
  PROVE  TypeOK'
<1>1. invoice[i] \in Invoice
  BY DEF TypeOK, VoidInvoice, Live, Issued
<1>2. [invoice[i] EXCEPT !.status = "void"] \in Invoice
  BY <1>1 DEF Invoice, Statuses
<1>3. invoice' \in [Invoices -> Invoice \cup {NoRow}]
  BY <1>2 DEF TypeOK, VoidInvoice
<1> QED
  BY <1>3 DEF TypeOK, VoidInvoice

\* The rows of the ledger always have their types: every amount stored on a
\* payment, a reversal or an allocation is a natural number of cents.
THEOREM TypeCorrect == Spec => []TypeOK
<1>1. Init => TypeOK
  BY DEF Init, TypeOK
<1>2. TypeOK /\ [Next]_vars => TypeOK'
  <2> SUFFICES ASSUME TypeOK, [Next]_vars
               PROVE  TypeOK'
    OBVIOUS
  <2>1. CASE \E i \in Invoices : \E terms \in Terms[i] : GenerateForFamily(i, terms)
    BY <2>1, GenerateTypes
  <2>2. ASSUME NEW k \in Keys, NEW f \in Families, NEW amt \in Amounts, RecordAuto(k, f, amt)
        PROVE  TypeOK'
    <3>1. amt \in Nat
      BY PaymentsArePositive
    <3>2. OldestDueFirst(f, amt) \in [Invoices -> Nat]
      BY <3>1, LoopWithinBalance
    <3> QED
      BY <2>2, <3>1, <3>2, RecordTypes, RecordMovesLadder DEF RecordAuto, Record
  <2>3. ASSUME NEW k \in Keys, NEW f \in Families, NEW amt \in Amounts,
               NEW named \in SUBSET Invoices, NEW asked \in [named -> 1 .. amt],
               RecordExplicit(k, f, amt, asked)
        PROVE  TypeOK'
    <3>1. amt \in Nat
      BY PaymentsArePositive
    <3>2. AsAsked(asked) \in [Invoices -> Nat]
      BY <2>3, <3>1, AskedWithinBalance DEF RecordExplicit
    <3> QED
      BY <2>3, <3>1, <3>2, RecordTypes, RecordMovesLadder DEF RecordExplicit, Record
  <2>4. CASE \E k \in Keys : ReversePayment(k)
    BY <2>4, ReverseTypes
  <2>5. CASE \E i \in Invoices : VoidInvoice(i)
    BY <2>5, VoidTypes
  <2>6. CASE \E f \in Enrolled : AutopayMovesLadder(f)
    BY <2>6 DEF TypeOK, AutopayMovesLadder
  <2>7. CASE UNCHANGED vars
    BY <2>7 DEF TypeOK, vars
  <2> QED
    BY <2>1, <2>2, <2>3, <2>4, <2>5, <2>6, <2>7 DEF Next
<1> QED
  BY <1>1, <1>2, PTL DEF Spec

-----------------------------------------------------------------------------
(* The inductive invariant.  That no invoice is overpaid is not inductive by *)
(* itself: a reversal must take off an invoice what its payment put there    *)
(* (Mirrored), an invoice that is generated must find no money on it         *)
(* (NothingOnUnissued), and voiding must not strand any (VoidIsUnpaid).      *)

\* A reversal is the mirror image of a payment.
Mirrored ==
  \A k \in Keys : reversal[k] # NoRow =>
    /\ payment[k] # NoRow
    /\ reversal[k].amount = payment[k].amount
    /\ reversal[k].alloc = payment[k].alloc

\* Money is allocated to invoices that exist.
NothingOnUnissued ==
  \A k \in Keys, i \in Invoices :
    payment[k] # NoRow /\ payment[k].alloc[i] > 0 => Issued(i)

VoidIsUnpaid == \A i \in Invoices : Issued(i) /\ ~Live(i) => InvoicePaid(i) = 0

LedgerInv ==
  TypeOK /\ Mirrored /\ NothingOnUnissued /\ VoidIsUnpaid /\ NeverOverpaid /\ StatusMatchesMoney

\* What the payments that were not reversed hold on an invoice.
Held(i) ==
  [k \in Keys |-> IF payment[k] # NoRow /\ reversal[k] = NoRow THEN payment[k].alloc[i] ELSE 0]

LEMMA PaidIsHeld ==
  ASSUME TypeOK, Mirrored, NEW i \in Invoices
  PROVE  Held(i) \in [Keys -> Nat] /\ InvoicePaid(i) = SumOf(Held(i)) /\ InvoicePaid(i) \in Nat
<1> DEFINE on == [k \in Keys |-> Applied(k, i)]
           off == [k \in Keys |-> Restored(k, i)]
<1>1. on \in [Keys -> Nat] /\ off \in [Keys -> Nat]
  BY PaidTypes
<1>2. Held(i) \in [Keys -> Nat]
  BY DEF Held, TypeOK, Payment
<1>3. ASSUME NEW k \in Keys
      PROVE  on[k] = Held(i)[k] + off[k]
  <2>1. on[k] \in Nat /\ off[k] \in Nat
    BY <1>1
  <2>2. CASE reversal[k] = NoRow
    BY <2>1, <2>2 DEF Held, Applied, Restored
  <2>3. CASE reversal[k] # NoRow
    BY <2>1, <2>3 DEF Held, Applied, Restored, Mirrored
  <2> QED
    BY <2>2, <2>3
<1>4. SumOf(on) = SumOf(Held(i)) + SumOf(off)
  BY <1>1, <1>2, <1>3, FinitelyMany, SumAdd
<1>5. SumOf(Held(i)) \in Nat /\ SumOf(off) \in Nat
  BY <1>1, <1>2, FinitelyMany, SumIsNat
<1> QED
  BY <1>2, <1>4, <1>5 DEF InvoicePaid

LEMMA UnissuedUnpaid ==
  ASSUME TypeOK, Mirrored, NothingOnUnissued, NEW i \in Invoices, ~Issued(i)
  PROVE  InvoicePaid(i) = 0
<1>1. \A k \in Keys : Held(i)[k] = 0
  BY PaidIsHeld DEF Held, NothingOnUnissued, TypeOK, Payment
<1> QED
  BY <1>1, PaidIsHeld, FinitelyMany, SumZero

\* Recording adds to what is paid on each invoice exactly the allocation.
LEMMA RecordPays ==
  ASSUME TypeOK, NEW k \in Keys, NEW f \in Families, NEW amt \in Nat,
         NEW alloc \in [Invoices -> Nat], RecordRows(k, f, amt, alloc), NEW i \in Invoices
  PROVE  InvoicePaid(i)' = InvoicePaid(i) + alloc[i]
<1> DEFINE on == [q \in Keys |-> Applied(q, i)]
           on2 == [q \in Keys |-> IF q = k THEN alloc[i] ELSE Applied(q, i)]
           new == [q \in Keys |-> IF q = k THEN alloc[i] ELSE 0]
           off == [q \in Keys |-> Restored(q, i)]
<1>1. on \in [Keys -> Nat] /\ off \in [Keys -> Nat]
  BY PaidTypes
<1>2. on2 \in [Keys -> Nat] /\ new \in [Keys -> Nat]
  BY <1>1
<1>3. on[k] = 0
  BY DEF Applied, RecordRows
<1>4. \A q \in Keys : on2[q] = on[q] + new[q]
  BY <1>1, <1>3
<1>5. SumOf(on2) = SumOf(on) + SumOf(new)
  <2>1. \A a, b, c \in [Keys -> Nat] : (\A q \in Keys : a[q] = b[q] + c[q]) => SumOf(a) = SumOf(b) + SumOf(c)
    BY FinitelyMany, SumAdd
  <2>2. on2 \in [Keys -> Nat] /\ on \in [Keys -> Nat] /\ new \in [Keys -> Nat]
    BY <1>1, <1>2
  <2> HIDE DEF on, on2, new, off
  <2> QED
    BY <1>4, <2>1, <2>2
<1>6. SumOf(new) = new[k]
  BY <1>2, FinitelyMany, SumSingle
<1>7. ASSUME NEW q \in Keys
      PROVE  Applied(q, i)' = on2[q] /\ Restored(q, i)' = off[q]
  <2>1. [family |-> f, amount |-> amt, alloc |-> alloc] \in Payment
    BY DEF Payment
  <2>2. [family |-> f, amount |-> amt, alloc |-> alloc] # NoRow
    BY <2>1, NoRowIsNoRow
  <2>3. CASE q = k
    BY <2>2, <2>3 DEF TypeOK, RecordRows, Applied, Restored
  <2>4. CASE q # k
    BY <2>4 DEF TypeOK, RecordRows, Applied, Restored
  <2> QED
    BY <2>3, <2>4
<1>8. [q \in Keys |-> Applied(q, i)'] = on2 /\ [q \in Keys |-> Restored(q, i)'] = off
  BY <1>7
<1>9. InvoicePaid(i)' = SumOf(on2) - SumOf(off)
  BY <1>8 DEF InvoicePaid
<1>10. SumOf(on) \in Nat /\ SumOf(off) \in Nat /\ new[k] = alloc[i] /\ alloc[i] \in Nat
  BY <1>1, FinitelyMany, SumIsNat
<1> QED
  BY <1>5, <1>6, <1>9, <1>10 DEF InvoicePaid

\* Reversing takes off each invoice exactly what the payment put there.
LEMMA ReversePays ==
  ASSUME TypeOK, NEW k \in Keys, ReversePayment(k), NEW i \in Invoices
  PROVE  InvoicePaid(i)' = InvoicePaid(i) - payment[k].alloc[i]
<1> DEFINE on == [q \in Keys |-> Applied(q, i)]
           off == [q \in Keys |-> Restored(q, i)]
           off2 == [q \in Keys |-> IF q = k THEN payment[k].alloc[i] ELSE Restored(q, i)]
           new == [q \in Keys |-> IF q = k THEN payment[k].alloc[i] ELSE 0]
<1>0. payment[k] \in Payment
  BY DEF TypeOK, ReversePayment
<1>1. on \in [Keys -> Nat] /\ off \in [Keys -> Nat] /\ payment[k].alloc[i] \in Nat
  BY <1>0, PaidTypes DEF Payment
<1>2. off2 \in [Keys -> Nat] /\ new \in [Keys -> Nat]
  BY <1>1
<1>3. off[k] = 0
  BY DEF Restored, ReversePayment
<1>4. \A q \in Keys : off2[q] = off[q] + new[q]
  BY <1>1, <1>3
<1>5. SumOf(off2) = SumOf(off) + SumOf(new)
  BY <1>1, <1>2, <1>4, FinitelyMany, SumAdd
<1>6. SumOf(new) = new[k]
  BY <1>2, FinitelyMany, SumSingle
<1>7. ASSUME NEW q \in Keys
      PROVE  Applied(q, i)' = on[q] /\ Restored(q, i)' = off2[q]
  <2>1. [amount |-> payment[k].amount, alloc |-> payment[k].alloc] \in Reversal
    BY <1>0 DEF Payment, Reversal
  <2>2. [amount |-> payment[k].amount, alloc |-> payment[k].alloc] # NoRow
    BY <2>1, NoRowIsNoRow
  <2>3. CASE q = k
    BY <2>2, <2>3 DEF TypeOK, ReversePayment, Applied, Restored
  <2>4. CASE q # k
    BY <2>4 DEF TypeOK, ReversePayment, Applied, Restored
  <2> QED
    BY <2>3, <2>4
<1>8. [q \in Keys |-> Applied(q, i)'] = on /\ [q \in Keys |-> Restored(q, i)'] = off2
  BY <1>7
<1>9. InvoicePaid(i)' = SumOf(on) - SumOf(off2)
  BY <1>8 DEF InvoicePaid
<1>10. SumOf(on) \in Nat /\ SumOf(off) \in Nat /\ new[k] = payment[k].alloc[i]
  BY <1>1, FinitelyMany, SumIsNat
<1> QED
  BY <1>1, <1>5, <1>6, <1>9, <1>10 DEF InvoicePaid

\* A recording keeps the invariant if what it allocates goes to live invoices
\* and stays within their balances.
LEMMA RecordKeeps ==
  ASSUME LedgerInv, NEW k \in Keys, NEW f \in Families, NEW amt \in Nat,
         NEW alloc \in [Invoices -> Nat], RecordRows(k, f, amt, alloc),
         ladder' \in [Enrolled -> {"clear", "raised"}],
         \A i \in Invoices : alloc[i] > 0 => Live(i) /\ alloc[i] <= Balance(i)
  PROVE  LedgerInv'
<1> USE DEF LedgerInv
<1>1. TypeOK'
  BY RecordTypes
<1>2. \A i \in Invoices : InvoicePaid(i)' = InvoicePaid(i) + alloc[i] /\ InvoicePaid(i) \in Nat
  BY RecordPays, PaidIsHeld
<1>3. payment' = [payment EXCEPT ![k] = [family |-> f, amount |-> amt, alloc |-> alloc]]
      /\ payment[k] = NoRow /\ reversal' = reversal
  BY DEF RecordRows
<1>4. [family |-> f, amount |-> amt, alloc |-> alloc] # NoRow
  BY NoRowIsNoRow DEF Payment
<1>5. Mirrored'
  BY <1>3, <1>4 DEF Mirrored, TypeOK
<1>6. ASSUME NEW i \in Invoices, Live(i)
      PROVE  /\ Live(i)' /\ Issued(i)' /\ invoice'[i].total = invoice[i].total
             /\ invoice'[i].status = StatusFor(invoice'[i].total, InvoicePaid(i)')
             /\ InvoicePaid(i)' \in 0 .. invoice'[i].total
  <2>1. invoice[i] \in Invoice /\ Issued(i) /\ invoice[i].status # "void"
    BY <1>6 DEF TypeOK, Live, Issued
  <2>2. CASE alloc[i] > 0
    <3>1. /\ invoice'[i] \in Invoice
          /\ invoice'[i].total = invoice[i].total
          /\ invoice'[i].status = StatusFor(invoice[i].total, InvoicePaid(i) + alloc[i])
      BY <1>6, <2>2, RefreshKeeps DEF RecordRows
    <3>2. invoice'[i] # NoRow /\ invoice'[i].status # "void"
      BY <3>1, NoRowIsNoRow DEF StatusFor
    <3>3. alloc[i] <= invoice[i].total - InvoicePaid(i)
      BY <2>2 DEF Balance
    <3> QED
      BY <1>2, <2>1, <3>1, <3>2, <3>3 DEF Live, Issued, Invoice
  <2>3. CASE alloc[i] = 0
    <3>1. invoice'[i] = invoice[i]
      BY <2>3, RefreshKeeps DEF RecordRows
    <3>2. InvoicePaid(i)' = InvoicePaid(i)
      BY <1>2, <2>3
    <3> QED
      BY <1>6, <2>1, <3>1, <3>2 DEF Live, Issued, StatusMatchesMoney, NeverOverpaid
  <2> QED
    BY <2>2, <2>3
<1>7. ASSUME NEW i \in Invoices, ~Live(i)
      PROVE  invoice'[i] = invoice[i] /\ InvoicePaid(i)' = InvoicePaid(i)
  <2>1. alloc[i] = 0
    BY <1>7
  <2> QED
    BY <1>2, <1>7, <2>1, RefreshKeeps DEF RecordRows
<1>8. VoidIsUnpaid'
  BY <1>6, <1>7 DEF VoidIsUnpaid, Live, Issued
<1>9. NeverOverpaid'
  BY <1>6, <1>7 DEF NeverOverpaid, Live, Issued
<1>10. StatusMatchesMoney'
  BY <1>6, <1>7 DEF StatusMatchesMoney, Live, Issued
<1>11. NothingOnUnissued'
  <2> SUFFICES ASSUME NEW q \in Keys, NEW i \in Invoices, payment'[q] # NoRow, payment'[q].alloc[i] > 0
               PROVE  Issued(i)'
    BY DEF NothingOnUnissued
  <2>1. CASE q = k
    BY <1>3, <1>6, <2>1 DEF TypeOK
  <2>2. CASE q # k
    <3>1. Issued(i)
      BY <1>3, <2>2 DEF NothingOnUnissued, TypeOK
    <3> QED
      BY <1>6, <1>7, <3>1 DEF Issued
  <2> QED
    BY <2>1, <2>2
<1> QED
  BY <1>1, <1>5, <1>8, <1>9, <1>10, <1>11

LEMMA ReverseKeeps ==
  ASSUME LedgerInv, NEW k \in Keys, ReversePayment(k)
  PROVE  LedgerInv'
<1> USE DEF LedgerInv
<1> DEFINE alloc == payment[k].alloc
<1>1. TypeOK'
  BY ReverseTypes
<1>2. payment' = payment /\ payment[k] # NoRow /\ payment[k] \in Payment
      /\ reversal' = [reversal EXCEPT ![k] = [amount |-> payment[k].amount, alloc |-> alloc]]
  BY DEF ReversePayment, TypeOK
<1>3. Mirrored'
  BY <1>2 DEF Mirrored, TypeOK
<1>4. alloc \in [Invoices -> Nat]
  BY <1>2 DEF Payment
<1>5. \A i \in Invoices : /\ InvoicePaid(i)' = InvoicePaid(i) - alloc[i]
                          /\ InvoicePaid(i) \in Nat /\ InvoicePaid(i)' \in Nat
  <2> SUFFICES ASSUME NEW i \in Invoices
               PROVE  /\ InvoicePaid(i)' = InvoicePaid(i) - alloc[i]
                      /\ InvoicePaid(i) \in Nat /\ alloc[i] <= InvoicePaid(i)
    BY <1>4
  <2>1. Held(i) \in [Keys -> Nat] /\ InvoicePaid(i) = SumOf(Held(i)) /\ InvoicePaid(i) \in Nat
    BY PaidIsHeld
  <2>2. Held(i)[k] = alloc[i]
    BY <1>2 DEF Held, ReversePayment
  <2>3. Held(i)[k] <= SumOf(Held(i))
    BY <2>1, FinitelyMany, SumAtLeast
  <2> QED
    BY <2>1, <2>2, <2>3, ReversePays
<1>6. ASSUME NEW i \in Invoices, Live(i)
      PROVE  /\ Live(i)' /\ Issued(i)' /\ invoice'[i].total = invoice[i].total
             /\ invoice'[i].status = StatusFor(invoice'[i].total, InvoicePaid(i)')
             /\ InvoicePaid(i)' \in 0 .. invoice'[i].total
  <2>1. invoice[i] \in Invoice /\ Issued(i) /\ invoice[i].status # "void"
    BY <1>6 DEF TypeOK, Live, Issued
  <2>2. CASE alloc[i] > 0
    <3>1. /\ invoice'[i] \in Invoice
          /\ invoice'[i].total = invoice[i].total
          /\ invoice'[i].status = StatusFor(invoice[i].total, InvoicePaid(i) - alloc[i])
      BY <1>6, <2>2, RefreshKeeps DEF ReversePayment
    <3>2. invoice'[i] # NoRow /\ invoice'[i].status # "void"
      BY <3>1, NoRowIsNoRow DEF StatusFor
    <3>3. InvoicePaid(i) <= invoice[i].total
      BY <2>1 DEF NeverOverpaid
    <3> QED
      BY <1>4, <1>5, <2>1, <3>1, <3>2, <3>3 DEF Live, Issued, Invoice
  <2>3. CASE alloc[i] = 0
    <3>1. invoice'[i] = invoice[i]
      BY <2>3, RefreshKeeps DEF ReversePayment
    <3>2. InvoicePaid(i)' = InvoicePaid(i)
      BY <1>5, <2>3
    <3> QED
      BY <1>6, <2>1, <3>1, <3>2 DEF Live, Issued, StatusMatchesMoney, NeverOverpaid
  <2> QED
    BY <1>4, <2>2, <2>3
<1>7. ASSUME NEW i \in Invoices, ~Live(i)
      PROVE  invoice'[i] = invoice[i] /\ InvoicePaid(i)' = InvoicePaid(i)
  <2>1. invoice'[i] = invoice[i]
    BY <1>7, RefreshKeeps DEF ReversePayment
  <2>2. InvoicePaid(i) = 0
    BY <1>7, UnissuedUnpaid DEF VoidIsUnpaid
  <2>3. InvoicePaid(i)' = 0
    BY <1>4, <1>5, <2>2
  <2> QED
    BY <2>1, <2>2, <2>3
<1>8. VoidIsUnpaid'
  BY <1>6, <1>7 DEF VoidIsUnpaid, Live, Issued
<1>9. NeverOverpaid'
  BY <1>6, <1>7 DEF NeverOverpaid, Live, Issued
<1>10. StatusMatchesMoney'
  BY <1>6, <1>7 DEF StatusMatchesMoney, Live, Issued
<1>11. NothingOnUnissued'
  BY <1>2, <1>6, <1>7 DEF NothingOnUnissued, Issued
<1> QED
  BY <1>1, <1>3, <1>8, <1>9, <1>10, <1>11

LEMMA GenerateKeeps ==
  ASSUME LedgerInv, NEW i \in Invoices, NEW terms \in Terms[i], GenerateForFamily(i, terms)
  PROVE  LedgerInv'
<1> USE DEF LedgerInv
<1> DEFINE row == [total |-> terms.total, due |-> terms.due, status |-> "open",
                   createdAt |-> Cardinality(BillsOf(i[1])) + 1]
<1>1. TypeOK'
  BY GenerateTypes
<1>2. /\ invoice' = [invoice EXCEPT ![i] = row] /\ invoice[i] = NoRow
      /\ payment' = payment /\ reversal' = reversal
  BY DEF GenerateForFamily, Issued
<1>3. ASSUME NEW j \in Invoices
      PROVE  InvoicePaid(j)' = InvoicePaid(j)
  BY <1>2 DEF InvoicePaid, Applied, Restored
<1>4. InvoicePaid(i) = 0
  BY <1>2, UnissuedUnpaid DEF Issued
<1>5. invoice'[i] = row /\ \A j \in Invoices : j # i => invoice'[j] = invoice[j]
  BY <1>2 DEF TypeOK
<1>6. row.total \in Nat /\ row.status = StatusFor(row.total, 0) /\ row.status # "void"
  BY TermsAreSound DEF StatusFor
<1>7. Mirrored'
  BY <1>2 DEF Mirrored
<1>8. NothingOnUnissued'
  BY <1>2, <1>5, UnissuedUnpaid DEF NothingOnUnissued, Issued
<1>9. VoidIsUnpaid'
  BY <1>3, <1>5, <1>6 DEF VoidIsUnpaid, Live, Issued
<1>10. NeverOverpaid'
  BY <1>3, <1>4, <1>5, <1>6 DEF NeverOverpaid, Issued
<1>11. StatusMatchesMoney'
  BY <1>3, <1>4, <1>5, <1>6 DEF StatusMatchesMoney, Live, Issued
<1> QED
  BY <1>1, <1>7, <1>8, <1>9, <1>10, <1>11

LEMMA VoidKeeps ==
  ASSUME LedgerInv, NEW i \in Invoices, VoidInvoice(i)
  PROVE  LedgerInv'
<1> USE DEF LedgerInv
<1>1. TypeOK'
  BY VoidTypes
<1>2. /\ invoice' = [invoice EXCEPT ![i].status = "void"] /\ invoice[i] \in Invoice
      /\ InvoicePaid(i) = 0 /\ payment' = payment /\ reversal' = reversal
  BY DEF VoidInvoice, Live, Issued, TypeOK
<1>3. ASSUME NEW j \in Invoices
      PROVE  InvoicePaid(j)' = InvoicePaid(j)
  BY <1>2 DEF InvoicePaid, Applied, Restored
<1>4. /\ invoice'[i].total = invoice[i].total /\ invoice'[i].status = "void" /\ invoice'[i] # NoRow
      /\ \A j \in Invoices : j # i => invoice'[j] = invoice[j]
  <2>1. [invoice[i] EXCEPT !.status = "void"] \in Invoice
    BY <1>2 DEF Invoice, Statuses
  <2> QED
    BY <1>2, <2>1, NoRowIsNoRow DEF TypeOK, Invoice
<1>5. Mirrored'
  BY <1>2 DEF Mirrored
<1>6. NothingOnUnissued'
  BY <1>2, <1>4 DEF NothingOnUnissued, Issued
<1>7. VoidIsUnpaid'
  BY <1>2, <1>3, <1>4 DEF VoidIsUnpaid, Live, Issued
<1>8. NeverOverpaid'
  BY <1>2, <1>3, <1>4, NoRowIsNoRow DEF NeverOverpaid, Issued
<1>9. StatusMatchesMoney'
  BY <1>3, <1>4 DEF StatusMatchesMoney, Live, Issued
<1> QED
  BY <1>1, <1>5, <1>6, <1>7, <1>8, <1>9

\* The ladder is no part of the books.
LEMMA LadderKeeps ==
  ASSUME LedgerInv, UNCHANGED <<invoice, payment, reversal>>,
         ladder' \in [Enrolled -> {"clear", "raised"}]
  PROVE  LedgerInv'
<1>1. \A i \in Invoices : InvoicePaid(i)' = InvoicePaid(i)
  BY DEF InvoicePaid, Applied, Restored
<1> QED
  BY <1>1 DEF LedgerInv, TypeOK, Mirrored, NothingOnUnissued, VoidIsUnpaid,
     NeverOverpaid, StatusMatchesMoney, Live, Issued

LEMMA NextKeeps == LedgerInv /\ [Next]_vars => LedgerInv'
<1> SUFFICES ASSUME LedgerInv, [Next]_vars
             PROVE  LedgerInv'
  OBVIOUS
<1>1. CASE \E i \in Invoices : \E terms \in Terms[i] : GenerateForFamily(i, terms)
  BY <1>1, GenerateKeeps
<1>2. ASSUME NEW k \in Keys, NEW f \in Families, NEW amt \in Amounts, RecordAuto(k, f, amt)
      PROVE  LedgerInv'
  <2>1. amt \in Nat
    BY PaymentsArePositive
  <2> QED
    BY <1>2, <2>1, LoopWithinBalance, RecordKeeps, RecordMovesLadder
       DEF RecordAuto, Record, LedgerInv
<1>3. ASSUME NEW k \in Keys, NEW f \in Families, NEW amt \in Amounts,
             NEW named \in SUBSET Invoices, NEW asked \in [named -> 1 .. amt],
             RecordExplicit(k, f, amt, asked)
      PROVE  LedgerInv'
  <2>1. amt \in Nat
    BY PaymentsArePositive
  <2> QED
    BY <1>3, <2>1, AskedWithinBalance, RecordKeeps, RecordMovesLadder
       DEF RecordExplicit, Record, LedgerInv
<1>4. CASE \E k \in Keys : ReversePayment(k)
  BY <1>4, ReverseKeeps
<1>5. CASE \E i \in Invoices : VoidInvoice(i)
  BY <1>5, VoidKeeps
<1>6. CASE (\E f \in Enrolled : AutopayMovesLadder(f)) \/ UNCHANGED vars
  <2>1. UNCHANGED <<invoice, payment, reversal>>
    BY <1>6 DEF AutopayMovesLadder, vars
  <2>2. ladder' \in [Enrolled -> {"clear", "raised"}]
    BY <1>6 DEF AutopayMovesLadder, vars, LedgerInv, TypeOK
  <2> QED
    BY <2>1, <2>2, LadderKeeps
<1> QED
  BY <1>1, <1>2, <1>3, <1>4, <1>5, <1>6 DEF Next

LEMMA InvHolds == Spec => []LedgerInv
<1>1. Init => LedgerInv
  BY DEF Init, LedgerInv, TypeOK, Mirrored, NothingOnUnissued, VoidIsUnpaid, NeverOverpaid,
     StatusMatchesMoney, Live, Issued
<1> QED
  BY <1>1, NextKeeps, PTL DEF Spec

\* However payments, reversals and voids interleave, no invoice is paid beyond
\* its total nor refunded below zero.
THEOREM NeverOverpaidHolds == Spec => []NeverOverpaid
BY InvHolds, PTL DEF LedgerInv

\* The stored status of a live invoice is always the one its money gives: no
\* operation that moves money on an invoice forgets to refresh it.
THEOREM StatusHolds == Spec => []StatusMatchesMoney
BY InvHolds, PTL DEF LedgerInv

LEMMA VoidIsClear == LedgerInv => VoidHoldsNoMoney
<1> SUFFICES ASSUME LedgerInv, NEW i \in Invoices, Issued(i), ~Live(i),
                    NEW k \in Keys, Applied(k, i) > 0, reversal[k] = NoRow
             PROVE  FALSE
  BY DEF VoidHoldsNoMoney
<1>1. InvoicePaid(i) = 0
  BY DEF LedgerInv, VoidIsUnpaid
<1>2. Held(i) \in [Keys -> Nat] /\ SumOf(Held(i)) = 0
  BY <1>1, PaidIsHeld DEF LedgerInv
<1>3. Held(i)[k] = 0
  BY <1>2, FinitelyMany, SumZero
<1>4. payment[k] # NoRow /\ payment[k].alloc[i] = Applied(k, i)
  BY DEF Applied
<1> QED
  BY <1>3, <1>4 DEF Held

\* Voiding an invoice never strands a payment on it, nor can a later one land there.
THEOREM VoidHolds == Spec => []VoidHoldsNoMoney
BY VoidIsClear, InvHolds, PTL

-----------------------------------------------------------------------------
(* The order of the loop.  It is total on a family's invoices because they   *)
(* are numbered as they are generated, so the loop takes them one by one and *)
(* never more than the payment.                                              *)

\* The invoices of a family bear different numbers, and none above their count.
Numbered ==
  \A i \in Invoices : Issued(i) =>
    /\ invoice[i].createdAt <= Cardinality(BillsOf(i[1]))
    /\ \A j \in Invoices :
         Issued(j) /\ j[1] = i[1] /\ invoice[j].createdAt = invoice[i].createdAt => j = i

LEMMA BeforeIsAnOrder ==
  ASSUME TypeOK, NEW i \in Invoices, NEW j \in Invoices, NEW k \in Invoices,
         Issued(i), Issued(j), Issued(k)
  PROVE  /\ ~Before(i, i)
         /\ Before(i, j) /\ Before(j, k) => Before(i, k)
<1>1. \A l \in {i, j, k} : /\ invoice[l].createdAt \in Nat
                           /\ invoice[l].due \in Nat \cup {NoDate}
  BY DEF TypeOK, Issued, Invoice
<1>2. NoDate \notin Nat
  BY TermsAreSound
<1> QED
  BY <1>1, <1>2 DEF Before

LEMMA BeforeIsTotal ==
  ASSUME TypeOK, Numbered, NEW f, NEW i \in BillsOf(f), NEW j \in BillsOf(f), i # j
  PROVE  Before(i, j) \/ Before(j, i)
<1>1. invoice[i].createdAt # invoice[j].createdAt
  BY DEF Numbered, BillsOf
<1>2. \A l \in {i, j} : invoice[l].createdAt \in Nat /\ invoice[l].due \in Nat \cup {NoDate}
  BY DEF TypeOK, Issued, Invoice, BillsOf
<1>3. NoDate \notin Nat
  BY TermsAreSound
<1> QED
  BY <1>1, <1>2, <1>3 DEF Before

\* What the invoices before i have room for.
RoomOf(f, i) == [j \in Invoices |-> IF j \in BillsOf(f) /\ Before(j, i) THEN Room(j) ELSE 0]

LEMMA RoomBeforeIs ==
  ASSUME TypeOK, NEW f, NEW i \in Invoices
  PROVE  /\ RoomOf(f, i) \in [Invoices -> Nat]
         /\ RoomBefore(f, i) = SumOf(RoomOf(f, i)) /\ RoomBefore(f, i) \in Nat
<1>1. RoomOf(f, i) \in [Invoices -> Nat]
  BY RoomTypes DEF RoomOf
<1> QED
  BY <1>1, InvoicesFinite, SumIsNat DEF RoomBefore, RoomOf

\* Whatever comes before i comes before what i comes before, and so does i.
LEMMA RoomBeforeGrows ==
  ASSUME TypeOK, NEW f, NEW i \in BillsOf(f), NEW j \in BillsOf(f), Before(i, j)
  PROVE  RoomBefore(f, i) + Room(i) <= RoomBefore(f, j)
<1> DEFINE upto == [k \in Invoices |-> IF k = i THEN Room(i) ELSE RoomOf(f, i)[k]]
<1>1. /\ i \in Invoices /\ j \in Invoices /\ Room(i) \in Nat
      /\ RoomOf(f, i) \in [Invoices -> Nat] /\ RoomOf(f, j) \in [Invoices -> Nat]
  BY RoomTypes, RoomBeforeIs DEF BillsOf
<1>2. upto \in [Invoices -> Nat]
  BY <1>1
<1>3. ASSUME NEW k \in Invoices
      PROVE  upto[k] <= RoomOf(f, j)[k]
  <2>1. CASE k = i
    BY <1>1, <2>1 DEF RoomOf
  <2>2. CASE k # i /\ k \in BillsOf(f) /\ Before(k, i)
    <3>1. Before(k, j)
      BY <1>1, <2>2, BeforeIsAnOrder DEF BillsOf
    <3>2. Room(k) \in Nat
      BY RoomTypes
    <3> QED
      BY <1>1, <2>2, <3>1, <3>2 DEF RoomOf
  <2>3. CASE k # i /\ ~(k \in BillsOf(f) /\ Before(k, i))
    <3>1. upto[k] = 0
      BY <2>3 DEF RoomOf
    <3>2. RoomOf(f, j)[k] \in Nat
      BY <1>1
    <3> QED
      BY <3>1, <3>2
  <2> QED
    BY <2>1, <2>2, <2>3
<1>4. SumOf(upto) <= SumOf(RoomOf(f, j))
  BY <1>1, <1>2, <1>3, InvoicesFinite, SumMonotone
<1>5. RoomOf(f, i)[i] = 0
  BY <1>1, BeforeIsAnOrder DEF RoomOf, BillsOf
<1>6. SumOf(upto) = SumOf(RoomOf(f, i)) - RoomOf(f, i)[i] + upto[i]
  <2>1. \A k \in Invoices : k # i => upto[k] = RoomOf(f, i)[k]
    OBVIOUS
  <2> HIDE DEF upto
  <2> QED BY <1>1, <1>2, <2>1, InvoicesFinite, SumMoves
<1>7. upto[i] = Room(i)
  BY <1>1
<1>8. RoomBefore(f, i) = SumOf(RoomOf(f, i)) /\ RoomBefore(f, j) = SumOf(RoomOf(f, j))
      /\ RoomBefore(f, i) \in Nat /\ RoomBefore(f, j) \in Nat
  BY <1>1, RoomBeforeIs
<1> HIDE DEF upto
<1> QED
  BY <1>1, <1>4, <1>5, <1>6, <1>7, <1>8

\* The loop places no more than the payment: the last invoice it reaches takes
\* at most what those before it have left.
LEMMA LoopWithinPayment ==
  ASSUME TypeOK, Numbered, NEW f \in Families, NEW amt \in Nat
  PROVE  SumOf(OldestDueFirst(f, amt)) <= amt
<1> DEFINE A == OldestDueFirst(f, amt)
           Reached == {i \in BillsOf(f) : A[i] > 0}
           T == {RoomBefore(f, i) : i \in Reached}
<1>1. A \in [Invoices -> Nat] /\ \A i \in Invoices : i \notin BillsOf(f) => A[i] = 0
  BY LoopWithinBalance DEF OldestDueFirst
<1>2. ASSUME NEW i \in BillsOf(f)
      PROVE  /\ i \in Invoices /\ RoomBefore(f, i) \in Nat /\ Room(i) \in Nat
             /\ A[i] <= Room(i)
             /\ A[i] > 0 => RoomBefore(f, i) < amt /\ A[i] <= amt - RoomBefore(f, i)
  <2>1. i \in Invoices /\ RoomBefore(f, i) \in Nat /\ Room(i) \in Nat
    BY RoomBeforeIs, RoomTypes DEF BillsOf
  <2>2. A[i] = Lesser(Room(i), LessBy(amt, RoomBefore(f, i)))
    BY <2>1 DEF OldestDueFirst
  <2> HIDE DEF A
  <2> QED
    BY <2>1, <2>2 DEF Lesser, LessBy
<1> HIDE DEF A
<1>3. CASE Reached = {}
  <2>1. \A i \in Invoices : A[i] = 0
    BY <1>1, <1>3
  <2>2. SumOf(A) = 0
    BY <1>1, <2>1, InvoicesFinite, SumZero
  <2> QED
    BY <2>2 DEF A
<1>4. CASE Reached # {}
  <2>1. T \subseteq Nat /\ T # {} /\ \A n \in T : n <= amt
    BY <1>2, <1>4
  <2>2. PICK n \in T : \A m \in T : m <= n
    <3> HIDE DEF T
    <3> QED BY <2>1, GreatestNat
  <2>3. PICK i \in Reached : \A j \in Reached : RoomBefore(f, j) <= RoomBefore(f, i)
    BY <2>2
  <2>4. ASSUME NEW j \in Reached, j # i
        PROVE  Before(j, i)
    <3>1. CASE Before(i, j)
      <4>1. RoomBefore(f, i) + Room(i) <= RoomBefore(f, j)
        BY <3>1, RoomBeforeGrows
      <4> QED
        BY <1>1, <1>2, <2>3, <4>1
    <3> QED
      BY <2>4, <3>1, BeforeIsTotal
  <2> DEFINE g == [j \in Invoices |-> IF j = i THEN A[i] ELSE RoomOf(f, i)[j]]
  <2>5. RoomOf(f, i) \in [Invoices -> Nat] /\ RoomBefore(f, i) = SumOf(RoomOf(f, i)) /\ i \in Invoices
    BY <1>2, RoomBeforeIs
  <2>6. g \in [Invoices -> Nat]
    BY <1>1, <2>5
  <2>7. ASSUME NEW j \in Invoices
        PROVE  A[j] <= g[j]
    <3>1. CASE j = i
      BY <1>1, <3>1
    <3>2. CASE j # i /\ j \in Reached
      BY <1>2, <2>4, <3>2 DEF RoomOf
    <3>3. CASE j # i /\ j \notin Reached
      <4>1. A[j] = 0
        BY <1>1, <3>3
      <4> QED
        BY <2>6, <4>1
    <3> QED
      BY <3>1, <3>2, <3>3
  <2>8. SumOf(A) <= SumOf(g)
    BY <1>1, <2>6, <2>7, InvoicesFinite, SumMonotone
  <2>9. RoomOf(f, i)[i] = 0
    BY <2>5, BeforeIsAnOrder DEF RoomOf, BillsOf
  <2>10. SumOf(g) = SumOf(RoomOf(f, i)) - RoomOf(f, i)[i] + g[i]
    <3>1. \A j \in Invoices : j # i => g[j] = RoomOf(f, i)[j]
      OBVIOUS
    <3> HIDE DEF g
    <3> QED BY <2>5, <2>6, <3>1, InvoicesFinite, SumMoves
  <2>11. g[i] = A[i] /\ A[i] \in Nat
    BY <1>1, <2>5
  <2>12. SumOf(A) \in Nat
    BY <1>1, InvoicesFinite, SumIsNat
  <2>13. SumOf(A) <= amt
    <3> HIDE DEF g
    <3> QED BY <1>2, <2>3, <2>5, <2>8, <2>9, <2>10, <2>11, <2>12
  <2> QED
    BY <2>13 DEF A
<1> QED
  BY <1>3, <1>4

\* A parent's list, from the top: an invoice is reached when those before it are
\* paid in full.
LEMMA LoopIsInOrder ==
  ASSUME TypeOK, NEW f \in Families, NEW amt \in Nat, NEW i \in BillsOf(f), NEW j \in BillsOf(f),
         Before(i, j), OldestDueFirst(f, amt)[j] > 0
  PROVE  OldestDueFirst(f, amt)[i] = Room(i)
<1>1. i \in Invoices /\ j \in Invoices /\ Room(i) \in Nat /\ Room(j) \in Nat
  BY RoomTypes DEF BillsOf
<1>2. RoomBefore(f, i) \in Nat /\ RoomBefore(f, j) \in Nat
  BY <1>1, RoomBeforeIs
<1>3. RoomBefore(f, i) + Room(i) <= RoomBefore(f, j)
  BY RoomBeforeGrows
<1>4. /\ OldestDueFirst(f, amt)[i] = Lesser(Room(i), LessBy(amt, RoomBefore(f, i)))
      /\ OldestDueFirst(f, amt)[j] = Lesser(Room(j), LessBy(amt, RoomBefore(f, j)))
  BY <1>1 DEF OldestDueFirst
<1>5. RoomBefore(f, j) < amt
  BY <1>1, <1>2, <1>4 DEF Lesser, LessBy
<1> QED
  BY <1>1, <1>2, <1>3, <1>4, <1>5 DEF Lesser, LessBy

\* What the caller dictated is what is allocated.
LEMMA AskedWithinPayment ==
  ASSUME NEW f \in Families, NEW amt \in Nat, NEW named \in SUBSET Invoices,
         NEW asked \in [named -> 1 .. amt], Allowed(f, amt, asked)
  PROVE  SumOf(AsAsked(asked)) <= amt
<1>1. asked \in [named -> Nat] /\ named \subseteq Invoices
  OBVIOUS
<1>2. /\ AsAsked(asked) \in [Invoices -> Nat]
      /\ \A i \in named : AsAsked(asked)[i] = asked[i]
      /\ \A i \in Invoices \ named : AsAsked(asked)[i] = 0
  BY DEF AsAsked
<1>3. SumOf(AsAsked(asked)) = SumOf(asked)
  BY <1>1, <1>2, SumWider
<1> QED
  BY <1>3 DEF Allowed

-----------------------------------------------------------------------------
(* What is allocated is covered by the payment *)

CoveredInv == LedgerInv /\ Numbered /\ AllocationsAreCovered

\* Nothing but the generation of an invoice changes which invoices there are.
LEMMA NumbersKept ==
  ASSUME Numbered,
         \A i \in Invoices : /\ Issued(i)' = Issued(i)
                             /\ Issued(i) => invoice'[i].createdAt = invoice[i].createdAt
  PROVE  Numbered'
<1>1. \A f : BillsOf(f)' = BillsOf(f)
  BY DEF BillsOf
<1> QED
  BY <1>1 DEF Numbered

LEMMA CoveredKept ==
  ASSUME AllocationsAreCovered, payment' = payment, \A i \in Invoices : Issued(i) => Issued(i)'
  PROVE  AllocationsAreCovered'
BY DEF AllocationsAreCovered

LEMMA RefreshIssues ==
  ASSUME TypeOK, NEW touched, NEW paid, invoice' = Refreshed(touched, paid), NEW i \in Invoices
  PROVE  /\ Issued(i)' = Issued(i)
         /\ Issued(i) => /\ invoice'[i].total = invoice[i].total
                         /\ invoice'[i].due = invoice[i].due
                         /\ invoice'[i].createdAt = invoice[i].createdAt
                         /\ Live(i)' = Live(i)
<1>1. CASE i \in touched /\ Live(i)
  <2>1. /\ invoice'[i] \in Invoice
        /\ invoice'[i].total = invoice[i].total
        /\ invoice'[i].due = invoice[i].due
        /\ invoice'[i].createdAt = invoice[i].createdAt
        /\ invoice'[i].status = StatusFor(invoice[i].total, paid[i])
    BY <1>1, RefreshKeeps
  <2>2. invoice'[i] # NoRow /\ invoice'[i].status # "void" /\ Issued(i) /\ Live(i)
    BY <1>1, <2>1, NoRowIsNoRow DEF StatusFor, Live
  <2> QED
    BY <2>1, <2>2 DEF Issued, Live
<1>2. CASE ~(i \in touched /\ Live(i))
  <2>1. invoice'[i] = invoice[i]
    BY <1>2, RefreshKeeps
  <2> QED
    BY <2>1 DEF Issued, Live
<1> QED
  BY <1>1, <1>2

LEMMA RecordCovered ==
  ASSUME CoveredInv, NEW k \in Keys, NEW f \in Families, NEW amt \in Nat,
         NEW alloc \in [Invoices -> Nat], RecordRows(k, f, amt, alloc),
         SumOf(alloc) <= amt,
         \A i \in Invoices : alloc[i] > 0 => i[1] = f /\ Live(i)
  PROVE  Numbered' /\ AllocationsAreCovered'
<1> USE DEF CoveredInv, LedgerInv
<1>1. \A i \in Invoices : /\ Issued(i)' = Issued(i)
                          /\ Issued(i) => invoice'[i].createdAt = invoice[i].createdAt
  BY RefreshIssues DEF RecordRows
<1>2. payment' = [payment EXCEPT ![k] = [family |-> f, amount |-> amt, alloc |-> alloc]]
  BY DEF RecordRows
<1>3. ASSUME NEW q \in Keys, payment'[q] # NoRow
      PROVE  /\ SumOf(payment'[q].alloc) <= payment'[q].amount
             /\ \A i \in Invoices : payment'[q].alloc[i] > 0 =>
                  i[1] = payment'[q].family /\ Issued(i)'
  <2>1. CASE q = k
    <3>1. payment'[q].alloc = alloc /\ payment'[q].amount = amt /\ payment'[q].family = f
      BY <1>2, <2>1 DEF TypeOK
    <3> QED
      BY <1>1, <3>1 DEF Live
  <2>2. CASE q # k
    <3>1. payment'[q] = payment[q]
      BY <1>2, <2>2 DEF TypeOK
    <3> QED
      BY <1>1, <1>3, <3>1 DEF AllocationsAreCovered
  <2> QED
    BY <2>1, <2>2
<1> QED
  BY <1>1, <1>3, NumbersKept DEF AllocationsAreCovered

LEMMA GenerateCovered ==
  ASSUME CoveredInv, NEW i \in Invoices, NEW terms \in Terms[i], GenerateForFamily(i, terms)
  PROVE  Numbered' /\ AllocationsAreCovered'
<1> USE DEF CoveredInv, LedgerInv
<1> DEFINE n == Cardinality(BillsOf(i[1]))
           row == [total |-> terms.total, due |-> terms.due, status |-> "open", createdAt |-> n + 1]
<1>1. /\ ~Issued(i) /\ payment' = payment
      /\ invoice' = [invoice EXCEPT ![i] = row]
  BY DEF GenerateForFamily
<1>2. row.createdAt = n + 1
  OBVIOUS
<1>3. IsFiniteSet(BillsOf(i[1])) /\ n \in Nat
  <2>1. IsFiniteSet(BillsOf(i[1]))
    BY InvoicesFinite, FS_Subset DEF BillsOf
  <2> QED
    BY <2>1, FS_CardinalityType
<1>4. row # NoRow
  <2>1. row \in Invoice
    BY <1>3, TermsAreSound DEF Invoice, Statuses
  <2> QED
    BY <2>1, NoRowIsNoRow
<1> HIDE DEF row
<1>5. invoice'[i] = row /\ \A j \in Invoices : j # i => invoice'[j] = invoice[j]
  BY <1>1 DEF TypeOK
<1>6. \A j \in Invoices : Issued(j)' <=> Issued(j) \/ j = i
  BY <1>4, <1>5 DEF Issued
<1>7. BillsOf(i[1])' = BillsOf(i[1]) \cup {i} /\ i \notin BillsOf(i[1])
  BY <1>1, <1>6 DEF BillsOf
<1>8. Cardinality(BillsOf(i[1])') = n + 1
  BY <1>3, <1>7, FS_AddElement
<1>9. ASSUME NEW j \in Invoices, Issued(j), j[1] # i[1]
      PROVE  BillsOf(j[1])' = BillsOf(j[1])
  BY <1>6, <1>9 DEF BillsOf
<1>10. ASSUME NEW j \in Invoices, Issued(j), j[1] = i[1]
       PROVE  invoice[j].createdAt \in Nat /\ invoice[j].createdAt <= n
  BY <1>10 DEF Numbered, TypeOK, Issued, Invoice
<1>11. ASSUME NEW j \in Invoices, Issued(j)'
       PROVE  /\ invoice'[j].createdAt <= Cardinality(BillsOf(j[1])')
              /\ \A l \in Invoices :
                   Issued(l)' /\ l[1] = j[1] /\ invoice'[l].createdAt = invoice'[j].createdAt => l = j
  <2>1. CASE j = i
    BY <1>2, <1>3, <1>5, <1>6, <1>8, <1>10, <2>1
  <2>2. CASE j # i /\ j[1] = i[1]
    BY <1>2, <1>3, <1>5, <1>6, <1>8, <1>10, <1>11, <2>2 DEF Numbered
  <2>3. CASE j # i /\ j[1] # i[1]
    BY <1>5, <1>6, <1>9, <1>11, <2>3 DEF Numbered
  <2> QED
    BY <2>1, <2>2, <2>3
<1>12. Numbered'
  BY <1>11 DEF Numbered
<1>13. AllocationsAreCovered'
  BY <1>1, <1>6, CoveredKept
<1> QED
  BY <1>12, <1>13

LEMMA BooksCovered ==
  ASSUME CoveredInv, UNCHANGED <<invoice, payment>>
  PROVE  Numbered' /\ AllocationsAreCovered'
BY NumbersKept, CoveredKept DEF CoveredInv, Issued

LEMMA ReverseCovered ==
  ASSUME CoveredInv, NEW k \in Keys, ReversePayment(k)
  PROVE  Numbered' /\ AllocationsAreCovered'
BY RefreshIssues, NumbersKept, CoveredKept DEF ReversePayment, CoveredInv, LedgerInv

LEMMA VoidCovered ==
  ASSUME CoveredInv, NEW i \in Invoices, VoidInvoice(i)
  PROVE  Numbered' /\ AllocationsAreCovered'
<1> USE DEF CoveredInv, LedgerInv
<1>1. /\ invoice' = [invoice EXCEPT ![i].status = "void"] /\ invoice[i] \in Invoice
      /\ payment' = payment /\ Issued(i)
  BY DEF VoidInvoice, Live, Issued, TypeOK
<1>2. [invoice[i] EXCEPT !.status = "void"] \in Invoice
  BY <1>1 DEF Invoice, Statuses
<1>3. /\ invoice'[i].createdAt = invoice[i].createdAt /\ invoice'[i] # NoRow
      /\ \A j \in Invoices : j # i => invoice'[j] = invoice[j]
  BY <1>1, <1>2, NoRowIsNoRow DEF TypeOK, Invoice
<1>4. \A j \in Invoices : /\ Issued(j)' = Issued(j)
                          /\ Issued(j) => invoice'[j].createdAt = invoice[j].createdAt
  BY <1>1, <1>3 DEF Issued
<1> QED
  BY <1>1, <1>4, NumbersKept, CoveredKept

LEMMA CoveredInvKept == CoveredInv /\ [Next]_vars => CoveredInv'
<1> SUFFICES ASSUME CoveredInv, [Next]_vars
             PROVE  Numbered' /\ AllocationsAreCovered'
  BY NextKeeps DEF CoveredInv
<1> USE DEF CoveredInv, LedgerInv
<1>1. ASSUME NEW k \in Keys, NEW f \in Families, NEW amt \in Amounts, RecordAuto(k, f, amt)
      PROVE  Numbered' /\ AllocationsAreCovered'
  <2>1. amt \in Nat
    BY PaymentsArePositive
  <2>2. PICK alloc : alloc = OldestDueFirst(f, amt)
    OBVIOUS
  <2>3. /\ alloc \in [Invoices -> Nat] /\ SumOf(alloc) <= amt
        /\ \A i \in Invoices : alloc[i] > 0 => i[1] = f /\ Live(i)
    BY <2>1, <2>2, LoopWithinBalance, LoopWithinPayment
  <2>4. RecordRows(k, f, amt, alloc)
    BY <1>1, <2>2 DEF RecordAuto, Record
  <2> QED
    BY <2>1, <2>3, <2>4, RecordCovered
<1>2. ASSUME NEW k \in Keys, NEW f \in Families, NEW amt \in Amounts,
             NEW named \in SUBSET Invoices, NEW asked \in [named -> 1 .. amt],
             RecordExplicit(k, f, amt, asked)
      PROVE  Numbered' /\ AllocationsAreCovered'
  <2>1. amt \in Nat /\ Allowed(f, amt, asked)
    BY <1>2, PaymentsArePositive DEF RecordExplicit
  <2>2. PICK alloc : alloc = AsAsked(asked)
    OBVIOUS
  <2>3. /\ alloc \in [Invoices -> Nat] /\ SumOf(alloc) <= amt
        /\ \A i \in Invoices : alloc[i] > 0 => i[1] = f /\ Live(i)
    BY <2>1, <2>2, AskedWithinBalance, AskedWithinPayment
  <2>4. RecordRows(k, f, amt, alloc)
    BY <1>2, <2>2 DEF RecordExplicit, Record
  <2> QED
    BY <2>1, <2>3, <2>4, RecordCovered
<1>3. CASE (\E f \in Enrolled : AutopayMovesLadder(f)) \/ UNCHANGED vars
  <2>1. UNCHANGED <<invoice, payment>>
    BY <1>3 DEF AutopayMovesLadder, vars
  <2> QED
    BY <2>1, BooksCovered
<1> QED
  BY <1>1, <1>2, <1>3, GenerateCovered, ReverseCovered, VoidCovered DEF Next

LEMMA CoveredInvHolds == Spec => []CoveredInv
<1>1. Init => CoveredInv
  BY DEF Init, CoveredInv, LedgerInv, TypeOK, Mirrored, NothingOnUnissued, VoidIsUnpaid,
     NeverOverpaid, StatusMatchesMoney, Live, Issued, Numbered, AllocationsAreCovered
<1> QED
  BY <1>1, CoveredInvKept, PTL DEF Spec

\* No payment is allocated beyond its amount or to another family's invoice,
\* neither by the loop nor by a consumer that dictates the allocations.
THEOREM AllocationsAreCoveredHolds == Spec => []AllocationsAreCovered
BY CoveredInvHolds, PTL DEF CoveredInv

\* What a parent reads from the top, on the portal or on a statement, is the
\* order in which the next payment is spread.
THEOREM ListedInTheOrderPaidHolds == Spec => []ListedInTheOrderPaid
<1>1. ASSUME TypeOK
      PROVE  ListedInTheOrderPaid
  <2> SUFFICES ASSUME NEW f \in Families, NEW amt \in Amounts, NEW i \in Listed(f), NEW j \in Listed(f),
                      PortalBefore(i, j) \/ StatementBefore(i, j), OldestDueFirst(f, amt)[j] > 0
               PROVE  OldestDueFirst(f, amt)[i] = Balance(i)
    BY DEF ListedInTheOrderPaid
  <2>1. amt \in Nat /\ i \in BillsOf(f) /\ j \in BillsOf(f) /\ i \in Invoices
    BY PaymentsArePositive DEF Listed, BillsOf
  <2>2. Before(i, j)
    BY DEF PortalBefore, StatementBefore, Before
  <2>3. Room(i) = Balance(i)
    BY DEF Listed, Room, Live, BillsOf
  <2> QED
    BY <1>1, <2>1, <2>2, <2>3, LoopIsInOrder
<1> QED
  BY <1>1, TypeCorrect, PTL

-----------------------------------------------------------------------------
(* What moves a family's balance *)

Billed(f) == [i \in Invoices |-> IF i[1] = f /\ Live(i) THEN invoice[i].total ELSE 0]
Paid(f) == [k \in Keys |-> IF payment[k] # NoRow /\ payment[k].family = f
                           THEN payment[k].amount ELSE 0]
PaidBack(f) == [k \in Keys |-> IF reversal[k] # NoRow /\ payment[k].family = f
                               THEN reversal[k].amount ELSE 0]

LEMMA BalanceIs ==
  ASSUME TypeOK, NEW f
  PROVE  /\ Billed(f) \in [Invoices -> Nat] /\ Invoiced(f) = SumOf(Billed(f)) /\ Invoiced(f) \in Nat
         /\ Paid(f) \in [Keys -> Nat] /\ Received(f) = SumOf(Paid(f)) /\ Received(f) \in Nat
         /\ PaidBack(f) \in [Keys -> Nat] /\ Returned(f) = SumOf(PaidBack(f)) /\ Returned(f) \in Nat
         /\ FamilyBalance(f) \in Int
<1>1. Billed(f) \in [Invoices -> Nat]
  BY DEF Billed, Live, Issued, TypeOK, Invoice
<1>2. Paid(f) \in [Keys -> Nat]
  BY DEF Paid, TypeOK, Payment
<1>3. PaidBack(f) \in [Keys -> Nat]
  BY DEF PaidBack, TypeOK, Reversal
<1>4. SumOf(Billed(f)) \in Nat /\ SumOf(Paid(f)) \in Nat /\ SumOf(PaidBack(f)) \in Nat
  BY <1>1, <1>2, <1>3, InvoicesFinite, FinitelyMany, SumIsNat
<1>5. Invoiced(f) = SumOf(Billed(f)) /\ Received(f) = SumOf(Paid(f)) /\ Returned(f) = SumOf(PaidBack(f))
  BY DEF Invoiced, Received, Returned, Billed, Paid, PaidBack
<1> QED
  BY <1>1, <1>2, <1>3, <1>4, <1>5 DEF FamilyBalance

\* The same of the state after a step.
LEMMA BalanceIsAfter ==
  ASSUME TypeOK', NEW f
  PROVE  /\ Billed(f)' \in [Invoices -> Nat] /\ Invoiced(f)' = SumOf(Billed(f)') /\ Invoiced(f)' \in Nat
         /\ Paid(f)' \in [Keys -> Nat] /\ Received(f)' = SumOf(Paid(f)') /\ Received(f)' \in Nat
         /\ PaidBack(f)' \in [Keys -> Nat] /\ Returned(f)' = SumOf(PaidBack(f)') /\ Returned(f)' \in Nat
         /\ FamilyBalance(f)' \in Int
<1>1. Billed(f)' \in [Invoices -> Nat]
  BY DEF Billed, Live, Issued, TypeOK, Invoice
<1>2. Paid(f)' \in [Keys -> Nat]
  BY DEF Paid, TypeOK, Payment
<1>3. PaidBack(f)' \in [Keys -> Nat]
  BY DEF PaidBack, TypeOK, Reversal
<1>4. SumOf(Billed(f)') \in Nat /\ SumOf(Paid(f)') \in Nat /\ SumOf(PaidBack(f)') \in Nat
  BY <1>1, <1>2, <1>3, InvoicesFinite, FinitelyMany, SumIsNat
<1>5. Invoiced(f)' = SumOf(Billed(f)') /\ Received(f)' = SumOf(Paid(f)') /\ Returned(f)' = SumOf(PaidBack(f)')
  BY DEF Invoiced, Received, Returned, Billed, Paid, PaidBack
<1> QED
  BY <1>1, <1>2, <1>3, <1>4, <1>5 DEF FamilyBalance

\* A family's balance moves by what one invoice comes to.
LEMMA InvoiceMovesBalance ==
  ASSUME TypeOK, TypeOK', NEW f, NEW i \in Invoices, UNCHANGED <<payment, reversal>>,
         \A j \in Invoices : j # i => Billed(f)'[j] = Billed(f)[j]
  PROVE  FamilyBalance(f)' = FamilyBalance(f) - Billed(f)[i] + Billed(f)'[i]
<1>1. /\ Billed(f) \in [Invoices -> Nat] /\ Billed(f)' \in [Invoices -> Nat]
      /\ Invoiced(f) = SumOf(Billed(f)) /\ Invoiced(f)' = SumOf(Billed(f)')
      /\ Invoiced(f) \in Nat /\ Received(f) \in Nat /\ Returned(f) \in Nat
  BY BalanceIs, BalanceIsAfter
<1>2. Invoiced(f)' = Invoiced(f) - Billed(f)[i] + Billed(f)'[i]
  BY <1>1, InvoicesFinite, SumMoves
<1>3. Received(f)' = Received(f) /\ Returned(f)' = Returned(f)
  BY DEF Received, Returned
<1>4. Billed(f)[i] \in Nat /\ Billed(f)'[i] \in Nat
  BY <1>1
<1> QED
  BY <1>1, <1>2, <1>3, <1>4 DEF FamilyBalance

\* A family's balance moves by what one payment and its reversal come to.
LEMMA PaymentMovesBalance ==
  ASSUME TypeOK, TypeOK', NEW f, NEW k \in Keys, Billed(f)' = Billed(f),
         \A q \in Keys : q # k => Paid(f)'[q] = Paid(f)[q] /\ PaidBack(f)'[q] = PaidBack(f)[q]
  PROVE  FamilyBalance(f)' = FamilyBalance(f) + (Paid(f)[k] - PaidBack(f)[k])
                                              - (Paid(f)'[k] - PaidBack(f)'[k])
<1>1. /\ Paid(f) \in [Keys -> Nat] /\ Paid(f)' \in [Keys -> Nat]
      /\ PaidBack(f) \in [Keys -> Nat] /\ PaidBack(f)' \in [Keys -> Nat]
      /\ Received(f) = SumOf(Paid(f)) /\ Received(f)' = SumOf(Paid(f)')
      /\ Returned(f) = SumOf(PaidBack(f)) /\ Returned(f)' = SumOf(PaidBack(f)')
      /\ Invoiced(f)' = SumOf(Billed(f)') /\ Invoiced(f) = SumOf(Billed(f))
      /\ Invoiced(f) \in Nat /\ Received(f) \in Nat /\ Returned(f) \in Nat
  BY BalanceIs, BalanceIsAfter
<1>2. Received(f)' = Received(f) - Paid(f)[k] + Paid(f)'[k]
  BY <1>1, FinitelyMany, SumMoves
<1>3. Returned(f)' = Returned(f) - PaidBack(f)[k] + PaidBack(f)'[k]
  BY <1>1, FinitelyMany, SumMoves
<1>4. Paid(f)[k] \in Nat /\ Paid(f)'[k] \in Nat /\ PaidBack(f)[k] \in Nat /\ PaidBack(f)'[k] \in Nat
  BY <1>1
<1> QED
  BY <1>1, <1>2, <1>3, <1>4 DEF FamilyBalance

LEMMA GenerateMoves ==
  ASSUME TypeOK, NEW i \in Invoices, NEW terms \in Terms[i], GenerateForFamily(i, terms), NEW f
  PROVE  FamilyBalance(f)' = IF f = i[1] THEN FamilyBalance(f) + terms.total ELSE FamilyBalance(f)
<1>1. TypeOK'
  BY GenerateTypes
<1>2. /\ invoice'[i] \in Invoice /\ invoice'[i].total = terms.total /\ invoice'[i].status = "open"
      /\ \A j \in Invoices : j # i => invoice'[j] = invoice[j]
      /\ invoice[i] = NoRow /\ UNCHANGED <<payment, reversal>>
  <2> DEFINE row == [total |-> terms.total, due |-> terms.due, status |-> "open",
                     createdAt |-> Cardinality(BillsOf(i[1])) + 1]
  <2>1. invoice' = [invoice EXCEPT ![i] = row] /\ UNCHANGED <<payment, reversal>> /\ invoice[i] = NoRow
    BY DEF GenerateForFamily, Issued
  <2>2. row.total = terms.total /\ row.status = "open"
    OBVIOUS
  <2>3. IsFiniteSet(BillsOf(i[1]))
    BY InvoicesFinite, FS_Subset DEF BillsOf
  <2>4. row \in Invoice
    BY <2>3, FS_CardinalityType, TermsAreSound DEF Invoice, Statuses
  <2> HIDE DEF row
  <2> QED
    BY <2>1, <2>2, <2>4 DEF TypeOK
<1>3. /\ \A j \in Invoices : j # i => Billed(f)'[j] = Billed(f)[j]
      /\ Billed(f)[i] = 0 /\ Billed(f)'[i] = IF f = i[1] THEN terms.total ELSE 0
  BY <1>2, NoRowIsNoRow DEF Billed, Live, Issued
<1>4. FamilyBalance(f)' = FamilyBalance(f) - Billed(f)[i] + Billed(f)'[i]
  BY <1>1, <1>2, <1>3, InvoiceMovesBalance
<1>5. terms.total \in Nat /\ FamilyBalance(f) \in Int
  BY TermsAreSound, BalanceIs
<1> QED
  BY <1>3, <1>4, <1>5

LEMMA VoidMoves ==
  ASSUME TypeOK, NEW i \in Invoices, VoidInvoice(i), NEW f
  PROVE  FamilyBalance(f)' = IF f = i[1] THEN FamilyBalance(f) + (-invoice[i].total)
                             ELSE FamilyBalance(f)
<1>1. TypeOK'
  BY VoidTypes
<1>2. /\ Live(i) /\ invoice[i] \in Invoice /\ UNCHANGED <<payment, reversal>>
      /\ invoice' = [invoice EXCEPT ![i].status = "void"]
  BY DEF VoidInvoice, Live, Issued, TypeOK
<1>3. invoice'[i].status = "void" /\ \A j \in Invoices : j # i => invoice'[j] = invoice[j]
  BY <1>2 DEF TypeOK, Invoice
<1>4. /\ \A j \in Invoices : j # i => Billed(f)'[j] = Billed(f)[j]
      /\ Billed(f)'[i] = 0 /\ Billed(f)[i] = IF f = i[1] THEN invoice[i].total ELSE 0
  BY <1>2, <1>3 DEF Billed, Live, Issued
<1>5. FamilyBalance(f)' = FamilyBalance(f) - Billed(f)[i] + Billed(f)'[i]
  BY <1>1, <1>2, <1>4, InvoiceMovesBalance
<1>6. invoice[i].total \in Nat /\ FamilyBalance(f) \in Int
  BY <1>2, BalanceIs DEF Invoice
<1> QED
  BY <1>4, <1>5, <1>6

LEMMA RecordMoves ==
  ASSUME TypeOK, Mirrored, NEW k \in Keys, NEW g \in Families, NEW amt \in Nat,
         NEW alloc \in [Invoices -> Nat], RecordRows(k, g, amt, alloc),
         ladder' \in [Enrolled -> {"clear", "raised"}], NEW f
  PROVE  FamilyBalance(f)' = IF f = g THEN FamilyBalance(f) + (-amt) ELSE FamilyBalance(f)
<1>1. TypeOK'
  BY RecordTypes
<1>2. /\ payment[k] = NoRow /\ reversal' = reversal /\ reversal[k] = NoRow
      /\ payment' = [payment EXCEPT ![k] = [family |-> g, amount |-> amt, alloc |-> alloc]]
  BY DEF RecordRows, Mirrored
<1>3. [family |-> g, amount |-> amt, alloc |-> alloc] # NoRow
  BY NoRowIsNoRow DEF Payment
<1>4. /\ payment'[k] # NoRow /\ payment'[k].family = g /\ payment'[k].amount = amt
      /\ \A q \in Keys : q # k => payment'[q] = payment[q]
  BY <1>2, <1>3 DEF TypeOK
<1>5. Billed(f)' = Billed(f)
  <2>1. \A i \in Invoices : /\ Issued(i)' = Issued(i)
                            /\ Issued(i) => invoice'[i].total = invoice[i].total /\ Live(i)' = Live(i)
    BY RefreshIssues DEF RecordRows
  <2>2. \A i \in Invoices : Billed(f)'[i] = Billed(f)[i]
    BY <2>1 DEF Billed, Live
  <2> QED
    BY <1>1, <2>2, BalanceIs, BalanceIsAfter
<1>6. /\ \A q \in Keys : q # k => Paid(f)'[q] = Paid(f)[q] /\ PaidBack(f)'[q] = PaidBack(f)[q]
      /\ Paid(f)[k] = 0 /\ PaidBack(f)[k] = 0 /\ PaidBack(f)'[k] = 0
      /\ Paid(f)'[k] = IF f = g THEN amt ELSE 0
  BY <1>2, <1>4 DEF Paid, PaidBack
<1>7. FamilyBalance(f)' = FamilyBalance(f) + (Paid(f)[k] - PaidBack(f)[k])
                                           - (Paid(f)'[k] - PaidBack(f)'[k])
  BY <1>1, <1>5, <1>6, PaymentMovesBalance
<1> QED
  BY <1>6, <1>7, BalanceIs

LEMMA ReverseMoves ==
  ASSUME TypeOK, NEW k \in Keys, ReversePayment(k), NEW f
  PROVE  FamilyBalance(f)' = IF f = payment[k].family THEN FamilyBalance(f) + payment[k].amount
                             ELSE FamilyBalance(f)
<1>1. TypeOK'
  BY ReverseTypes
<1>2. /\ payment[k] \in Payment /\ payment[k] # NoRow /\ payment' = payment /\ reversal[k] = NoRow
      /\ reversal' = [reversal EXCEPT ![k] = [amount |-> payment[k].amount, alloc |-> payment[k].alloc]]
  BY DEF ReversePayment, TypeOK
<1>3. [amount |-> payment[k].amount, alloc |-> payment[k].alloc] # NoRow
  BY <1>2, NoRowIsNoRow DEF Payment, Reversal
<1>4. /\ reversal'[k] # NoRow /\ reversal'[k].amount = payment[k].amount
      /\ \A q \in Keys : q # k => reversal'[q] = reversal[q]
  BY <1>2, <1>3 DEF TypeOK
<1>5. Billed(f)' = Billed(f)
  <2>1. \A i \in Invoices : /\ Issued(i)' = Issued(i)
                            /\ Issued(i) => invoice'[i].total = invoice[i].total /\ Live(i)' = Live(i)
    BY RefreshIssues DEF ReversePayment
  <2>2. \A i \in Invoices : Billed(f)'[i] = Billed(f)[i]
    BY <2>1 DEF Billed, Live
  <2> QED
    BY <1>1, <2>2, BalanceIs, BalanceIsAfter
<1>6. /\ \A q \in Keys : q # k => Paid(f)'[q] = Paid(f)[q] /\ PaidBack(f)'[q] = PaidBack(f)[q]
      /\ PaidBack(f)[k] = 0 /\ Paid(f)'[k] = Paid(f)[k]
      /\ PaidBack(f)'[k] = IF f = payment[k].family THEN payment[k].amount ELSE 0
  BY <1>2, <1>4 DEF Paid, PaidBack
<1>7. FamilyBalance(f)' = FamilyBalance(f) + (Paid(f)[k] - PaidBack(f)[k])
                                           - (Paid(f)'[k] - PaidBack(f)'[k])
  BY <1>1, <1>5, <1>6, PaymentMovesBalance
<1>8. Paid(f)[k] \in Nat /\ payment[k].amount \in Nat /\ FamilyBalance(f) \in Int
  BY <1>2, BalanceIs DEF Payment
<1> QED
  BY <1>6, <1>7, <1>8

-----------------------------------------------------------------------------
(* The ledger implements the running account *)

\* The account as it is derived from the rows.
AccountBalance == [f \in Families |-> FamilyBalance(f)]
AccountBill ==
  [i \in Invoices |-> IF Issued(i) THEN [amount |-> invoice[i].total, waived |-> ~Live(i)]
                                   ELSE NoRow]
AccountReceipt ==
  [k \in Keys |->
     IF payment[k] = NoRow THEN NoRow
     ELSE [family |-> payment[k].family, amount |-> payment[k].amount,
           returned |-> reversal[k] # NoRow]]

BillEntry(n, waived) == [amount |-> n, waived |-> waived]
ReceiptEntry(f, n, returned) == [family |-> f, amount |-> n, returned |-> returned]

\* Waiving and returning change one field of an entry, and nothing else.
LEMMA BillEntryIs ==
  ASSUME NEW n \in Nat, NEW w \in BOOLEAN
  PROVE  /\ BillEntry(n, w) # NoRow
         /\ BillEntry(n, w).amount = n /\ BillEntry(n, w).waived = w
         /\ [BillEntry(n, w) EXCEPT !.waived = TRUE] = BillEntry(n, TRUE)
<1> DEFINE E == [amount : Nat, waived : BOOLEAN]
<1>1. BillEntry(n, w) \in E /\ BillEntry(n, TRUE) \in E
  BY DEF BillEntry
<1>2. /\ BillEntry(n, w).amount = n /\ BillEntry(n, w).waived = w
      /\ BillEntry(n, TRUE).amount = n /\ BillEntry(n, TRUE).waived = TRUE
  BY DEF BillEntry
<1>3. \A a, b \in E : a.amount = b.amount /\ a.waived = b.waived => a = b
  OBVIOUS
<1>4. \A a \in E : /\ [a EXCEPT !.waived = TRUE] \in E
                   /\ [a EXCEPT !.waived = TRUE].amount = a.amount
                   /\ [a EXCEPT !.waived = TRUE].waived = TRUE
  OBVIOUS
<1>5. NoRow \notin E
  BY NoRowIsNoEntry
<1> HIDE DEF E
<1>6. [BillEntry(n, w) EXCEPT !.waived = TRUE] = BillEntry(n, TRUE)
  BY <1>1, <1>2, <1>3, <1>4
<1> QED
  BY <1>1, <1>2, <1>5, <1>6

LEMMA ReceiptEntryIs ==
  ASSUME NEW f \in Families, NEW n \in Nat, NEW r \in BOOLEAN
  PROVE  /\ ReceiptEntry(f, n, r) # NoRow
         /\ ReceiptEntry(f, n, r).family = f /\ ReceiptEntry(f, n, r).amount = n
         /\ ReceiptEntry(f, n, r).returned = r
         /\ [ReceiptEntry(f, n, r) EXCEPT !.returned = TRUE] = ReceiptEntry(f, n, TRUE)
<1> DEFINE E == [family : Families, amount : Nat, returned : BOOLEAN]
<1>1. ReceiptEntry(f, n, r) \in E /\ ReceiptEntry(f, n, TRUE) \in E
  BY DEF ReceiptEntry
<1>2. /\ ReceiptEntry(f, n, r).family = f /\ ReceiptEntry(f, n, TRUE).family = f
      /\ ReceiptEntry(f, n, r).amount = n /\ ReceiptEntry(f, n, TRUE).amount = n
      /\ ReceiptEntry(f, n, r).returned = r /\ ReceiptEntry(f, n, TRUE).returned = TRUE
  BY DEF ReceiptEntry
<1>3. \A a, b \in E : a.family = b.family /\ a.amount = b.amount /\ a.returned = b.returned => a = b
  OBVIOUS
<1>4. \A a \in E : /\ [a EXCEPT !.returned = TRUE] \in E
                   /\ [a EXCEPT !.returned = TRUE].family = a.family
                   /\ [a EXCEPT !.returned = TRUE].amount = a.amount
                   /\ [a EXCEPT !.returned = TRUE].returned = TRUE
  OBVIOUS
<1>5. NoRow \notin E
  BY NoRowIsNoEntry
<1> HIDE DEF E
<1>6. ASSUME NEW a \in E, NEW b \in E, a.family = b.family, a.amount = b.amount, b.returned = TRUE
      PROVE  [a EXCEPT !.returned = TRUE] = b
  BY <1>3, <1>4, <1>6
<1>7. [ReceiptEntry(f, n, r) EXCEPT !.returned = TRUE] = ReceiptEntry(f, n, TRUE)
  BY <1>1, <1>2, <1>6
<1> QED
  BY <1>1, <1>2, <1>5, <1>7

LEMMA BalanceMovesTo ==
  ASSUME NEW f \in Families, NEW cents,
         \A g \in Families : FamilyBalance(g)' = IF g = f THEN FamilyBalance(g) + cents
                                                 ELSE FamilyBalance(g)
  PROVE  AccountBalance' = [AccountBalance EXCEPT ![f] = @ + cents]
BY DEF AccountBalance

LEMMA GenerateIssues ==
  ASSUME TypeOK, NEW i \in Invoices, NEW terms \in Terms[i], GenerateForFamily(i, terms)
  PROVE  Account!Issue(i, terms.total)
<1>1. AccountBill[i] = NoRow
  BY DEF AccountBill, GenerateForFamily
<1>2. AccountBill' = [AccountBill EXCEPT ![i] = [amount |-> terms.total, waived |-> FALSE]]
  <2> DEFINE row == [total |-> terms.total, due |-> terms.due, status |-> "open",
                     createdAt |-> Cardinality(BillsOf(i[1])) + 1]
  <2>1. invoice' = [invoice EXCEPT ![i] = row]
    BY DEF GenerateForFamily
  <2>2. row.total = terms.total /\ row.status = "open"
    OBVIOUS
  <2>3. IsFiniteSet(BillsOf(i[1]))
    BY InvoicesFinite, FS_Subset DEF BillsOf
  <2>4. row \in Invoice
    BY <2>3, FS_CardinalityType, TermsAreSound DEF Invoice, Statuses
  <2> HIDE DEF row
  <2>5. invoice'[i] = row /\ row # NoRow /\ \A j \in Invoices : j # i => invoice'[j] = invoice[j]
    BY <2>1, <2>4, NoRowIsNoRow DEF TypeOK
  <2>6. AccountBill'[i] = [amount |-> terms.total, waived |-> FALSE]
    BY <2>2, <2>5 DEF AccountBill, Issued, Live
  <2>7. \A j \in Invoices : j # i => AccountBill'[j] = AccountBill[j]
    BY <2>5 DEF AccountBill, Issued, Live
  <2> QED
    BY <2>6, <2>7 DEF AccountBill
<1>3. i[1] \in Families
  BY BilledAndEnrolled
<1>4. AccountBalance' = [AccountBalance EXCEPT ![i[1]] = @ + terms.total]
  BY <1>3, GenerateMoves, BalanceMovesTo
<1>5. UNCHANGED AccountReceipt
  BY DEF AccountReceipt, GenerateForFamily
<1> QED
  BY <1>1, <1>2, <1>4, <1>5 DEF Account!Issue, Account!Moves, AccountBalance, AccountBill, AccountReceipt

LEMMA VoidWaives ==
  ASSUME TypeOK, NEW i \in Invoices, VoidInvoice(i)
  PROVE  Account!Waive(i)
<1>1. /\ Live(i) /\ Issued(i) /\ invoice[i] \in Invoice /\ UNCHANGED <<payment, reversal>>
      /\ invoice' = [invoice EXCEPT ![i].status = "void"]
  BY DEF VoidInvoice, Live, Issued, TypeOK
<1>2. [invoice[i] EXCEPT !.status = "void"] \in Invoice
  BY <1>1 DEF Invoice, Statuses
<1>3. /\ invoice'[i].status = "void" /\ invoice'[i].total = invoice[i].total /\ invoice'[i] # NoRow
      /\ \A j \in Invoices : j # i => invoice'[j] = invoice[j]
  BY <1>1, <1>2, NoRowIsNoRow DEF TypeOK, Invoice
<1>4. /\ AccountBill[i] = BillEntry(invoice[i].total, FALSE)
      /\ AccountBill'[i] = BillEntry(invoice[i].total, TRUE)
      /\ \A j \in Invoices : j # i => AccountBill'[j] = AccountBill[j]
  BY <1>1, <1>3 DEF AccountBill, BillEntry, Issued, Live
<1>5. AccountBill[i] # NoRow /\ ~AccountBill[i].waived /\ AccountBill[i].amount = invoice[i].total
  BY <1>1, <1>4, BillEntryIs DEF Invoice
<1>6. AccountBill' = [AccountBill EXCEPT ![i].waived = TRUE]
  <2>1. [AccountBill[i] EXCEPT !.waived = TRUE] = AccountBill'[i]
    BY <1>1, <1>4, BillEntryIs DEF Invoice
  <2> QED
    BY <1>4, <2>1 DEF AccountBill
<1>7. i[1] \in Families
  BY BilledAndEnrolled
<1>8. AccountBalance' = [AccountBalance EXCEPT ![i[1]] = @ + (-AccountBill[i].amount)]
  BY <1>5, <1>7, VoidMoves, BalanceMovesTo
<1>9. UNCHANGED AccountReceipt
  BY <1>1 DEF AccountReceipt
<1> QED
  BY <1>5, <1>6, <1>8, <1>9 DEF Account!Waive, Account!Moves, AccountBalance, AccountBill, AccountReceipt

LEMMA RecordReceives ==
  ASSUME TypeOK, Mirrored, NEW k \in Keys, NEW g \in Families, NEW amt \in Nat,
         NEW alloc \in [Invoices -> Nat], RecordRows(k, g, amt, alloc),
         ladder' \in [Enrolled -> {"clear", "raised"}]
  PROVE  Account!Receive(k, g, amt)
<1>1. /\ payment[k] = NoRow /\ reversal' = reversal /\ reversal[k] = NoRow
      /\ payment' = [payment EXCEPT ![k] = [family |-> g, amount |-> amt, alloc |-> alloc]]
  BY DEF RecordRows, Mirrored
<1>2. [family |-> g, amount |-> amt, alloc |-> alloc] # NoRow
  BY NoRowIsNoRow DEF Payment
<1>3. /\ payment'[k] # NoRow /\ payment'[k].family = g /\ payment'[k].amount = amt
      /\ \A q \in Keys : q # k => payment'[q] = payment[q]
  BY <1>1, <1>2 DEF TypeOK
<1>4. AccountReceipt[k] = NoRow
  BY <1>1 DEF AccountReceipt
<1>5. AccountReceipt' =
        [AccountReceipt EXCEPT ![k] = [family |-> g, amount |-> amt, returned |-> FALSE]]
  <2>1. AccountReceipt'[k] = [family |-> g, amount |-> amt, returned |-> FALSE]
    BY <1>1, <1>3 DEF AccountReceipt
  <2>2. \A q \in Keys : q # k => AccountReceipt'[q] = AccountReceipt[q]
    BY <1>1, <1>3 DEF AccountReceipt
  <2> QED
    BY <2>1, <2>2 DEF AccountReceipt
<1>6. UNCHANGED AccountBill
  <2>1. \A i \in Invoices : /\ Issued(i)' = Issued(i)
                            /\ Issued(i) => invoice'[i].total = invoice[i].total /\ Live(i)' = Live(i)
    BY RefreshIssues DEF RecordRows
  <2> QED
    BY <2>1 DEF AccountBill
<1>7. AccountBalance' = [AccountBalance EXCEPT ![g] = @ + (-amt)]
  BY RecordMoves, BalanceMovesTo
<1> QED
  BY <1>4, <1>5, <1>6, <1>7 DEF Account!Receive, Account!Moves, AccountBalance, AccountBill, AccountReceipt

LEMMA ReverseReturns ==
  ASSUME TypeOK, NEW k \in Keys, ReversePayment(k)
  PROVE  Account!Return(k)
<1>1. /\ payment[k] \in Payment /\ payment[k] # NoRow /\ payment' = payment /\ reversal[k] = NoRow
      /\ reversal' = [reversal EXCEPT ![k] = [amount |-> payment[k].amount, alloc |-> payment[k].alloc]]
  BY DEF ReversePayment, TypeOK
<1>2. [amount |-> payment[k].amount, alloc |-> payment[k].alloc] # NoRow
  BY <1>1, NoRowIsNoRow DEF Payment, Reversal
<1>3. reversal'[k] # NoRow /\ \A q \in Keys : q # k => reversal'[q] = reversal[q]
  BY <1>1, <1>2 DEF TypeOK
<1>4. /\ AccountReceipt[k] = ReceiptEntry(payment[k].family, payment[k].amount, FALSE)
      /\ AccountReceipt'[k] = ReceiptEntry(payment[k].family, payment[k].amount, TRUE)
      /\ \A q \in Keys : q # k => AccountReceipt'[q] = AccountReceipt[q]
  BY <1>1, <1>3 DEF AccountReceipt, ReceiptEntry
<1> DEFINE f == payment[k].family
           n == payment[k].amount
<1>5. f \in Families /\ n \in Nat /\ FALSE \in BOOLEAN
  BY <1>1 DEF Payment
<1>6. /\ ReceiptEntry(f, n, FALSE) # NoRow
      /\ ReceiptEntry(f, n, FALSE).family = f /\ ReceiptEntry(f, n, FALSE).amount = n
      /\ ReceiptEntry(f, n, FALSE).returned = FALSE
      /\ [ReceiptEntry(f, n, FALSE) EXCEPT !.returned = TRUE] = ReceiptEntry(f, n, TRUE)
  BY <1>5, ReceiptEntryIs
<1>7. /\ AccountReceipt[k] # NoRow /\ ~AccountReceipt[k].returned
      /\ AccountReceipt[k].family = payment[k].family /\ AccountReceipt[k].amount = payment[k].amount
  BY <1>4, <1>6
<1>8. [AccountReceipt[k] EXCEPT !.returned = TRUE] = AccountReceipt'[k]
  BY <1>4, <1>6
<1>9. AccountReceipt' = [AccountReceipt EXCEPT ![k].returned = TRUE]
  <2> DEFINE entry == [AccountReceipt[k] EXCEPT !.returned = TRUE]
  <2>1. DOMAIN AccountReceipt = Keys /\ DOMAIN AccountReceipt' = Keys
        /\ AccountReceipt = [q \in Keys |-> AccountReceipt[q]]
        /\ AccountReceipt' = [q \in Keys |-> AccountReceipt'[q]]
    BY DEF AccountReceipt
  <2>2. AccountReceipt'[k] = entry
    BY <1>8
  <2> HIDE DEF entry
  <2>3. AccountReceipt' = [AccountReceipt EXCEPT ![k] = entry]
    BY <1>4, <2>1, <2>2
  <2> QED
    BY <2>3 DEF entry
<1>10. UNCHANGED AccountBill
  <2>1. \A i \in Invoices : /\ Issued(i)' = Issued(i)
                            /\ Issued(i) => invoice'[i].total = invoice[i].total /\ Live(i)' = Live(i)
    BY RefreshIssues DEF ReversePayment
  <2> QED
    BY <2>1 DEF AccountBill
<1>11. payment[k].family \in Families
  BY <1>1 DEF Payment
<1>12. AccountBalance' = [AccountBalance EXCEPT ![AccountReceipt[k].family] = @ + AccountReceipt[k].amount]
  BY <1>7, <1>11, ReverseMoves, BalanceMovesTo
<1> QED
  BY <1>7, <1>9, <1>10, <1>12 DEF Account!Return, Account!Moves, AccountBalance, AccountBill, AccountReceipt

LEMMA NothingMoves ==
  ASSUME UNCHANGED <<invoice, payment, reversal>>
  PROVE  UNCHANGED <<AccountBalance, AccountBill, AccountReceipt>>
<1>1. \A f : FamilyBalance(f)' = FamilyBalance(f)
  BY DEF FamilyBalance, Invoiced, Received, Returned, Live, Issued
<1>2. UNCHANGED AccountBalance
  BY <1>1 DEF AccountBalance
<1>3. UNCHANGED AccountBill
  BY DEF AccountBill, Live, Issued
<1>4. UNCHANGED AccountReceipt
  BY DEF AccountReceipt
<1> QED
  BY <1>2, <1>3, <1>4

LEMMA StepRefines ==
  ASSUME LedgerInv, [Next]_vars
  PROVE  Account!Next \/ UNCHANGED <<AccountBalance, AccountBill, AccountReceipt>>
<1> DEFINE Sums == Amounts \cup {terms.total : terms \in UNION {Terms[i] : i \in Invoices}}
<1> USE DEF LedgerInv
<1>1. ASSUME NEW i \in Invoices, NEW terms \in Terms[i], GenerateForFamily(i, terms)
      PROVE  Account!Next
  <2>1. Account!Issue(i, terms.total)
    BY <1>1, GenerateIssues
  <2>2. terms.total \in Sums
    OBVIOUS
  <2> QED
    BY <2>1, <2>2 DEF Account!Next
<1>2. ASSUME NEW k \in Keys, NEW f \in Families, NEW amt \in Amounts,
             NEW alloc \in [Invoices -> Nat], Record(k, f, amt, alloc)
      PROVE  Account!Next
  <2>1. amt \in Nat /\ amt \in Sums
    BY PaymentsArePositive
  <2>2. Account!Receive(k, f, amt)
    BY <1>2, <2>1, RecordMovesLadder, RecordReceives DEF Record
  <2> QED
    BY <2>1, <2>2 DEF Account!Next
<1>3. ASSUME NEW k \in Keys, NEW f \in Families, NEW amt \in Amounts, RecordAuto(k, f, amt)
      PROVE  Account!Next
  <2>1. OldestDueFirst(f, amt) \in [Invoices -> Nat]
    BY PaymentsArePositive, LoopWithinBalance
  <2> QED
    BY <1>2, <1>3, <2>1 DEF RecordAuto
<1>4. ASSUME NEW k \in Keys, NEW f \in Families, NEW amt \in Amounts,
             NEW named \in SUBSET Invoices, NEW asked \in [named -> 1 .. amt],
             RecordExplicit(k, f, amt, asked)
      PROVE  Account!Next
  <2>1. AsAsked(asked) \in [Invoices -> Nat]
    BY <1>4, PaymentsArePositive, AskedWithinBalance DEF RecordExplicit
  <2> QED
    BY <1>2, <1>4, <2>1 DEF RecordExplicit
<1>5. ASSUME NEW k \in Keys, ReversePayment(k)
      PROVE  Account!Next
  BY <1>5, ReverseReturns DEF Account!Next
<1>6. ASSUME NEW i \in Invoices, VoidInvoice(i)
      PROVE  Account!Next
  BY <1>6, VoidWaives DEF Account!Next
<1>7. CASE (\E f \in Enrolled : AutopayMovesLadder(f)) \/ UNCHANGED vars
  <2>1. UNCHANGED <<invoice, payment, reversal>>
    BY <1>7 DEF AutopayMovesLadder, vars
  <2> QED
    BY <2>1, NothingMoves
<1> QED
  BY <1>1, <1>3, <1>4, <1>5, <1>6, <1>7 DEF Next

LEMMA InitRefines ==
  ASSUME Init
  PROVE  Account!Init
<1>1. /\ \A i \in Invoices : ~Live(i) /\ ~Issued(i)
      /\ \A k \in Keys : payment[k] = NoRow /\ reversal[k] = NoRow
  BY DEF Init, Live, Issued
<1>2. TypeOK
  BY DEF Init, TypeOK
<1>3. ASSUME NEW f \in Families
      PROVE  FamilyBalance(f) = 0
  <2>1. /\ Billed(f) \in [Invoices -> Nat] /\ Paid(f) \in [Keys -> Nat] /\ PaidBack(f) \in [Keys -> Nat]
        /\ Invoiced(f) = SumOf(Billed(f)) /\ Received(f) = SumOf(Paid(f))
        /\ Returned(f) = SumOf(PaidBack(f))
    BY <1>2, BalanceIs
  <2>2. /\ \A i \in Invoices : Billed(f)[i] = 0
        /\ \A k \in Keys : Paid(f)[k] = 0 /\ PaidBack(f)[k] = 0
    BY <1>1 DEF Billed, Paid, PaidBack
  <2>3. SumOf(Billed(f)) = 0 /\ SumOf(Paid(f)) = 0 /\ SumOf(PaidBack(f)) = 0
    BY <2>1, <2>2, InvoicesFinite, FinitelyMany, SumZero
  <2> QED
    BY <2>1, <2>3 DEF FamilyBalance
<1>4. AccountBalance = [f \in Families |-> 0]
  BY <1>3 DEF AccountBalance
<1>5. AccountBill = [i \in Invoices |-> NoRow]
  BY <1>1 DEF AccountBill
<1>6. AccountReceipt = [k \in Keys |-> NoRow]
  BY <1>1 DEF AccountReceipt
<1> QED
  BY <1>4, <1>5, <1>6 DEF Account!Init, AccountBalance, AccountBill, AccountReceipt

\* The ledger implements the running account: every operation moves the balance
\* that is derived from the rows by its own amount, a reversal by exactly what
\* its payment moved, a void by exactly what its invoice did, and nothing else
\* moves it.
THEOREM LedgerImplementsAccount == Spec => ImplementsFamilyAccount
<1>1. Init => Account!Init
  BY InitRefines
<1>2. LedgerInv /\ [Next]_vars => [Account!Next]_(Account!account)
  BY StepRefines DEF Account!account, AccountBalance, AccountBill, AccountReceipt
<1>3. Spec => Account!Spec
  BY <1>1, <1>2, InvHolds, PTL DEF Spec, Account!Spec
<1> QED
  BY <1>3 DEF ImplementsFamilyAccount

-----------------------------------------------------------------------------
(* What a family is shown adds up *)

\* Has the payment been made by the family, and not been reversed?
Stands(k, f) == payment[k] # NoRow /\ reversal[k] = NoRow /\ payment[k].family = f

\* What the family's standing payments hold, by payment and by invoice.
HeldBy(f) ==
  [p \in Keys \X Invoices |-> IF Stands(p[1], f) THEN payment[p[1]].alloc[p[2]] ELSE 0]
Placed(f) == [k \in Keys |-> IF Stands(k, f) THEN SumOf(payment[k].alloc) ELSE 0]
PaidOff(f) == [i \in Invoices |-> IF i[1] = f THEN InvoicePaid(i) ELSE 0]

\* The money the family's payments have placed is the money its invoices hold.
LEMMA PlacedIsPaidOff ==
  ASSUME CoveredInv, NEW f \in Families
  PROVE  /\ Placed(f) \in [Keys -> Nat] /\ PaidOff(f) \in [Invoices -> Nat]
         /\ SumOf(Placed(f)) = SumOf(PaidOff(f))
<1> USE DEF CoveredInv, LedgerInv
<1>1. \A k \in Keys : Stands(k, f) => payment[k] \in Payment /\ payment[k].alloc \in [Invoices -> Nat]
  BY DEF Stands, TypeOK, Payment
<1>2. HeldBy(f) \in [Keys \X Invoices -> Nat]
  <2>1. ASSUME NEW p \in Keys \X Invoices
        PROVE  (IF Stands(p[1], f) THEN payment[p[1]].alloc[p[2]] ELSE 0) \in Nat
    BY <1>1
  <2> QED
    BY <2>1 DEF HeldBy
<1>3. ASSUME NEW k \in Keys
      PROVE  /\ SumOf([i \in Invoices |-> HeldBy(f)[<<k, i>>]]) = Placed(f)[k]
             /\ Placed(f)[k] \in Nat
  <2>1. CASE Stands(k, f)
    <3>1. [i \in Invoices |-> HeldBy(f)[<<k, i>>]] = payment[k].alloc
      BY <1>1, <2>1 DEF HeldBy
    <3>2. SumOf(payment[k].alloc) \in Nat
      BY <1>1, <2>1, InvoicesFinite, SumIsNat
    <3> QED
      BY <2>1, <3>1, <3>2 DEF Placed
  <2>2. CASE ~Stands(k, f)
    <3> DEFINE none == [i \in Invoices |-> HeldBy(f)[<<k, i>>]]
    <3>1. none \in [Invoices -> Nat] /\ \A i \in Invoices : none[i] = 0
      BY <2>2 DEF HeldBy
    <3>2. SumOf(none) = 0
      <4> HIDE DEF none
      <4> QED BY <3>1, InvoicesFinite, SumZero
    <3> QED
      BY <2>2, <3>2 DEF Placed
  <2> QED
    BY <2>1, <2>2
<1>4. ASSUME NEW i \in Invoices
      PROVE  /\ SumOf([k \in Keys |-> HeldBy(f)[<<k, i>>]]) = PaidOff(f)[i]
             /\ PaidOff(f)[i] \in Nat
  <2>1. ASSUME NEW k \in Keys, Stands(k, f), payment[k].alloc[i] > 0
        PROVE  i[1] = f
    BY <2>1 DEF AllocationsAreCovered, Stands
  <2>2. CASE i[1] = f
    <3>1. Held(i) \in [Keys -> Nat] /\ InvoicePaid(i) = SumOf(Held(i)) /\ InvoicePaid(i) \in Nat
      BY PaidIsHeld
    <3>2. ASSUME NEW k \in Keys
          PROVE  HeldBy(f)[<<k, i>>] = Held(i)[k]
      <4>1. CASE payment[k] # NoRow /\ reversal[k] = NoRow /\ payment[k].family # f
        <5>1. payment[k].alloc[i] \in Nat
          BY <4>1 DEF TypeOK, Payment
        <5>2. payment[k].alloc[i] = 0
          BY <2>2, <4>1, <5>1 DEF AllocationsAreCovered
        <5> QED
          BY <4>1, <5>2 DEF HeldBy, Held, Stands
      <4> QED
        BY <4>1 DEF HeldBy, Held, Stands
    <3>3. [k \in Keys |-> HeldBy(f)[<<k, i>>]] = Held(i)
      BY <3>2 DEF Held
    <3> QED
      BY <2>2, <3>1, <3>3 DEF PaidOff
  <2>3. CASE i[1] # f
    <3> DEFINE none == [k \in Keys |-> HeldBy(f)[<<k, i>>]]
    <3>1. ASSUME NEW k \in Keys
          PROVE  none[k] = 0
      <4>1. CASE Stands(k, f)
        <5>1. payment[k].alloc[i] \in Nat
          BY <1>1, <4>1
        <5> QED
          BY <2>1, <2>3, <4>1, <5>1 DEF HeldBy
      <4> QED
        BY <4>1 DEF HeldBy
    <3>2. none \in [Keys -> Nat]
      BY <1>2
    <3>3. SumOf(none) = 0
      <4> HIDE DEF none
      <4> QED BY <3>1, <3>2, FinitelyMany, SumZero
    <3> QED
      BY <2>3, <3>3 DEF PaidOff
  <2> QED
    BY <2>2, <2>3
<1>5. SumOf(Placed(f)) = SumOf(PaidOff(f))
  <2> DEFINE rows == [k \in Keys |-> [i \in Invoices |-> HeldBy(f)[<<k, i>>]]]
             columns == [i \in Invoices |-> [k \in Keys |-> HeldBy(f)[<<k, i>>]]]
  <2>1. /\ rows \in [Keys -> [Invoices -> Nat]] /\ columns \in [Invoices -> [Keys -> Nat]]
        /\ \A k \in Keys, i \in Invoices : rows[k][i] = columns[i][k]
    BY <1>2
  <2>2. /\ \A k \in Keys : Placed(f)[k] = SumOf(rows[k])
        /\ \A i \in Invoices : PaidOff(f)[i] = SumOf(columns[i])
    BY <1>3, <1>4
  <2>3. Placed(f) \in [Keys -> Nat] /\ PaidOff(f) \in [Invoices -> Nat]
    BY <1>3, <1>4 DEF Placed, PaidOff
  <2>4. IsFiniteSet(Keys) /\ IsFiniteSet(Invoices)
    BY InvoicesFinite, FinitelyMany
  <2> HIDE DEF rows, columns, CoveredInv, LedgerInv
  <2>5. Table(rows, Keys, Invoices) /\ Table(columns, Invoices, Keys)
    BY <2>1 DEF Table
  <2> QED
    BY <2>1, <2>2, <2>3, <2>4, <2>5, SumSwap
<1>6. Placed(f) \in [Keys -> Nat] /\ PaidOff(f) \in [Invoices -> Nat]
  BY <1>3, <1>4 DEF Placed, PaidOff
<1> QED
  BY <1>5, <1>6

\* What a family was billed is what is listed and what has been paid off.
LEMMA BilledIsListed ==
  ASSUME CoveredInv, NEW f \in Families
  PROVE  ListedSum(f) \in Nat /\ Invoiced(f) = ListedSum(f) + SumOf(PaidOff(f))
<1> USE DEF CoveredInv, LedgerInv
<1> DEFINE listed == [i \in Listed(f) |-> Balance(i)]
           wider == [i \in Invoices |-> IF i \in Listed(f) THEN Balance(i) ELSE 0]
<1>1. ASSUME NEW i \in Invoices
      PROVE  /\ i \in Listed(f) => Balance(i) \in Nat
             /\ Billed(f)[i] = wider[i] + PaidOff(f)[i]
  <2>1. InvoicePaid(i) \in Nat
    BY PaidIsHeld
  <2>2. CASE i[1] = f /\ Live(i)
    <3>1. /\ invoice[i].total \in Nat /\ InvoicePaid(i) <= invoice[i].total /\ Issued(i)
          /\ invoice[i].status = StatusFor(invoice[i].total, InvoicePaid(i))
      BY <2>1, <2>2 DEF Live, Issued, TypeOK, Invoice, NeverOverpaid, StatusMatchesMoney
    <3>2. Balance(i) \in Nat /\ invoice[i].total = Balance(i) + InvoicePaid(i)
      BY <2>1, <3>1 DEF Balance
    <3>3. Balance(i) > 0 => invoice[i].status \in {"open", "partially_paid"}
      BY <2>1, <3>1, <3>2 DEF StatusFor
    <3>4. i \in Listed(f) <=> Balance(i) > 0
      BY <2>2, <3>1, <3>3 DEF Listed, BillsOf
    <3>5. Billed(f)[i] = invoice[i].total /\ PaidOff(f)[i] = InvoicePaid(i)
      BY <2>2 DEF Billed, PaidOff
    <3> QED
      BY <3>2, <3>4, <3>5
  <2>3. CASE ~(i[1] = f /\ Live(i))
    <3>1. i \notin Listed(f)
      BY <2>3 DEF Listed, BillsOf, Live
    <3>2. Billed(f)[i] = 0
      BY <2>3 DEF Billed
    <3>3. PaidOff(f)[i] = 0
      <4>1. i[1] = f => InvoicePaid(i) = 0
        BY <2>3, UnissuedUnpaid DEF VoidIsUnpaid
      <4> QED
        BY <4>1 DEF PaidOff
    <3> QED
      BY <3>1, <3>2, <3>3
  <2> QED
    BY <2>2, <2>3
<1>2. Listed(f) \subseteq Invoices
  BY DEF Listed, BillsOf
<1>3. listed \in [Listed(f) -> Nat] /\ wider \in [Invoices -> Nat]
  BY <1>1, <1>2
<1>4. SumOf(wider) = SumOf(listed)
  <2>1. (\A i \in Listed(f) : wider[i] = listed[i]) /\ \A i \in Invoices \ Listed(f) : wider[i] = 0
    BY <1>2
  <2> HIDE DEF wider, listed
  <2> QED BY <1>2, <1>3, <2>1, SumWider
<1>5. SumOf(Billed(f)) = SumOf(wider) + SumOf(PaidOff(f))
  <2>1. Billed(f) \in [Invoices -> Nat] /\ PaidOff(f) \in [Invoices -> Nat]
    BY BalanceIs, PlacedIsPaidOff
  <2>2. \A i \in Invoices : Billed(f)[i] = wider[i] + PaidOff(f)[i]
    BY <1>1
  <2> HIDE DEF wider
  <2> QED BY <1>3, <2>1, <2>2, InvoicesFinite, SumAdd
<1>6. SumOf(wider) \in Nat
  <2> HIDE DEF wider
  <2> QED BY <1>3, InvoicesFinite, SumIsNat
<1>7. ListedSum(f) = SumOf(listed)
  BY DEF ListedSum
<1> HIDE DEF listed, wider
<1> QED
  BY <1>4, <1>5, <1>6, <1>7, BalanceIs

\* What a family paid is what it got back, what lies on invoices and what does not.
LEMMA PaidIsPlaced ==
  ASSUME CoveredInv, NEW f \in Families
  PROVE  /\ Unplaced(f) \in Nat
         /\ Received(f) = Returned(f) + Unplaced(f) + SumOf(Placed(f))
<1> USE DEF CoveredInv, LedgerInv
<1> DEFINE loose == [k \in Keys |-> IF payment[k] # NoRow /\ reversal[k] = NoRow /\ payment[k].family = f
                                    THEN payment[k].amount - SumOf(payment[k].alloc) ELSE 0]
           kept == [k \in Keys |-> loose[k] + Placed(f)[k]]
<1>1. Placed(f) \in [Keys -> Nat] /\ Paid(f) \in [Keys -> Nat] /\ PaidBack(f) \in [Keys -> Nat]
  BY PlacedIsPaidOff, BalanceIs
<1>2. ASSUME NEW k \in Keys
      PROVE  loose[k] \in Nat /\ Paid(f)[k] = PaidBack(f)[k] + (loose[k] + Placed(f)[k])
  <2>1. CASE Stands(k, f)
    <3>1. payment[k].amount \in Nat /\ payment[k].alloc \in [Invoices -> Nat]
      BY <2>1 DEF Stands, TypeOK, Payment
    <3>2. SumOf(payment[k].alloc) \in Nat /\ SumOf(payment[k].alloc) <= payment[k].amount
      BY <2>1, <3>1, InvoicesFinite, SumIsNat DEF AllocationsAreCovered, Stands
    <3>3. /\ loose[k] = payment[k].amount - SumOf(payment[k].alloc)
          /\ Placed(f)[k] = SumOf(payment[k].alloc)
          /\ Paid(f)[k] = payment[k].amount /\ PaidBack(f)[k] = 0
      BY <2>1 DEF Stands, Placed, Paid, PaidBack
    <3> HIDE DEF loose
    <3> QED
      BY <3>1, <3>2, <3>3
  <2>2. CASE ~Stands(k, f)
    <3>1. loose[k] = 0 /\ Placed(f)[k] = 0
      BY <2>2 DEF Stands, Placed
    <3>2. Paid(f)[k] = PaidBack(f)[k]
      BY <2>2 DEF Stands, Paid, PaidBack, Mirrored
    <3>3. PaidBack(f)[k] \in Nat
      BY <1>1
    <3> HIDE DEF loose
    <3> QED
      BY <3>1, <3>2, <3>3
  <2> QED
    BY <2>1, <2>2
<1>3. loose \in [Keys -> Nat] /\ Unplaced(f) = SumOf(loose)
  BY <1>2 DEF Unplaced
<1>4. kept \in [Keys -> Nat] /\ \A k \in Keys : kept[k] = loose[k] + Placed(f)[k]
  BY <1>1, <1>2
<1>5. \A k \in Keys : Paid(f)[k] = PaidBack(f)[k] + kept[k]
  BY <1>2
<1> HIDE DEF loose, kept
<1>6. SumOf(kept) = SumOf(loose) + SumOf(Placed(f))
  BY <1>1, <1>3, <1>4, FinitelyMany, SumAdd
<1>7. SumOf(Paid(f)) = SumOf(PaidBack(f)) + SumOf(kept)
  BY <1>1, <1>4, <1>5, FinitelyMany, SumAdd
<1>8. SumOf(loose) \in Nat /\ SumOf(Placed(f)) \in Nat
  BY <1>1, <1>3, FinitelyMany, SumIsNat
<1> QED
  BY <1>3, <1>6, <1>7, <1>8, BalanceIs

\* The open invoices and the balance that a family, its statement and a donation
\* site are shown agree to the cent, whatever was paid, dictated, reversed and
\* voided before; and a site that offers the invoices listed is not refused.
THEOREM OffersAddUpHolds == Spec => []OffersAddUp
<1>1. ASSUME CoveredInv, NEW f \in Families
      PROVE  Owed(f) - InCredit(f) = ListedSum(f) - Unplaced(f)
  <2>1. /\ ListedSum(f) \in Nat /\ Invoiced(f) = ListedSum(f) + SumOf(PaidOff(f))
        /\ Unplaced(f) \in Nat /\ Received(f) = Returned(f) + Unplaced(f) + SumOf(Placed(f))
        /\ SumOf(Placed(f)) = SumOf(PaidOff(f))
    BY <1>1, BilledIsListed, PaidIsPlaced, PlacedIsPaidOff
  <2>2. Invoiced(f) \in Nat /\ Received(f) \in Nat /\ Returned(f) \in Nat /\ FamilyBalance(f) \in Int
    BY <1>1, BalanceIs DEF CoveredInv, LedgerInv
  <2>3. SumOf(Placed(f)) \in Nat
    BY <1>1, PlacedIsPaidOff, FinitelyMany, SumIsNat
  <2>4. FamilyBalance(f) = ListedSum(f) - Unplaced(f)
    BY <2>1, <2>2, <2>3 DEF FamilyBalance
  <2>5. Owed(f) - InCredit(f) = FamilyBalance(f)
    BY <2>2 DEF Owed, InCredit
  <2> QED
    BY <2>4, <2>5
<1>2. ASSUME CoveredInv, NEW f \in Families
      PROVE  Allowed(f, ListedSum(f), [i \in Listed(f) |-> Balance(i)])
  <2>1. ListedSum(f) \in Nat /\ ListedSum(f) = SumOf([i \in Listed(f) |-> Balance(i)])
    BY <1>2, BilledIsListed DEF ListedSum
  <2>2. ASSUME NEW i \in Listed(f)
        PROVE  i[1] = f /\ Live(i) /\ Balance(i) <= Balance(i)
    <3>1. i \in Invoices /\ i[1] = f /\ Issued(i) /\ Live(i)
      BY DEF Listed, BillsOf, Live
    <3>2. Balance(i) \in Int
      BY <1>2, <3>1, PaidTypes DEF CoveredInv, LedgerInv, TypeOK, Issued, Invoice, Balance
    <3> QED
      BY <3>1, <3>2
  <2> QED
    BY <2>1, <2>2 DEF Allowed
<1>3. CoveredInv => OffersAddUp
  BY <1>1, <1>2 DEF OffersAddUp
<1> QED
  BY <1>3, CoveredInvHolds, PTL

-----------------------------------------------------------------------------
(* The loop of recordPayment computes the allocation the operations use *)

\* The query sorts by the order of Before.
LEMMA QueryOrder ==
  ASSUME TypeOK, NEW i \in Invoices, NEW j \in Invoices, Issued(i), Issued(j)
  PROVE  QueriedBefore(i, j) <=> Before(i, j)
<1>1. \A l \in {i, j} : /\ invoice[l].createdAt \in Nat
                        /\ invoice[l].due \in Nat \cup {NoDate}
  BY DEF TypeOK, Issued, Invoice
<1>2. NoDate \notin Nat
  BY TermsAreSound
<1>3. QueriedBefore(i, j) <=>
        \/ SortKey(i)[1] < SortKey(j)[1]
        \/ SortKey(i)[1] = SortKey(j)[1] /\ SortKey(i)[2] < SortKey(j)[2]
        \/ /\ SortKey(i)[1] = SortKey(j)[1] /\ SortKey(i)[2] = SortKey(j)[2]
           /\ SortKey(i)[3] < SortKey(j)[3]
  <2>1. 1 .. 3 = {1, 2, 3} /\ 1 .. 1 - 1 = {} /\ 1 .. 2 - 1 = {1} /\ 1 .. 3 - 1 = {1, 2}
    OBVIOUS
  <2> QED
    BY <2>1 DEF QueriedBefore
<1>4. \A l \in {i, j} :
        /\ SortKey(l)[1] = IF invoice[l].due = NoDate THEN 1 ELSE 0
        /\ SortKey(l)[2] = IF invoice[l].due = NoDate THEN 0 ELSE invoice[l].due
        /\ SortKey(l)[3] = invoice[l].createdAt
  BY DEF SortKey
<1> QED
  BY <1>1, <1>2, <1>3, <1>4 DEF Before

\* In order, one after the other: how many of the family's come before i.
Earlier(f, i) == {j \in BillsOf(f) : Before(j, i)}

LEMMA EarlierGrows ==
  ASSUME TypeOK, NEW f, NEW i \in BillsOf(f)
  PROVE  /\ IsFiniteSet(BillsOf(f)) /\ Cardinality(BillsOf(f)) \in Nat
         /\ Cardinality(Earlier(f, i)) \in 0 .. Cardinality(BillsOf(f)) - 1
         /\ \A j \in BillsOf(f) :
              Before(i, j) => Cardinality(Earlier(f, i)) < Cardinality(Earlier(f, j))
<1>1. BillsOf(f) \subseteq Invoices /\ \A j \in BillsOf(f) : Issued(j)
  BY DEF BillsOf
<1>2. IsFiniteSet(BillsOf(f)) /\ Cardinality(BillsOf(f)) \in Nat
  BY <1>1, InvoicesFinite, FS_Subset, FS_CardinalityType
<1>3. ASSUME NEW T, T \subseteq BillsOf(f), i \notin T
      PROVE  IsFiniteSet(T) /\ Cardinality(T) \in Nat /\ Cardinality(T \cup {i}) = Cardinality(T) + 1
  BY <1>2, <1>3, FS_Subset, FS_CardinalityType, FS_AddElement
<1>4. Earlier(f, i) \subseteq BillsOf(f) /\ i \notin Earlier(f, i)
  BY <1>1, BeforeIsAnOrder DEF Earlier
<1>5. ASSUME NEW T, T \subseteq BillsOf(f), Earlier(f, i) \cup {i} \subseteq T
      PROVE  Cardinality(Earlier(f, i)) + 1 <= Cardinality(T)
  <2>1. IsFiniteSet(T)
    BY <1>2, <1>5, FS_Subset
  <2>2. Cardinality(Earlier(f, i) \cup {i}) <= Cardinality(T)
    BY <1>5, <2>1, FS_Subset
  <2>3. Cardinality(Earlier(f, i) \cup {i}) = Cardinality(Earlier(f, i)) + 1
    BY <1>3, <1>4
  <2> QED
    BY <2>2, <2>3
<1>6. Cardinality(Earlier(f, i)) \in Nat /\ Cardinality(Earlier(f, i)) + 1 <= Cardinality(BillsOf(f))
  BY <1>3, <1>4, <1>5
<1>7. ASSUME NEW j \in BillsOf(f), Before(i, j)
      PROVE  Cardinality(Earlier(f, i)) < Cardinality(Earlier(f, j))
  <2>1. Earlier(f, i) \cup {i} \subseteq Earlier(f, j)
    BY <1>1, <1>7, BeforeIsAnOrder DEF Earlier
  <2>2. Earlier(f, j) \subseteq BillsOf(f) /\ Cardinality(Earlier(f, j)) \in Nat
    BY <1>2, FS_Subset, FS_CardinalityType DEF Earlier
  <2> QED
    BY <1>5, <1>6, <2>1, <2>2
<1> QED
  BY <1>2, <1>6, <1>7

\* A list of the family's invoices in order, each of them once.
Listing(f, open) ==
  /\ open \in [1 .. Cardinality(BillsOf(f)) -> BillsOf(f)]
  /\ \A m, n \in 1 .. Cardinality(BillsOf(f)) : m < n => QueriedBefore(open[m], open[n])

LEMMA QueriedIsAListing ==
  ASSUME TypeOK, Numbered, NEW f
  PROVE  Listing(f, Queried(f))
<1> DEFINE B == BillsOf(f)
           count == Cardinality(B)
           rank == [i \in B |-> Cardinality(Earlier(f, i)) + 1]
           open == [n \in 1 .. count |-> CHOOSE i \in B : rank[i] = n]
<1>1. IsFiniteSet(B) /\ count \in Nat /\ \A i \in B : i \in Invoices /\ Issued(i)
  BY InvoicesFinite, FS_Subset, FS_CardinalityType DEF BillsOf
<1>2. rank \in [B -> 1 .. count]
  BY <1>1, EarlierGrows
<1>3. \A i, j \in B : Before(i, j) => rank[i] < rank[j]
  BY <1>1, EarlierGrows
<1>4. \A i, j \in B : i # j => Before(i, j) \/ Before(j, i)
  BY BeforeIsTotal
<1>5. \A i, j \in B : rank[i] < rank[j] => Before(i, j)
  <2> SUFFICES ASSUME NEW i \in B, NEW j \in B, rank[i] < rank[j] PROVE Before(i, j)
    OBVIOUS
  <2>1. rank[i] \in Int /\ rank[j] \in Int
    BY <1>2
  <2> HIDE DEF rank
  <2> QED
    BY <1>3, <1>4, <2>1
<1>6. \A i, j \in B : rank[i] = rank[j] => i = j
  <2> SUFFICES ASSUME NEW i \in B, NEW j \in B, rank[i] = rank[j], i # j PROVE FALSE
    OBVIOUS
  <2>1. rank[i] \in Int /\ rank[j] \in Int
    BY <1>2
  <2> HIDE DEF rank
  <2> QED
    BY <1>3, <1>4, <2>1
<1>7. \A n \in 1 .. count : \E i \in B : rank[i] = n
  <2> HIDE DEF rank, B
  <2>1. rank \in Injection(B, 1 .. count)
    BY <1>2, <1>6 DEF Injection, IsInjective
  <2>2. IsFiniteSet(1 .. count) /\ Cardinality(1 .. count) = count
    BY <1>1, FS_Interval
  <2>3. rank \in Surjection(B, 1 .. count)
    BY <2>1, <2>2, FS_Injection
  <2> QED
    BY <2>3 DEF Surjection
<1>8. \A n \in 1 .. count : open[n] \in B /\ rank[open[n]] = n
  <2> HIDE DEF rank, B
  <2> QED BY <1>7
<1>9. open \in [1 .. count -> B]
  BY <1>8
<1>10. \A m, n \in 1 .. count : m < n => QueriedBefore(open[m], open[n])
  <2> SUFFICES ASSUME NEW m \in 1 .. count, NEW n \in 1 .. count, m < n
               PROVE  QueriedBefore(open[m], open[n])
    OBVIOUS
  <2>1. PICK i \in B, j \in B : i = open[m] /\ j = open[n] /\ rank[i] < rank[j]
    <3> HIDE DEF open, rank, B
    <3> QED BY <1>8
  <2>2. Before(i, j)
    BY <1>5, <2>1
  <2>3. QueriedBefore(i, j)
    BY <1>1, <2>2, QueryOrder
  <2> HIDE DEF open
  <2> QED
    BY <2>1, <2>3
<1>11. Listing(f, open)
  <2> HIDE DEF open
  <2> QED BY <1>9, <1>10 DEF Listing
<1> HIDE DEF open
<1> QED
  BY <1>11 DEF Listing, Queried

\* A listing has each of the family's invoices once, and what comes before an
\* entry is what is listed before it.
LEMMA ListingIs ==
  ASSUME TypeOK, NEW f, NEW open, Listing(f, open)
  PROVE  /\ \A i \in BillsOf(f) : \E n \in 1 .. Cardinality(BillsOf(f)) : open[n] = i
         /\ \A m, n \in 1 .. Cardinality(BillsOf(f)) : open[m] = open[n] => m = n
         /\ \A m, n \in 1 .. Cardinality(BillsOf(f)) : Before(open[m], open[n]) <=> m < n
<1> DEFINE B == BillsOf(f)
           count == Cardinality(B)
<1>1. IsFiniteSet(B) /\ count \in Nat /\ \A i \in B : i \in Invoices /\ Issued(i)
  BY InvoicesFinite, FS_Subset, FS_CardinalityType DEF BillsOf
<1>2. open \in [1 .. count -> B] /\ \A m, n \in 1 .. count : m < n => QueriedBefore(open[m], open[n])
  BY DEF Listing
<1> HIDE DEF B
<1>3. \A n \in 1 .. count : open[n] \in Invoices /\ Issued(open[n])
  BY <1>1, <1>2
<1>4. \A m, n \in 1 .. count : m < n => Before(open[m], open[n])
  BY <1>2, <1>3, QueryOrder
<1>5. \A m, n \in 1 .. count : Before(open[m], open[n]) => ~(n < m) /\ m # n
  BY <1>3, <1>4, BeforeIsAnOrder
<1>6. \A m, n \in 1 .. count : open[m] = open[n] => m = n
  <2> SUFFICES ASSUME NEW m \in 1 .. count, NEW n \in 1 .. count, open[m] = open[n], m # n
               PROVE  FALSE
    OBVIOUS
  <2>1. m < n \/ n < m
    BY <1>1
  <2> QED
    BY <1>4, <1>5, <2>1
<1>7. \A m, n \in 1 .. count : Before(open[m], open[n]) <=> m < n
  <2> SUFFICES ASSUME NEW m \in 1 .. count, NEW n \in 1 .. count
               PROVE  Before(open[m], open[n]) <=> m < n
    OBVIOUS
  <2>1. m < n \/ n < m \/ m = n
    BY <1>1
  <2> QED
    BY <1>4, <1>5, <2>1
<1>8. \A i \in B : \E n \in 1 .. count : open[n] = i
  <2>1. open \in Injection(1 .. count, B)
    BY <1>2, <1>6 DEF Injection, IsInjective
  <2>2. IsFiniteSet(1 .. count) /\ Cardinality(1 .. count) = count
    BY <1>1, FS_Interval
  <2>3. open \in Surjection(1 .. count, B)
    BY <1>1, <2>1, <2>2, FS_Injection
  <2> QED
    BY <2>3 DEF Surjection
<1> QED
  BY <1>6, <1>7, <1>8 DEF B

\* Room adds up along a listing.
LEMMA RoomAddsUp ==
  ASSUME TypeOK, NEW f, NEW open, Listing(f, open), NEW n \in 1 .. Cardinality(BillsOf(f))
  PROVE  RoomBefore(f, open[n]) = IF n = 1 THEN 0
                                  ELSE RoomBefore(f, open[n - 1]) + Room(open[n - 1])
<1> DEFINE count == Cardinality(BillsOf(f))
<1>1. count \in Nat /\ \A i \in BillsOf(f) : i \in Invoices
  BY InvoicesFinite, FS_Subset, FS_CardinalityType DEF BillsOf
<1>2. PICK i \in BillsOf(f) : i = open[n]
  BY DEF Listing
<1>3. /\ i \in Invoices /\ RoomOf(f, i) \in [Invoices -> Nat]
      /\ RoomBefore(f, i) = SumOf(RoomOf(f, i))
  BY <1>1, RoomBeforeIs
<1>4. ASSUME NEW k \in BillsOf(f), Before(k, i)
      PROVE  \E m \in 1 .. count : k = open[m] /\ m < n
  BY <1>2, <1>4, ListingIs
<1>5. CASE n = 1
  <2>1. ~\E m \in 1 .. count : m < n
    BY <1>1, <1>5
  <2>2. \A k \in Invoices : RoomOf(f, i)[k] = 0
    BY <1>4, <2>1 DEF RoomOf
  <2>3. SumOf(RoomOf(f, i)) = 0
    BY <1>3, <2>2, InvoicesFinite, SumZero
  <2> QED
    BY <1>2, <1>3, <1>5, <2>3
<1>6. CASE n # 1
  <2>1. n - 1 \in 1 .. count /\ n - 1 < n
    BY <1>1, <1>6
  <2>2. PICK j \in BillsOf(f) : j = open[n - 1]
    BY <2>1 DEF Listing
  <2>3. /\ j \in Invoices /\ RoomOf(f, j) \in [Invoices -> Nat]
        /\ RoomBefore(f, j) = SumOf(RoomOf(f, j)) /\ Room(j) \in Nat /\ SumOf(RoomOf(f, j)) \in Nat
    BY <1>1, RoomBeforeIs, RoomTypes
  <2>4. Before(j, i)
    BY <1>2, <2>1, <2>2, ListingIs
  <2>5. ASSUME NEW k \in BillsOf(f), k # j
        PROVE  Before(k, i) <=> Before(k, j)
    <3>1. PICK m \in 1 .. count : k = open[m]
      BY ListingIs
    <3>2. (Before(k, i) <=> m < n) /\ (Before(k, j) <=> m < n - 1) /\ m # n - 1
      BY <1>2, <2>1, <2>2, <2>5, <3>1, ListingIs
    <3> QED
      BY <1>1, <2>1, <3>2
  <2>6. \A k \in Invoices : k # j => RoomOf(f, i)[k] = RoomOf(f, j)[k]
    BY <2>5 DEF RoomOf
  <2>7. RoomOf(f, i)[j] = Room(j) /\ RoomOf(f, j)[j] = 0
    <3>1. ~Before(j, j)
      BY <1>1, BeforeIsAnOrder DEF BillsOf
    <3> QED
      BY <2>3, <2>4, <3>1 DEF RoomOf
  <2>8. SumOf(RoomOf(f, i)) = SumOf(RoomOf(f, j)) - RoomOf(f, j)[j] + RoomOf(f, i)[j]
    BY <1>3, <2>3, <2>6, InvoicesFinite, SumMoves
  <2> QED
    BY <1>2, <1>3, <1>6, <2>2, <2>3, <2>7, <2>8
<1> QED
  BY <1>5, <1>6

\* An iteration takes the lesser of what remains and of the room there is.
LEMMA TakenIs ==
  ASSUME TypeOK, NEW f, NEW i \in BillsOf(f), NEW remaining \in Nat
  PROVE  Taken(remaining, i) = Lesser(Room(i), remaining)
<1>1. i \in Invoices /\ Issued(i) /\ Room(i) \in Nat
  BY RoomTypes DEF BillsOf
<1>2. Balance(i) \in Int
  BY <1>1, PaidTypes DEF Balance, Issued, TypeOK, Invoice
<1> QED
  BY <1>1, <1>2 DEF Taken, Lesser, Room, Live

\* What the loop leaves after each iteration: the payment less the room so far.
LEMMA RemainingIs ==
  ASSUME TypeOK, Numbered, NEW f, NEW amt \in Nat
  PROVE  \A n \in 1 .. Cardinality(BillsOf(f)) :
           Remaining(f, amt)[n - 1] = LessBy(amt, RoomBefore(f, Queried(f)[n]))
<1> DEFINE count == Cardinality(BillsOf(f))
           q == Queried(f)
           Unrolls(h) == h = [n \in 0 .. count |->
                               IF n = 0 THEN amt ELSE h[n - 1] - Taken(h[n - 1], q[n])]
           sofar == [n \in 0 .. count |-> IF n = 0 THEN 0 ELSE RoomBefore(f, q[n]) + Room(q[n])]
           g == [n \in 0 .. count |-> LessBy(amt, sofar[n])]
           h == Remaining(f, amt)
<1>1. count \in Nat
  BY InvoicesFinite, FS_Subset, FS_CardinalityType DEF BillsOf
<1>2. Listing(f, q)
  BY QueriedIsAListing
<1>3. ASSUME NEW n \in 1 .. count
      PROVE  /\ q[n] \in BillsOf(f) /\ q[n] \in Invoices
             /\ RoomBefore(f, q[n]) \in Nat /\ Room(q[n]) \in Nat
  <2>1. q[n] \in BillsOf(f)
    BY <1>2 DEF Listing
  <2> QED
    BY <2>1, RoomBeforeIs, RoomTypes DEF BillsOf
<1> HIDE DEF q
<1>4. \A n \in 1 .. count : RoomBefore(f, q[n]) = sofar[n - 1]
  <2> SUFFICES ASSUME NEW n \in 1 .. count PROVE RoomBefore(f, q[n]) = sofar[n - 1]
    OBVIOUS
  <2>1. RoomBefore(f, q[n]) = IF n = 1 THEN 0 ELSE RoomBefore(f, q[n - 1]) + Room(q[n - 1])
    BY <1>2, RoomAddsUp
  <2> QED
    BY <1>1, <2>1
<1>5. \A n \in 0 .. count : sofar[n] \in Nat
  BY <1>1, <1>3
<1>6. \A n \in 1 .. count : sofar[n] = sofar[n - 1] + Room(q[n])
  BY <1>1, <1>3, <1>4
<1> HIDE DEF sofar
<1>7. \A n \in 0 .. count : g[n] \in Nat
  BY <1>5 DEF LessBy
<1>8. g[0] = amt
  <2>1. sofar[0] = 0
    BY <1>1 DEF sofar
  <2> QED
    BY <1>1, <2>1 DEF LessBy
<1>9. \A n \in 1 .. count : g[n] = g[n - 1] - Taken(g[n - 1], q[n])
  <2> SUFFICES ASSUME NEW n \in 1 .. count PROVE g[n] = g[n - 1] - Taken(g[n - 1], q[n])
    OBVIOUS
  <2>1. n - 1 \in 0 .. count /\ n \in 0 .. count
    BY <1>1
  <2>2. Taken(g[n - 1], q[n]) = Lesser(Room(q[n]), g[n - 1])
    <3> HIDE DEF g
    <3> QED BY <1>3, <1>7, <2>1, TakenIs
  <2>3. /\ g[n] = LessBy(amt, sofar[n - 1] + Room(q[n])) /\ g[n - 1] = LessBy(amt, sofar[n - 1])
        /\ sofar[n - 1] \in Nat /\ Room(q[n]) \in Nat
    BY <1>3, <1>5, <1>6, <2>1
  <2> HIDE DEF g
  <2> QED
    BY <2>2, <2>3 DEF LessBy, Lesser
<1>10. Unrolls(g)
  <2>1. DOMAIN g = 0 .. count /\ g = [n \in 0 .. count |-> g[n]]
    OBVIOUS
  <2> HIDE DEF g
  <2>2. \A n \in 0 .. count : g[n] = IF n = 0 THEN amt ELSE g[n - 1] - Taken(g[n - 1], q[n])
    BY <1>1, <1>8, <1>9
  <2> QED
    BY <2>1, <2>2
<1>11. h = CHOOSE left : Unrolls(left)
  BY DEF Remaining, q
<1> HIDE DEF g, h, Unrolls
<1>12. Unrolls(h)
  BY <1>10, <1>11
<1>13. h[0] = amt /\ \A n \in 1 .. count : h[n] = h[n - 1] - Taken(h[n - 1], q[n])
  BY <1>1, <1>12 DEF Unrolls
<1>14. \A n \in 0 .. count : h[n] = g[n]
  <2> DEFINE Wrong == {n \in 0 .. count : h[n] # g[n]}
  <2> SUFFICES ASSUME Wrong # {} PROVE FALSE
    OBVIOUS
  <2>1. Wrong \subseteq Nat
    BY <1>1
  <2>2. PICK n \in Wrong : \A m \in Wrong : n <= m
    <3> HIDE DEF Wrong
    <3> QED BY <2>1, LeastNat
  <2>3. n \in 0 .. count /\ h[n] # g[n]
    OBVIOUS
  <2>4. n # 0
    BY <1>8, <1>13, <2>3
  <2>5. n \in 1 .. count /\ n - 1 \in 0 .. count /\ ~(n <= n - 1)
    BY <1>1, <2>3, <2>4
  <2>6. h[n - 1] = g[n - 1]
    BY <2>2, <2>5
  <2> QED
    BY <1>9, <1>13, <2>3, <2>5, <2>6
<1>15. ASSUME NEW n \in 1 .. count
       PROVE  h[n - 1] = LessBy(amt, RoomBefore(f, q[n]))
  <2>1. n - 1 \in 0 .. count
    BY <1>1
  <2> QED
    BY <1>4, <1>14, <2>1 DEF g
<1> QED
  BY <1>15 DEF h, q

\* The closed form that the operations use is what the loop over the query
\* computes, however many invoices the family has.
THEOREM AllocationIsTheLoopHolds == Spec => []AllocationIsTheLoop
<1>1. ASSUME CoveredInv
      PROVE  AllocationIsTheLoop
  <2> SUFFICES ASSUME NEW f \in Families, NEW amt \in Amounts
               PROVE  OldestDueFirst(f, amt) = Loop(f, amt)
    BY DEF AllocationIsTheLoop
  <2>1. TypeOK /\ Numbered /\ amt \in Nat
    BY <1>1, PaymentsArePositive DEF CoveredInv, LedgerInv
  <2> DEFINE q == Queried(f)
             count == Cardinality(BillsOf(f))
  <2>2. Listing(f, q)
    BY <2>1, QueriedIsAListing
  <2>3. ASSUME NEW i \in BillsOf(f)
        PROVE  Loop(f, amt)[i] = OldestDueFirst(f, amt)[i]
    <3>1. i \in Invoices /\ RoomBefore(f, i) \in Nat
      BY <2>1, RoomBeforeIs DEF BillsOf
    <3>2. PICK n : n = CHOOSE k \in DOMAIN q : q[k] = i
      OBVIOUS
    <3>3. DOMAIN q = 1 .. count /\ \E k \in DOMAIN q : q[k] = i
      <4> HIDE DEF q
      <4>1. DOMAIN q = 1 .. count
        BY <2>2 DEF Listing
      <4>2. \E k \in 1 .. count : q[k] = i
        BY <2>1, <2>2, ListingIs
      <4> QED
        BY <4>1, <4>2
    <3>4. n \in 1 .. count /\ q[n] = i
      BY <3>2, <3>3
    <3>5. Loop(f, amt)[i] = Taken(Remaining(f, amt)[n - 1], i)
      BY <3>1, <3>2 DEF Loop
    <3>6. Remaining(f, amt)[n - 1] = LessBy(amt, RoomBefore(f, i))
      BY <2>1, <3>4, RemainingIs
    <3>7. LessBy(amt, RoomBefore(f, i)) \in Nat
      BY <2>1, <3>1 DEF LessBy
    <3>8. Taken(LessBy(amt, RoomBefore(f, i)), i) = Lesser(Room(i), LessBy(amt, RoomBefore(f, i)))
      BY <2>1, <3>7, TakenIs
    <3> QED
      BY <3>1, <3>5, <3>6, <3>8 DEF OldestDueFirst
  <2>4. \A i \in Invoices : Loop(f, amt)[i] = OldestDueFirst(f, amt)[i]
    <3>1. \A i \in Invoices : i \notin BillsOf(f) => Loop(f, amt)[i] = OldestDueFirst(f, amt)[i]
      BY DEF Loop, OldestDueFirst
    <3> QED
      BY <2>3, <3>1
  <2>5. /\ Loop(f, amt) = [i \in Invoices |-> Loop(f, amt)[i]]
        /\ OldestDueFirst(f, amt) = [i \in Invoices |-> OldestDueFirst(f, amt)[i]]
    BY DEF Loop, OldestDueFirst
  <2> QED
    BY <2>4, <2>5
<1> QED
  BY <1>1, CoveredInvHolds, PTL
=============================================================================
