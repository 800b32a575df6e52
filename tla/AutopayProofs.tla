--------------------------- MODULE AutopayProofs ---------------------------
(***************************************************************************)
(* Theorems about autopay, for any families, bills, days and outcomes at   *)
(* Stripe, whether or not the process may die.                             *)
(*                                                                         *)
(* What the ledger keeps is proved in LedgerProofs; LP is those theorems   *)
(* for autopay's ledger.  L and LP define every operator of the ledger     *)
(* twice over, so the first lemmas say that the two are the same.          *)
(***************************************************************************)
EXTENDS Autopay, FiniteSetTheorems, TLAPS

LP == INSTANCE LedgerProofs WITH Enrolled <- Families, Keys <- Runs \cup ByHand, ladder <- Ladder

-----------------------------------------------------------------------------
(* The ledger under autopay *)

LEMMA SameFinite == ASSUME NEW S PROVE IsFiniteSet(S) = LP!IsFiniteSet(S) /\ L!IsFiniteSet(S) = LP!IsFiniteSet(S)
BY DEF IsFiniteSet, L!IsFiniteSet, LP!IsFiniteSet

LEMMA SameSum == ASSUME NEW f PROVE L!SumOf(f) = LP!SumOf(f)
<1>1. \A S : L!Cardinality(S) = LP!Cardinality(S)
  BY DEF L!Cardinality, LP!Cardinality
<1>2. L!Coins(f) = LP!Coins(f)
  BY DEF L!Coins, LP!Coins
<1> QED
  BY <1>1, <1>2 DEF L!SumOf, LP!SumOf

LEMMA SameSets ==
  L!Statuses = LP!Statuses /\ L!Invoice = LP!Invoice /\ L!Payment = LP!Payment /\ L!Reversal = LP!Reversal
BY DEF L!Statuses, LP!Statuses, L!Invoice, LP!Invoice, L!Payment, LP!Payment, L!Reversal, LP!Reversal

LEMMA Sound == LP!SoundConstants
BY LedgerConstants, SameFinite, SameSets DEF L!SoundConstants, LP!SoundConstants

LEMMA SameTypes == L!TypeOK = LP!TypeOK /\ (L!TypeOK)' = (LP!TypeOK)'
BY SameSets DEF L!TypeOK, LP!TypeOK

LEMMA SameLive == ASSUME NEW i PROVE L!Issued(i) = LP!Issued(i) /\ L!Live(i) = LP!Live(i)
BY DEF L!Issued, LP!Issued, L!Live, LP!Live

LEMMA SamePaid == ASSUME NEW i PROVE L!InvoicePaid(i) = LP!InvoicePaid(i)
<1>1. \A k : L!Applied(k, i) = LP!Applied(k, i) /\ L!Restored(k, i) = LP!Restored(k, i)
  BY DEF L!Applied, LP!Applied, L!Restored, LP!Restored
<1>2. /\ [k \in Runs \cup ByHand |-> L!Applied(k, i)] = [k \in Runs \cup ByHand |-> LP!Applied(k, i)]
      /\ [k \in Runs \cup ByHand |-> L!Restored(k, i)] = [k \in Runs \cup ByHand |-> LP!Restored(k, i)]
  BY <1>1
<1> QED
  BY <1>2, SameSum DEF L!InvoicePaid, LP!InvoicePaid

LEMMA SameBalance == ASSUME NEW i PROVE L!Balance(i) = LP!Balance(i)
BY SamePaid DEF L!Balance, LP!Balance

LEMMA SameLoop == ASSUME NEW f, NEW amt PROVE L!OldestDueFirst(f, amt) = LP!OldestDueFirst(f, amt)
<1>1. L!BillsOf(f) = LP!BillsOf(f)
  BY SameLive DEF L!BillsOf, LP!BillsOf
<1>2. \A i : L!Room(i) = LP!Room(i)
  BY SameLive, SameBalance DEF L!Room, LP!Room
<1>3. \A i, j : L!Before(i, j) = LP!Before(i, j)
  BY DEF L!Before, LP!Before
<1>4. \A i : L!RoomBefore(f, i) = LP!RoomBefore(f, i)
  <2> SUFFICES ASSUME NEW i
               PROVE  L!RoomBefore(f, i) = LP!RoomBefore(f, i)
    OBVIOUS
  <2>1. [j \in Invoices |-> IF j \in L!BillsOf(f) /\ L!Before(j, i) THEN L!Room(j) ELSE 0]
          = [j \in Invoices |-> IF j \in LP!BillsOf(f) /\ LP!Before(j, i) THEN LP!Room(j) ELSE 0]
    BY <1>1, <1>2, <1>3
  <2> QED
    BY <2>1, SameSum DEF L!RoomBefore, LP!RoomBefore
<1> QED
  BY <1>1, <1>2, <1>4 DEF L!OldestDueFirst, LP!OldestDueFirst, L!Lesser, LP!Lesser, L!LessBy, LP!LessBy

LEMMA SameRefresh ==
  ASSUME NEW touched, NEW a, NEW b, \A i \in Invoices : a[i] = b[i]
  PROVE  L!Refreshed(touched, a) = LP!Refreshed(touched, b)
BY SameLive DEF L!Refreshed, LP!Refreshed, L!StatusFor, LP!StatusFor

LEMMA SameRecording ==
  ASSUME NEW k, NEW f, NEW amt, NEW alloc
  PROVE  L!RecordRows(k, f, amt, alloc) = LP!RecordRows(k, f, amt, alloc)
<1> DEFINE a == [i \in Invoices |-> L!InvoicePaid(i) + alloc[i]]
           b == [i \in Invoices |-> LP!InvoicePaid(i) + alloc[i]]
           touched == {i \in Invoices : alloc[i] > 0}
<1>1. \A i \in Invoices : a[i] = b[i]
  BY SamePaid
<1>2. L!Refreshed(touched, a) = LP!Refreshed(touched, b)
  <2> HIDE DEF a, b, touched
  <2> QED BY <1>1, SameRefresh
<1> QED
  BY <1>2 DEF L!RecordRows, LP!RecordRows

LEMMA SameReversal ==
  ASSUME NEW k
  PROVE  L!ReversePayment(k) = LP!ReversePayment(k)
<1> DEFINE a == [i \in Invoices |-> L!InvoicePaid(i) - payment[k].alloc[i]]
           b == [i \in Invoices |-> LP!InvoicePaid(i) - payment[k].alloc[i]]
           touched == {i \in Invoices : payment[k].alloc[i] > 0}
<1>1. \A i \in Invoices : a[i] = b[i]
  BY SamePaid
<1>2. L!Refreshed(touched, a) = LP!Refreshed(touched, b)
  <2> HIDE DEF a, b, touched
  <2> QED BY <1>1, SameRefresh
<1> QED
  BY <1>2 DEF L!ReversePayment, LP!ReversePayment

LEMMA SameVoiding == ASSUME NEW i PROVE L!VoidInvoice(i) = LP!VoidInvoice(i)
BY SameLive, SamePaid DEF L!VoidInvoice, LP!VoidInvoice

LEMMA SameGeneration ==
  ASSUME NEW i, NEW terms
  PROVE  L!GenerateForFamily(i, terms) = LP!GenerateForFamily(i, terms)
<1>1. L!BillsOf(i[1]) = LP!BillsOf(i[1])
  BY SameLive DEF L!BillsOf, LP!BillsOf
<1>2. L!Cardinality(L!BillsOf(i[1])) = LP!Cardinality(LP!BillsOf(i[1]))
  BY <1>1 DEF L!Cardinality, LP!Cardinality
<1> QED
  BY <1>2, SameLive DEF L!GenerateForFamily, LP!GenerateForFamily

LEMMA SameInit == L!Init = LP!Init
BY DEF L!Init, LP!Init

LEMMA LadderFits ==
  /\ Ladder \in [Families -> {"clear", "raised"}]
  /\ Ladder' \in [Families -> {"clear", "raised"}]
BY DEF Ladder

\* The ledger's invariant, with all that it promises, and what else of the
\* ledger the steps of autopay need.
LEMMA MoneyStays ==
  ASSUME LP!CoveredInv, UNCHANGED money
  PROVE  LP!CoveredInv'
<1>1. LP!LedgerInv'
  BY Sound, LadderFits, LP!LadderKeeps DEF LP!CoveredInv, money
<1>2. LP!Numbered' /\ LP!AllocationsAreCovered'
  BY Sound, LP!BooksCovered DEF money
<1> QED
  BY <1>1, <1>2 DEF LP!CoveredInv

LEMMA GenerateKeepsBooks ==
  ASSUME LP!CoveredInv, NEW i \in Invoices, NEW terms \in Terms[i], L!GenerateForFamily(i, terms)
  PROVE  LP!CoveredInv' /\ payment' = payment
<1>1. LP!GenerateForFamily(i, terms) /\ payment' = payment
  BY SameGeneration DEF L!GenerateForFamily
<1>2. LP!LedgerInv'
  BY <1>1, Sound, LP!GenerateKeeps DEF LP!CoveredInv
<1>3. LP!Numbered' /\ LP!AllocationsAreCovered'
  BY <1>1, Sound, LP!GenerateCovered
<1> QED
  BY <1>1, <1>2, <1>3 DEF LP!CoveredInv

LEMMA VoidKeepsBooks ==
  ASSUME LP!CoveredInv, NEW i \in Invoices, L!VoidInvoice(i)
  PROVE  LP!CoveredInv' /\ payment' = payment
<1>1. LP!VoidInvoice(i) /\ payment' = payment
  BY SameVoiding DEF L!VoidInvoice
<1>2. LP!LedgerInv'
  BY <1>1, Sound, LP!VoidKeeps DEF LP!CoveredInv
<1>3. LP!Numbered' /\ LP!AllocationsAreCovered'
  BY <1>1, Sound, LP!VoidCovered
<1> QED
  BY <1>1, <1>2, <1>3 DEF LP!CoveredInv

LEMMA ReverseKeepsBooks ==
  ASSUME LP!CoveredInv, NEW k \in Runs \cup ByHand, L!ReversePayment(k)
  PROVE  LP!CoveredInv' /\ payment' = payment
<1>1. LP!ReversePayment(k) /\ payment' = payment
  BY SameReversal DEF L!ReversePayment
<1>2. LP!LedgerInv'
  BY <1>1, Sound, LP!ReverseKeeps DEF LP!CoveredInv
<1>3. LP!Numbered' /\ LP!AllocationsAreCovered'
  BY <1>1, Sound, LP!ReverseCovered
<1> QED
  BY <1>1, <1>2, <1>3 DEF LP!CoveredInv

\* Recording books a payment once: a key that was used is left alone.
LEMMA RecordedIs ==
  ASSUME LP!CoveredInv, NEW k \in Runs \cup ByHand, NEW f \in Families, NEW amt \in Nat,
         Recorded(k, f, amt)
  PROVE  /\ LP!CoveredInv'
         /\ \A q \in Runs \cup ByHand : q # k => payment'[q] = payment[q]
         /\ payment'[k] # NoRow
         /\ payment[k] # NoRow => payment'[k] = payment[k]
         /\ payment[k] = NoRow => payment'[k].amount = amt
<1>1. CASE payment[k] # NoRow
  <2>1. UNCHANGED money
    BY <1>1 DEF Recorded
  <2> QED
    BY <1>1, <2>1, MoneyStays DEF money
<1>2. CASE payment[k] = NoRow
  <2> DEFINE alloc == LP!OldestDueFirst(f, amt)
             row == [family |-> f, amount |-> amt, alloc |-> alloc]
  <2>1. LP!RecordRows(k, f, amt, alloc)
    BY <1>2, SameLoop, SameRecording DEF Recorded
  <2>2. /\ alloc \in [Invoices -> Nat]
        /\ \A i \in Invoices : alloc[i] > 0 => i[1] = f /\ LP!Live(i) /\ alloc[i] <= LP!Balance(i)
    BY Sound, LP!LoopWithinBalance DEF LP!CoveredInv, LP!LedgerInv
  <2>3. LP!SumOf(alloc) <= amt
    BY Sound, LP!LoopWithinPayment DEF LP!CoveredInv, LP!LedgerInv
  <2>4. row \in LP!Payment /\ row # NoRow
    <3>1. row \in LP!Payment
      BY <2>2 DEF LP!Payment
    <3> QED
      BY <3>1, Sound DEF LP!SoundConstants
  <2>5. payment' = [payment EXCEPT ![k] = row] /\ DOMAIN payment = Runs \cup ByHand
    BY <2>1 DEF LP!RecordRows, LP!CoveredInv, LP!LedgerInv, LP!TypeOK
  <2> HIDE DEF alloc
  <2>6. LP!LedgerInv'
    BY <2>1, <2>2, Sound, LadderFits, LP!RecordKeeps DEF LP!CoveredInv
  <2>7. LP!Numbered' /\ LP!AllocationsAreCovered'
    BY <2>1, <2>2, <2>3, Sound, LP!RecordCovered
  <2> QED
    BY <1>2, <2>4, <2>5, <2>6, <2>7 DEF LP!CoveredInv
<1> QED
  BY <1>1, <1>2

-----------------------------------------------------------------------------
(* Rows *)

Answers == {NoRow, "processing", "succeeded", "declined"}
DueMaps == UNION {[S -> Nat \ {0}] : S \in SUBSET Families}
Passes  == [stage : Stages, due : DueMaps, call : Families \cup {NoRow}, answer : Answers]

RowsFit ==
  /\ enrollment \in [Families -> Enrollment]
  /\ run \in [Runs -> Run \cup {NoRow}]
  /\ intent \in [Runs -> {NoRow, "asked", "processing", "succeeded", "declined"}]
  /\ pass \in Passes
  /\ cursor \in 0 .. LastDay
  /\ today \in Days

LEMMA DueMapsAre ==
  /\ \A due : due \in DueMaps <=> /\ DOMAIN due \subseteq Families
                                  /\ due \in [DOMAIN due -> Nat \ {0}]
  /\ <<>> \in DueMaps /\ DOMAIN <<>> = {}
<1>1. ASSUME NEW due
      PROVE  due \in DueMaps <=> /\ DOMAIN due \subseteq Families
                                 /\ due \in [DOMAIN due -> Nat \ {0}]
  BY DEF DueMaps
<1>2. DOMAIN <<>> = {} /\ <<>> \in [{} -> Nat \ {0}]
  OBVIOUS
<1>3. <<>> \in DueMaps
  BY <1>1, <1>2
<1> QED
  BY <1>1, <1>2, <1>3

LEMMA MarkedIs ==
  ASSUME RowsFit, NEW r \in Runs, run[r] # NoRow, NEW status \in {"pending", "charged", "failed"}
  PROVE  /\ Marked(r, status) \in [Runs -> Run \cup {NoRow}]
         /\ Marked(r, status)[r] \in Run
         /\ Marked(r, status)[r] # NoRow
         /\ Marked(r, status)[r].amount = run[r].amount
         /\ Marked(r, status)[r].status = status
         /\ run[r].status = status => Marked(r, status)[r] = run[r]
         /\ \A q \in Runs : q # r => Marked(r, status)[q] = run[q]
<1>1. run[r] \in Run
  BY DEF RowsFit
<1>2. /\ [run[r] EXCEPT !.status = status] \in Run
      /\ [run[r] EXCEPT !.status = status].amount = run[r].amount
      /\ [run[r] EXCEPT !.status = status].status = status
      /\ run[r].status = status => [run[r] EXCEPT !.status = status] = run[r]
  BY <1>1 DEF Run
<1>3. Marked(r, status)[r] = [run[r] EXCEPT !.status = status]
      /\ \A q \in Runs : q # r => Marked(r, status)[q] = run[q]
  BY DEF Marked, RowsFit
<1>4. Marked(r, status) \in [Runs -> Run \cup {NoRow}]
  BY <1>2 DEF Marked, RowsFit
<1>5. Marked(r, status)[r] # NoRow
  BY <1>2, <1>3, NoRowIsNothing
<1> QED
  BY <1>2, <1>3, <1>4, <1>5

Edited(e, n, at)      == [e EXCEPT !.failureCount = n, !.nextAttemptAt = at]
SwitchedOff(e, n, at) == [e EXCEPT !.enabled = FALSE, !.failureCount = n, !.nextAttemptAt = at]

LEMMA ForgivenIs ==
  ASSUME RowsFit, NEW f \in Families
  PROVE  /\ Forgiven(f) \in [Families -> Enrollment]
         /\ Forgiven(f)[f].failureCount = 0 /\ Forgiven(f)[f].nextAttemptAt = NoDate
         /\ \A g \in Families : g # f => Forgiven(f)[g] = enrollment[g]
<1>1. PICK n, at, e : n = 0 /\ at = NoDate /\ e = enrollment[f]
  OBVIOUS
<1>2. n \in 0 .. 3 /\ at \in Nat \cup {NoDate} /\ e \in Enrollment
  BY <1>1 DEF RowsFit
<1>3. /\ Edited(e, n, at) \in Enrollment
      /\ Edited(e, n, at).failureCount = n /\ Edited(e, n, at).nextAttemptAt = at
  BY <1>2 DEF Enrollment, Edited
<1>4. Forgiven(f) = [enrollment EXCEPT ![f] = Edited(e, n, at)]
  BY <1>1 DEF Forgiven, Edited, RowsFit
<1> QED
  BY <1>1, <1>3, <1>4 DEF RowsFit

\* A step down the ladder: two days to wait, then three, then autopay is off.
LEMMA DemotedIs ==
  ASSUME RowsFit, NEW f \in Families, NEW d \in Days, enrollment[f].failureCount < 3
  PROVE  /\ Demoted(f, d) \in [Families -> Enrollment]
         /\ Demoted(f, d)[f].failureCount = enrollment[f].failureCount + 1
         /\ IF enrollment[f].failureCount = 2
            THEN ~Demoted(f, d)[f].enabled /\ Demoted(f, d)[f].nextAttemptAt = NoDate
            ELSE Demoted(f, d)[f].nextAttemptAt = d + 1 + (enrollment[f].failureCount + 1)
         /\ \A g \in Families : g # f => Demoted(f, d)[g] = enrollment[g]
<1>1. PICK n : n = enrollment[f].failureCount + 1
  OBVIOUS
<1>2. PICK at : at = d + (IF n = 1 THEN 2 ELSE 3)
  OBVIOUS
<1>3. PICK e : e = enrollment[f]
  OBVIOUS
<1>4. e \in Enrollment
  BY <1>3 DEF RowsFit
<1>5. enrollment[f].failureCount \in 0 .. 2
  BY <1>3, <1>4 DEF Enrollment
<1>6. /\ n \in 0 .. 3 /\ d \in Nat /\ at \in Nat \cup {NoDate} /\ NoDate \in Nat \cup {NoDate}
      /\ (n >= 3 <=> enrollment[f].failureCount = 2) /\ (n < 3 => at = d + 1 + n)
  BY <1>1, <1>2, <1>5 DEF Days
<1>7. /\ SwitchedOff(e, n, NoDate) \in Enrollment /\ SwitchedOff(e, n, NoDate).failureCount = n
      /\ SwitchedOff(e, n, NoDate).enabled = FALSE /\ SwitchedOff(e, n, NoDate).nextAttemptAt = NoDate
  <2>1. FALSE \in BOOLEAN
    OBVIOUS
  <2> QED
    BY <1>4, <1>6, <2>1 DEF Enrollment, SwitchedOff
<1>8. /\ Edited(e, n, at) \in Enrollment
      /\ Edited(e, n, at).failureCount = n /\ Edited(e, n, at).nextAttemptAt = at
  BY <1>4, <1>6 DEF Enrollment, Edited
<1>9. Demoted(f, d) = [enrollment EXCEPT ![f] = IF n >= 3 THEN SwitchedOff(e, n, NoDate)
                                                         ELSE Edited(e, n, at)]
  BY <1>1, <1>2, <1>3 DEF Demoted, Edited, SwitchedOff, RowsFit
<1> QED
  BY <1>1, <1>5, <1>6, <1>7, <1>8, <1>9 DEF RowsFit

-----------------------------------------------------------------------------
(* Charges: what the books, the runs and Stripe hold of each run *)

IntentsHaveRuns == \A r \in Runs : intent[r] # NoRow => run[r] # NoRow

ChargesInv == IntentsHaveRuns /\ BooksAgreeWithStripe /\ OneUnsettledCharge

\* No outcome is overwritten in this step.
OutcomesStand ==
  \A r \in Runs : RunIs(r, "charged") \/ RunIs(r, "failed") => run'[r] = run[r]

\* A charge that the ledger does not reflect yet is one whose run is pending.
LEMMA UnsettledIsPending ==
  ASSUME RowsFit, ChargesInv, NEW r \in Runs, Unsettled(r)
  PROVE  RunIs(r, "pending")
<1>1. run[r] # NoRow /\ run[r].status \in {"pending", "charged", "failed"}
  BY NoRowIsNothing DEF ChargesInv, IntentsHaveRuns, Unsettled, RowsFit, Run
<1> QED
  BY <1>1 DEF ChargesInv, BooksAgreeWithStripe, Unsettled, RunIs

\* OneUnsettledCharge follows whenever no run becomes unsettled.
LEMMA FewerUnsettled ==
  ASSUME OneUnsettledCharge, \A r \in Runs : Unsettled(r)' => Unsettled(r)
  PROVE  OneUnsettledCharge'
<1>1. \A f \in Families : \A d \in Days : <<f, d>> \in Runs
  BY DEF Runs
<1> QED
  BY <1>1 DEF OneUnsettledCharge

\* Steps that touch no run, no intent and no payment of a run.
LEMMA QuietCharges ==
  ASSUME ChargesInv, run' = run, intent' = intent, \A r \in Runs : payment'[r] = payment[r]
  PROVE  ChargesInv' /\ OutcomesStand
<1>1. \A r \in Runs : Unsettled(r)' => Unsettled(r)
  BY DEF Unsettled
<1>2. OneUnsettledCharge'
  BY <1>1, FewerUnsettled DEF ChargesInv
<1>3. IntentsHaveRuns' /\ BooksAgreeWithStripe'
  BY DEF ChargesInv, IntentsHaveRuns, BooksAgreeWithStripe, RunIs
<1> QED
  BY <1>2, <1>3 DEF ChargesInv, OutcomesStand

\* Stripe makes up its mind about a request or about a charge in processing.
LEMMA IntentMoves ==
  ASSUME RowsFit, ChargesInv, NEW r \in Runs, intent[r] \in {"asked", "processing"},
         NEW o \in Answers, intent' = [intent EXCEPT ![r] = o],
         run' = run, \A q \in Runs : payment'[q] = payment[q]
  PROVE  ChargesInv' /\ OutcomesStand
<1>1. /\ intent'[r] = o /\ \A q \in Runs : q # r => intent'[q] = intent[q]
      /\ intent[r] # NoRow
  BY NoRowIsNothing DEF RowsFit
<1>2. \A q \in Runs : Unsettled(q)' => Unsettled(q)
  BY <1>1 DEF Unsettled
<1>3. OneUnsettledCharge'
  BY <1>2, FewerUnsettled DEF ChargesInv
<1>4. IntentsHaveRuns'
  BY <1>1 DEF ChargesInv, IntentsHaveRuns
<1>5. payment[r] = NoRow /\ ~RunIs(r, "charged") /\ ~RunIs(r, "failed")
  BY DEF ChargesInv, BooksAgreeWithStripe
<1>6. BooksAgreeWithStripe'
  <2> SUFFICES ASSUME NEW q \in Runs
               PROVE  /\ payment'[q] # NoRow => intent'[q] = "succeeded" /\ payment'[q].amount = run'[q].amount
                      /\ RunIs(q, "charged")' => payment'[q] # NoRow
                      /\ RunIs(q, "failed")' => intent'[q] = "declined"
    BY DEF BooksAgreeWithStripe
  <2>1. CASE q = r
    BY <1>5, <2>1 DEF RunIs
  <2>2. CASE q # r
    BY <1>1, <2>2 DEF ChargesInv, BooksAgreeWithStripe, RunIs
  <2> QED
    BY <2>1, <2>2
<1> QED
  BY <1>3, <1>4, <1>6 DEF ChargesInv, OutcomesStand

\* A charge that succeeded is booked, and its run marked or left as it is.
LEMMA ChargeBooked ==
  ASSUME RowsFit, ChargesInv, NEW r \in Runs, intent[r] = "succeeded", intent' = intent,
         run' \in {run, Marked(r, "charged")},
         payment'[r] # NoRow,
         payment[r] # NoRow => payment'[r] = payment[r],
         payment[r] = NoRow => payment'[r].amount = run[r].amount,
         \A q \in Runs : q # r => payment'[q] = payment[q]
  PROVE  /\ ChargesInv' /\ OutcomesStand
         /\ run' \in [Runs -> Run \cup {NoRow}]
         /\ \A q \in Runs : /\ RunIs(q, "failed")' <=> RunIs(q, "failed")
                            /\ run[q] # NoRow => run'[q] # NoRow
<1>1. run[r] # NoRow /\ ~RunIs(r, "failed")
  BY NoRowIsNothing DEF ChargesInv, IntentsHaveRuns, BooksAgreeWithStripe
<1>2. "charged" \in {"pending", "charged", "failed"}
  OBVIOUS
<1>3. /\ run' \in [Runs -> Run \cup {NoRow}]
      /\ run'[r] # NoRow /\ run'[r].amount = run[r].amount
      /\ run' = run \/ run'[r].status = "charged"
      /\ run[r].status = "charged" => run'[r] = run[r]
      /\ \A q \in Runs : q # r => run'[q] = run[q]
  <2>1. CASE run' = run
    BY <1>1, <2>1 DEF RowsFit
  <2>2. CASE run' = Marked(r, "charged")
    BY <1>1, <1>2, <2>2, MarkedIs
  <2> QED
    BY <2>1, <2>2
<1>4. \A q \in Runs : Unsettled(q)' => Unsettled(q)
  BY DEF Unsettled
<1>5. OneUnsettledCharge'
  BY <1>4, FewerUnsettled DEF ChargesInv
<1>6. IntentsHaveRuns'
  BY <1>3 DEF ChargesInv, IntentsHaveRuns
<1>7. \A q \in Runs : RunIs(q, "failed")' <=> RunIs(q, "failed")
  BY <1>1, <1>3 DEF RunIs
<1>8. payment'[r].amount = run'[r].amount
  BY <1>3 DEF ChargesInv, BooksAgreeWithStripe
<1>9. BooksAgreeWithStripe'
  <2> SUFFICES ASSUME NEW q \in Runs
               PROVE  /\ payment'[q] # NoRow => intent'[q] = "succeeded" /\ payment'[q].amount = run'[q].amount
                      /\ RunIs(q, "charged")' => payment'[q] # NoRow
                      /\ RunIs(q, "failed")' => intent'[q] = "declined"
    BY DEF BooksAgreeWithStripe
  <2>1. CASE q = r
    BY <1>1, <1>7, <1>8, <2>1
  <2>2. CASE q # r
    BY <1>3, <1>7, <2>2 DEF ChargesInv, BooksAgreeWithStripe, RunIs
  <2> QED
    BY <2>1, <2>2
<1>10. OutcomesStand
  BY <1>1, <1>3 DEF OutcomesStand, RunIs
<1> QED
  BY <1>3, <1>5, <1>6, <1>7, <1>9, <1>10 DEF ChargesInv

\* A decline marks a run that has no outcome yet.
LEMMA ChargeDeclined ==
  ASSUME RowsFit, ChargesInv, NEW r \in Runs, intent[r] = "declined", ~RunIs(r, "failed"),
         intent' = intent, run' = Marked(r, "failed"),
         \A q \in Runs : payment'[q] = payment[q]
  PROVE  /\ ChargesInv' /\ OutcomesStand
         /\ run' \in [Runs -> Run \cup {NoRow}]
         /\ RunIs(r, "failed")'
         /\ \A q \in Runs : q # r => run'[q] = run[q]
<1>1. run[r] # NoRow /\ payment[r] = NoRow /\ ~RunIs(r, "charged")
  BY NoRowIsNothing DEF ChargesInv, IntentsHaveRuns, BooksAgreeWithStripe
<1>2. "failed" \in {"pending", "charged", "failed"}
  OBVIOUS
<1>3. /\ run' \in [Runs -> Run \cup {NoRow}]
      /\ run'[r] # NoRow /\ run'[r].status = "failed"
      /\ \A q \in Runs : q # r => run'[q] = run[q]
  BY <1>1, <1>2, MarkedIs
<1>4. \A q \in Runs : Unsettled(q)' => Unsettled(q)
  BY DEF Unsettled
<1>5. OneUnsettledCharge'
  BY <1>4, FewerUnsettled DEF ChargesInv
<1>6. IntentsHaveRuns'
  BY <1>3 DEF ChargesInv, IntentsHaveRuns
<1>7. BooksAgreeWithStripe'
  <2> SUFFICES ASSUME NEW q \in Runs
               PROVE  /\ payment'[q] # NoRow => intent'[q] = "succeeded" /\ payment'[q].amount = run'[q].amount
                      /\ RunIs(q, "charged")' => payment'[q] # NoRow
                      /\ RunIs(q, "failed")' => intent'[q] = "declined"
    BY DEF BooksAgreeWithStripe
  <2>1. CASE q = r
    BY <1>1, <1>3, <2>1 DEF RunIs
  <2>2. CASE q # r
    BY <1>3, <2>2 DEF ChargesInv, BooksAgreeWithStripe, RunIs
  <2> QED
    BY <2>1, <2>2
<1>8. OutcomesStand
  BY <1>1, <1>3 DEF OutcomesStand
<1> QED
  BY <1>3, <1>5, <1>6, <1>7, <1>8 DEF ChargesInv, RunIs

\* A new charge starts a run, and asks Stripe unless the process dies before:
\* none of the family's earlier charges is unsettled by then.
LEMMA ChargeStarts ==
  ASSUME RowsFit, ChargesInv, NEW f \in Families, ~Pending(f), run[<<f, today>>] = NoRow,
         NEW amt \in Nat \ {0},
         run' = [run EXCEPT ![<<f, today>>] = [amount |-> amt, status |-> "pending"]],
         intent' \in {intent, [intent EXCEPT ![<<f, today>>] = "asked"]}, today' = today,
         \A q \in Runs : payment'[q] = payment[q]
  PROVE  /\ ChargesInv' /\ OutcomesStand
         /\ run' \in [Runs -> Run \cup {NoRow}]
         /\ run'[<<f, today>>] # NoRow /\ ~RunIs(<<f, today>>, "failed")'
         /\ \A q \in Runs : q # <<f, today>> => run'[q] = run[q]
<1> DEFINE r == <<f, today>>
           row == [amount |-> amt, status |-> "pending"]
<1>1. r \in Runs /\ today \in Days
  BY DEF Runs, RowsFit
<1>2. row \in Run /\ row.status = "pending" /\ row # NoRow
  <2>1. row \in Run
    BY DEF Run
  <2> QED
    BY <2>1, NoRowIsNothing
<1>3. /\ run' \in [Runs -> Run \cup {NoRow}] /\ run'[r] = row
      /\ \A q \in Runs : q # r => run'[q] = run[q] /\ intent'[q] = intent[q]
  BY <1>1, <1>2 DEF RowsFit
<1>4. intent[r] = NoRow /\ payment[r] = NoRow
  BY <1>1, NoRowIsNothing DEF ChargesInv, IntentsHaveRuns, BooksAgreeWithStripe
<1>5. intent'[r] \in {NoRow, "asked"}
  BY <1>1, <1>4 DEF RowsFit
<1> HIDE DEF row
<1>6. IntentsHaveRuns'
  BY <1>2, <1>3 DEF ChargesInv, IntentsHaveRuns
<1>7. BooksAgreeWithStripe'
  <2> SUFFICES ASSUME NEW q \in Runs
               PROVE  /\ payment'[q] # NoRow => intent'[q] = "succeeded" /\ payment'[q].amount = run'[q].amount
                      /\ RunIs(q, "charged")' => payment'[q] # NoRow
                      /\ RunIs(q, "failed")' => intent'[q] = "declined"
    BY DEF BooksAgreeWithStripe
  <2>1. CASE q = r
    BY <1>2, <1>3, <1>4, <2>1 DEF RunIs
  <2>2. CASE q # r
    BY <1>3, <2>2 DEF ChargesInv, BooksAgreeWithStripe, RunIs
  <2> QED
    BY <2>1, <2>2
<1>8. OneUnsettledCharge'
  <2> SUFFICES ASSUME NEW g \in Families, NEW d \in Days, NEW e \in Days,
                      Unsettled(<<g, d>>)', Unsettled(<<g, e>>)'
               PROVE  d = e
    BY DEF OneUnsettledCharge
  <2>1. <<g, d>> \in Runs /\ <<g, e>> \in Runs
    BY DEF Runs
  <2>2. ASSUME NEW c \in Days, <<g, c>> # r, Unsettled(<<g, c>>)'
        PROVE  Unsettled(<<g, c>>) /\ g # f
    <3>1. <<g, c>> \in Runs
      BY DEF Runs
    <3>2. Unsettled(<<g, c>>)
      BY <1>3, <2>2, <3>1 DEF Unsettled
    <3>3. RunIs(<<g, c>>, "pending")
      BY <3>1, <3>2, UnsettledIsPending
    <3> QED
      BY <3>2, <3>3 DEF Pending
  <2>3. CASE g = f
    BY <2>2, <2>3
  <2>4. CASE g # f
    BY <2>2, <2>4 DEF ChargesInv, OneUnsettledCharge
  <2> QED
    BY <2>3, <2>4
<1>9. OutcomesStand
  BY <1>3 DEF OutcomesStand, RunIs
<1>10. run'[r] # NoRow /\ ~(run'[r] # NoRow /\ run'[r].status = "failed")
  BY <1>2, <1>3
<1>11. ChargesInv'
  BY <1>6, <1>7, <1>8 DEF ChargesInv
<1> QED
  BY <1>3, <1>9, <1>10, <1>11 DEF RunIs

-----------------------------------------------------------------------------
(* The retry ladder *)

Failed(f) == {d \in Days : RunIs(<<f, d>>, "failed")}

RungIsEarned(f) ==
  /\ enrollment[f].failureCount <= Cardinality(Failed(f))
  /\ enrollment[f].failureCount = 3 =>
       ~enrollment[f].enabled /\ enrollment[f].nextAttemptAt = NoDate
  /\ enrollment[f].nextAttemptAt # NoDate =>
       \E d \in Failed(f) : enrollment[f].nextAttemptAt = d + 1 + enrollment[f].failureCount

\* In this step the family's ladder is left alone, cleared, or switched off.
Eased(f) ==
  \/ enrollment'[f] = enrollment[f]
  \/ enrollment'[f].failureCount = 0 /\ enrollment'[f].nextAttemptAt = NoDate
  \/ /\ enrollment'[f].failureCount = enrollment[f].failureCount
     /\ enrollment'[f].nextAttemptAt = enrollment[f].nextAttemptAt
     /\ ~enrollment'[f].enabled

LEMMA EarnedIs ==
  /\ LadderIsEarned <=> \A f \in Families : RungIsEarned(f)
  /\ LadderIsEarned' <=> \A f \in Families : RungIsEarned(f)'
BY DEF LadderIsEarned, RungIsEarned, Failed

LEMMA FailedFinite ==
  ASSUME NEW f
  PROVE  /\ IsFiniteSet(Failed(f)) /\ IsFiniteSet(Failed(f)')
         /\ Cardinality(Failed(f)) \in Nat /\ Cardinality(Failed(f)') \in Nat
<1>1. IsFiniteSet(Days)
  BY DaysAndCrashes, FS_Interval DEF Days
<1>2. Failed(f) \subseteq Days /\ Failed(f)' \subseteq Days
  BY DEF Failed
<1>3. IsFiniteSet(Failed(f)) /\ IsFiniteSet(Failed(f)')
  BY <1>1, <1>2, FS_Subset
<1> QED
  BY <1>3, FS_CardinalityType

LEMMA CountFits ==
  ASSUME RowsFit, NEW f \in Families
  PROVE  /\ enrollment[f].failureCount \in 0 .. 3
         /\ enrollment[f].nextAttemptAt \in Nat \cup {NoDate}
BY DEF RowsFit, Enrollment

LEMMA EarnedStays ==
  ASSUME RowsFit, LadderIsEarned, NEW f \in Families, Eased(f),
         \A d \in Days : RunIs(<<f, d>>, "failed") => RunIs(<<f, d>>, "failed")'
  PROVE  RungIsEarned(f)'
<1>1. RungIsEarned(f)
  BY EarnedIs
<1>2. Failed(f) \subseteq Failed(f)'
  BY DEF Failed
<1>3. Cardinality(Failed(f)) <= Cardinality(Failed(f)')
  BY <1>2, FailedFinite, FS_Subset
<1>4. /\ enrollment[f].failureCount \in 0 .. 3
      /\ Cardinality(Failed(f)) \in Nat /\ Cardinality(Failed(f)') \in Nat
  BY CountFits, FailedFinite
<1>5. /\ enrollment'[f].failureCount <= Cardinality(Failed(f)')
      /\ enrollment'[f].failureCount = 3 =>
           ~enrollment'[f].enabled /\ enrollment'[f].nextAttemptAt = NoDate
      /\ enrollment'[f].nextAttemptAt # NoDate =>
           \E d \in Failed(f)' : enrollment'[f].nextAttemptAt = d + 1 + enrollment'[f].failureCount
  BY <1>1, <1>2, <1>3, <1>4 DEF RungIsEarned, Eased
<1> QED
  BY <1>5 DEF RungIsEarned

\* A decline: one more failed day, one more rung.
LEMMA EarnedClimbs ==
  ASSUME RowsFit, LadderIsEarned, NEW f \in Families, NEW d \in Days,
         enrollment[f].failureCount < 3, enrollment' = Demoted(f, d),
         ~RunIs(<<f, d>>, "failed"), RunIs(<<f, d>>, "failed")',
         \A e \in Days : e # d => run'[<<f, e>>] = run[<<f, e>>], d' = d
  PROVE  RungIsEarned(f)'
<1>1. RungIsEarned(f)
  BY EarnedIs
<1>2. Failed(f)' = Failed(f) \cup {d} /\ d \notin Failed(f)
  BY DEF Failed, RunIs
<1>3. Cardinality(Failed(f)') = Cardinality(Failed(f)) + 1
  BY <1>2, FailedFinite, FS_AddElement
<1>4. /\ enrollment[f].failureCount \in 0 .. 2
      /\ Cardinality(Failed(f)) \in Nat /\ d \in Nat
  BY CountFits, FailedFinite DEF Days
<1>5. enrollment[f].failureCount <= Cardinality(Failed(f))
  BY <1>1 DEF RungIsEarned
<1>6. /\ enrollment'[f].failureCount = enrollment[f].failureCount + 1
      /\ IF enrollment[f].failureCount = 2
         THEN ~enrollment'[f].enabled /\ enrollment'[f].nextAttemptAt = NoDate
         ELSE enrollment'[f].nextAttemptAt = d + 1 + (enrollment[f].failureCount + 1)
  BY DemotedIs
<1>7. /\ enrollment'[f].failureCount <= Cardinality(Failed(f)')
      /\ enrollment'[f].failureCount = 3 =>
           ~enrollment'[f].enabled /\ enrollment'[f].nextAttemptAt = NoDate
  BY <1>3, <1>4, <1>5, <1>6
<1>8. d \in Failed(f)'
  BY <1>2
<1>9. enrollment'[f].nextAttemptAt # NoDate =>
         \E e \in Failed(f)' : enrollment'[f].nextAttemptAt = e + 1 + enrollment'[f].failureCount
  BY <1>4, <1>6, <1>8
<1> QED
  BY <1>7, <1>9 DEF RungIsEarned

-----------------------------------------------------------------------------
(* The pass *)

\* A pass waits for one family at a time, for the run it has made of it today,
\* which nobody else declines; and what it has been told is what Stripe did.
PassInOrder ==
  /\ pass.stage # "waiting" => pass.call = NoRow /\ pass.answer = NoRow
  /\ pass.stage \in {"ahead", "over"} => DOMAIN pass.due = {}
  /\ pass.stage = "waiting" =>
       /\ pass.call \in Families \ DOMAIN pass.due
       /\ run[<<pass.call, today>>] # NoRow
       /\ ~RunIs(<<pass.call, today>>, "failed")
       /\ pass.answer \in {"succeeded", "declined"} => intent[<<pass.call, today>>] = pass.answer

\* Whoever the pass is still to charge, or waits for, is not off the end of the
\* ladder, and whoever it is still to charge need not wait.
DueMayBeCharged ==
  \A f \in Families :
    /\ f \in DOMAIN pass.due \/ pass.call = f => enrollment[f].failureCount < 3
    /\ f \in DOMAIN pass.due => OffLadder(f)

PassInv == PassInOrder /\ DueMayBeCharged

LEMMA EasedMayBeCharged ==
  ASSUME RowsFit, NEW f \in Families, Eased(f), today' = today
  PROVE  /\ enrollment[f].failureCount < 3 => enrollment'[f].failureCount < 3
         /\ OffLadder(f) => OffLadder(f)'
BY CountFits DEF Eased, OffLadder

\* The pass has dealt with a family, and goes on with those that are left.
LEMMA PassGoesOn ==
  ASSUME NEW due \in DueMaps, pass' = Onward(due),
         \A f \in DOMAIN due : enrollment'[f].failureCount < 3 /\ OffLadder(f)'
  PROVE  pass' \in Passes /\ PassInv'
<1>1. /\ pass' = [stage |-> pass'.stage, due |-> due, call |-> NoRow, answer |-> NoRow]
      /\ pass'.stage = IF DOMAIN due = {} THEN "over" ELSE "turn"
      /\ pass'.due = due /\ pass'.call = NoRow /\ pass'.answer = NoRow
  BY DEF Onward
<1>2. pass' \in Passes
  BY <1>1 DEF Passes, Stages, Answers
<1>3. PassInOrder'
  BY <1>1 DEF PassInOrder
<1>4. DueMayBeCharged'
  BY <1>1, NoRowIsNothing DEF DueMayBeCharged
<1> QED
  BY <1>2, <1>3, <1>4 DEF PassInv

\* The process has died: a pass that had started is over.
LEMMA PassIsLost ==
  ASSUME RowsFit, PassInv, pass' = Lost
  PROVE  pass' \in Passes /\ PassInv'
<1>1. CASE pass.stage = "ahead"
  <2>1. pass' = pass /\ pass.call = NoRow /\ DOMAIN pass.due = {} /\ pass \in Passes
    BY <1>1 DEF Lost, PassInv, PassInOrder, RowsFit
  <2>2. PassInOrder'
    BY <1>1, <2>1 DEF PassInv, PassInOrder
  <2>3. DueMayBeCharged'
    BY <2>1, NoRowIsNothing DEF DueMayBeCharged
  <2> QED
    BY <2>1, <2>2, <2>3 DEF PassInv
<1>2. CASE pass.stage # "ahead"
  <2>1. pass' = Onward(<<>>)
    BY <1>2 DEF Lost
  <2> QED
    BY <2>1, DueMapsAre, PassGoesOn
<1> QED
  BY <1>1, <1>2

\* The pass is where it was, and what it waits for has not changed for the worse.
LEMMA PassStays ==
  ASSUME RowsFit, PassInv, pass' = pass, today' = today, \A f \in Families : Eased(f),
         \A r \in Runs : /\ run[r] # NoRow => run'[r] # NoRow
                         /\ RunIs(r, "failed")' => RunIs(r, "failed")
                         /\ intent[r] \in {"succeeded", "declined"} => intent'[r] = intent[r]
  PROVE  pass' \in Passes /\ PassInv'
<1>1. PassInOrder'
  <2>1. CASE pass.stage # "waiting"
    BY <2>1 DEF PassInv, PassInOrder
  <2>2. CASE pass.stage = "waiting"
    <3>1. /\ pass.call \in Families \ DOMAIN pass.due /\ <<pass.call, today>> \in Runs
          /\ run[<<pass.call, today>>] # NoRow
          /\ ~RunIs(<<pass.call, today>>, "failed")
          /\ pass.answer \in {"succeeded", "declined"} => intent[<<pass.call, today>>] = pass.answer
      BY <2>2 DEF PassInv, PassInOrder, Runs, RowsFit
    <3>2. PICK r \in Runs : r = <<pass.call, today>>
      BY <3>1
    <3>3. /\ run'[r] # NoRow /\ ~(run'[r] # NoRow /\ run'[r].status = "failed")
          /\ pass.answer \in {"succeeded", "declined"} => intent'[r] = pass.answer
      BY <3>1, <3>2 DEF RunIs
    <3> QED
      BY <2>2, <3>1, <3>2, <3>3 DEF PassInOrder, RunIs
  <2> QED
    BY <2>1, <2>2
<1>2. DueMayBeCharged'
  BY EasedMayBeCharged DEF PassInv, DueMayBeCharged
<1> QED
  BY <1>1, <1>2 DEF PassInv, RowsFit

-----------------------------------------------------------------------------
(* The steps *)

\* The inductive invariant: the ledger's own; rows in their types; the three
\* accounts of each charge in agreement; the pass in order; and the ladder.
AutopayInv == LP!CoveredInv /\ RowsFit /\ ChargesInv /\ PassInv /\ LadderIsEarned

\* No run is started in this step for a family that has to wait.
LadderHeeded == \A r \in Runs : run[r] = NoRow /\ run'[r] # NoRow => OffLadder(r[1])

\* What every step does.
Kept == AutopayInv' /\ OutcomesStand /\ LadderHeeded

LEMMA AmountDueIsNat ==
  ASSUME LP!CoveredInv, NEW f
  PROVE  AmountDue(f) \in Nat
<1> DEFINE owed == [i \in Invoices |->
              IF /\ i[1] = f /\ L!Live(i)
                 /\ invoice[i].status \in {"open", "partially_paid"}
                 /\ invoice[i].due # NoDate /\ invoice[i].due <= today
                 /\ L!Balance(i) > 0
              THEN L!Balance(i) ELSE 0]
<1>1. ASSUME NEW i \in Invoices, L!Live(i)
      PROVE  L!Balance(i) \in Int
  <2>1. LP!TypeOK /\ LP!Live(i)
    BY <1>1, SameLive DEF LP!CoveredInv, LP!LedgerInv
  <2>2. LP!InvoicePaid(i) \in Int
    BY <2>1, Sound, LP!PaidTypes
  <2>3. invoice[i].total \in Nat
    BY <2>1 DEF LP!TypeOK, LP!Live, LP!Issued, LP!Invoice
  <2> QED
    BY <2>2, <2>3, SameBalance DEF LP!Balance
<1>2. owed \in [Invoices -> Nat]
  BY <1>1
<1>3. AmountDue(f) = LP!SumOf(owed)
  BY SameSum DEF AmountDue
<1>4. LP!IsFiniteSet(Invoices)
  BY Sound, LP!InvoicesFinite
<1> HIDE DEF owed
<1> QED
  BY <1>2, <1>3, <1>4, Sound, LP!SumIsNat

\* Steps that leave the runs, what Stripe has done and what is booked of it.
LEMMA QuietStep ==
  ASSUME AutopayInv, LP!CoveredInv', run' = run, intent' = intent,
         \A r \in Runs : payment'[r] = payment[r],
         enrollment' \in [Families -> Enrollment], \A f \in Families : Eased(f),
         pass' \in Passes, PassInv', cursor' \in 0 .. LastDay, today' \in Days
  PROVE  Kept
<1>1. RowsFit'
  BY DEF AutopayInv, RowsFit
<1>2. ChargesInv' /\ OutcomesStand
  BY QuietCharges DEF AutopayInv
<1>3. LadderIsEarned'
  <2> SUFFICES ASSUME NEW f \in Families PROVE RungIsEarned(f)'
    BY EarnedIs
  <2>1. \A d \in Days : RunIs(<<f, d>>, "failed") => RunIs(<<f, d>>, "failed")'
    BY DEF RunIs
  <2> QED
    BY <2>1, EarnedStays DEF AutopayInv
<1>4. LadderHeeded
  BY DEF LadderHeeded
<1> QED
  BY <1>1, <1>2, <1>3, <1>4 DEF Kept, AutopayInv

\* A charge that succeeded is booked; its run is marked or not, its family
\* forgiven or not; and the pass goes on, dies, or knows nothing of it.
LEMMA BookedStep ==
  ASSUME AutopayInv, NEW f \in Families, NEW d \in Days,
         intent[<<f, d>>] = "succeeded", intent' = intent,
         Recorded(<<f, d>>, f, run[<<f, d>>].amount),
         run' \in {run, Marked(<<f, d>>, "charged")},
         enrollment' \in {enrollment, Forgiven(f)},
         pass' \in {pass, Lost, Onward(pass.due)},
         cursor' = cursor, today' = today
  PROVE  Kept
<1>1. PICK r \in Runs : r = <<f, d>>
  BY DEF Runs
<1>2. run[r] # NoRow /\ run[r] \in Run /\ run[r].amount \in Nat
  BY <1>1, NoRowIsNothing DEF AutopayInv, ChargesInv, IntentsHaveRuns, RowsFit, Run
<1>3. /\ LP!CoveredInv'
      /\ \A q \in Runs : q # r => payment'[q] = payment[q]
      /\ payment'[r] # NoRow
      /\ payment[r] # NoRow => payment'[r] = payment[r]
      /\ payment[r] = NoRow => payment'[r].amount = run[r].amount
  BY <1>1, <1>2, RecordedIs DEF AutopayInv
<1>4. /\ ChargesInv' /\ OutcomesStand
      /\ run' \in [Runs -> Run \cup {NoRow}]
      /\ \A q \in Runs : /\ RunIs(q, "failed")' <=> RunIs(q, "failed")
                         /\ run[q] # NoRow => run'[q] # NoRow
  BY <1>1, <1>3, ChargeBooked DEF AutopayInv
<1>5. enrollment' \in [Families -> Enrollment] /\ \A g \in Families : Eased(g)
  BY ForgivenIs DEF AutopayInv, RowsFit, Eased
<1>6. pass' \in Passes /\ PassInv'
  <2>1. CASE pass' = pass
    BY <1>4, <1>5, <2>1, PassStays DEF AutopayInv
  <2>2. CASE pass' = Lost
    BY <2>2, PassIsLost DEF AutopayInv
  <2>3. CASE pass' = Onward(pass.due)
    <3>1. pass.due \in DueMaps /\ DOMAIN pass.due \subseteq Families
      BY DueMapsAre DEF AutopayInv, RowsFit, Passes
    <3>2. \A g \in DOMAIN pass.due : enrollment'[g].failureCount < 3 /\ OffLadder(g)'
      BY <1>5, <3>1, EasedMayBeCharged DEF AutopayInv, PassInv, DueMayBeCharged
    <3> QED
      BY <2>3, <3>1, <3>2, PassGoesOn
  <2> QED
    BY <2>1, <2>2, <2>3
<1>7. RowsFit'
  BY <1>4, <1>5, <1>6 DEF AutopayInv, RowsFit
<1>8. LadderIsEarned'
  <2> SUFFICES ASSUME NEW g \in Families PROVE RungIsEarned(g)'
    BY EarnedIs
  <2>1. \A e \in Days : RunIs(<<g, e>>, "failed") => RunIs(<<g, e>>, "failed")'
    BY <1>4 DEF Runs
  <2> QED
    BY <1>5, <2>1, EarnedStays DEF AutopayInv
<1>9. LadderHeeded
  <2>1. \A q \in Runs : run'[q] = run[q] \/ q = r
    <3>1. "charged" \in {"pending", "charged", "failed"}
      OBVIOUS
    <3> QED
      BY <1>1, <1>2, <3>1, MarkedIs DEF AutopayInv
  <2> QED
    BY <1>2, <2>1 DEF LadderHeeded
<1> QED
  BY <1>3, <1>4, <1>6, <1>7, <1>8, <1>9 DEF Kept, AutopayInv

LEMMA SettleKeeps ==
  ASSUME AutopayInv, NEW f \in Families, NEW d \in Days, intent[<<f, d>>] = "succeeded",
         \/ \E then \in {pass, Onward(pass.due)} : Settle(f, d, then)
         \/ SettlePartly(f, d) /\ pass' \in {pass, Lost, Onward(pass.due)},
         UNCHANGED <<intent, cursor, today>>
  PROVE  Kept
<1>1. /\ Recorded(<<f, d>>, f, run[<<f, d>>].amount)
      /\ run' \in {run, Marked(<<f, d>>, "charged")}
      /\ enrollment' \in {enrollment, Forgiven(f)}
      /\ pass' \in {pass, Lost, Onward(pass.due)}
  BY DEF Settle, SettlePartly, AfterRecording
<1> QED
  BY <1>1, BookedStep

\* The pass with one family fewer to charge.
LEMMA OneFewerDue ==
  ASSUME pass \in Passes, NEW f
  PROVE  /\ [g \in DOMAIN pass.due \ {f} |-> pass.due[g]] \in DueMaps
         /\ DOMAIN [g \in DOMAIN pass.due \ {f} |-> pass.due[g]] = DOMAIN pass.due \ {f}
         /\ DOMAIN pass.due \subseteq Families
         /\ f \in DOMAIN pass.due => pass.due[f] \in Nat \ {0}
<1>1. pass.due \in DueMaps
  BY DEF Passes
<1>2. DOMAIN pass.due \subseteq Families /\ pass.due \in [DOMAIN pass.due -> Nat \ {0}]
  BY <1>1, DueMapsAre
<1> DEFINE rest == [g \in DOMAIN pass.due \ {f} |-> pass.due[g]]
<1>3. DOMAIN rest = DOMAIN pass.due \ {f}
  OBVIOUS
<1>4. rest \in [DOMAIN rest -> Nat \ {0}] /\ DOMAIN rest \subseteq Families
  BY <1>2, <1>3
<1>5. rest \in DueMaps
  <2> HIDE DEF rest
  <2> QED BY <1>4, DueMapsAre
<1> QED
  BY <1>2, <1>3, <1>5

LEMMA StartPassKeeps ==
  ASSUME AutopayInv, StartPass
  PROVE  Kept
<1> DEFINE due == [f \in Due |-> AmountDue(f)]
<1>1. \A f \in Due : /\ f \in Families /\ AmountDue(f) \in Nat \ {0} /\ OffLadder(f)
                     /\ enrollment[f].failureCount < 3
  <2> SUFFICES ASSUME NEW f \in Due
               PROVE  /\ f \in Families /\ AmountDue(f) \in Nat \ {0} /\ OffLadder(f)
                      /\ enrollment[f].failureCount < 3
    OBVIOUS
  <2>1. /\ f \in Families /\ enrollment[f].enabled /\ OffLadder(f)
        /\ AmountDue(f) \in Nat /\ AmountDue(f) > 0
    BY AmountDueIsNat DEF Due, AutopayInv
  <2>2. RungIsEarned(f) /\ enrollment[f].failureCount \in 0 .. 3
    BY <2>1, EarnedIs, CountFits DEF AutopayInv
  <2> QED
    BY <2>1, <2>2 DEF RungIsEarned
<1>2. DOMAIN due = Due /\ Due \subseteq Families /\ due \in [Due -> Nat \ {0}]
  BY <1>1
<1>3. pass' = Onward(due)
  BY DEF StartPass
<1>4. \A f \in Due : enrollment'[f].failureCount < 3 /\ OffLadder(f)'
  BY <1>1 DEF StartPass, OffLadder
<1> HIDE DEF due
<1>5. due \in DueMaps
  BY <1>2, DueMapsAre
<1>6. pass' \in Passes /\ PassInv'
  BY <1>2, <1>3, <1>4, <1>5, PassGoesOn
<1>7. LP!CoveredInv'
  BY MoneyStays DEF StartPass, AutopayInv
<1>8. /\ run' = run /\ intent' = intent /\ \A r \in Runs : payment'[r] = payment[r]
      /\ enrollment' \in [Families -> Enrollment] /\ \A f \in Families : Eased(f)
      /\ cursor' \in 0 .. LastDay /\ today' \in Days
  BY DEF StartPass, AutopayInv, RowsFit, Eased, money
<1> QED
  BY <1>6, <1>7, <1>8, QuietStep

LEMMA SkipKeeps ==
  ASSUME AutopayInv, NEW f \in Families, Skip(f)
  PROVE  Kept
<1> DEFINE rest == [g \in DOMAIN pass.due \ {f} |-> pass.due[g]]
<1>1. rest \in DueMaps /\ DOMAIN rest = DOMAIN pass.due \ {f} /\ DOMAIN pass.due \subseteq Families
  BY OneFewerDue DEF AutopayInv, RowsFit
<1>2. pass' = Onward(rest)
  BY DEF Skip
<1> HIDE DEF rest
<1>3. \A g \in DOMAIN rest : enrollment'[g].failureCount < 3 /\ OffLadder(g)'
  BY <1>1 DEF Skip, OffLadder, AutopayInv, PassInv, DueMayBeCharged
<1>4. pass' \in Passes /\ PassInv'
  BY <1>1, <1>2, <1>3, PassGoesOn
<1>5. LP!CoveredInv'
  BY MoneyStays DEF Skip, AutopayInv
<1>6. /\ run' = run /\ intent' = intent /\ \A r \in Runs : payment'[r] = payment[r]
      /\ enrollment' \in [Families -> Enrollment] /\ \A g \in Families : Eased(g)
      /\ cursor' \in 0 .. LastDay /\ today' \in Days
  BY DEF Skip, AutopayInv, RowsFit, Eased, money
<1> QED
  BY <1>4, <1>5, <1>6, QuietStep

\* The run of a charge is new, and its family has got to the day it had to wait for.
LEMMA ChargeKeeps ==
  ASSUME AutopayInv, NEW f \in Families, Charge(f)
  PROVE  Kept
<1> DEFINE rest == [g \in DOMAIN pass.due \ {f} |-> pass.due[g]]
<1>1. /\ rest \in DueMaps /\ DOMAIN rest = DOMAIN pass.due \ {f}
      /\ DOMAIN pass.due \subseteq Families /\ pass.due[f] \in Nat \ {0}
  BY OneFewerDue DEF AutopayInv, RowsFit, Charge
<1>2. PICK amt \in Nat \ {0} : amt = pass.due[f]
  BY <1>1
<1>3. PICK r \in Runs : r = <<f, today>>
  BY DEF Runs, AutopayInv, RowsFit
<1>4. /\ ~Pending(f) /\ run[r] = NoRow
      /\ run' = [run EXCEPT ![r] = [amount |-> amt, status |-> "pending"]]
      /\ intent' \in {intent, [intent EXCEPT ![r] = "asked"]}
      /\ pass' \in {Lost, [stage |-> "waiting", call |-> f, answer |-> NoRow, due |-> rest]}
      /\ money' = money /\ enrollment' = enrollment /\ cursor' = cursor /\ today' = today
      /\ f \in DOMAIN pass.due
  BY <1>2, <1>3 DEF Charge, Chargeable, Dies
<1> HIDE DEF rest
<1>5. LP!CoveredInv' /\ \A q \in Runs : payment'[q] = payment[q]
  BY <1>4, MoneyStays DEF AutopayInv, money
<1>6. /\ ChargesInv' /\ OutcomesStand
      /\ run' \in [Runs -> Run \cup {NoRow}]
      /\ run'[r] # NoRow /\ ~RunIs(r, "failed")'
      /\ \A q \in Runs : q # r => run'[q] = run[q]
  BY <1>3, <1>4, <1>5, ChargeStarts DEF AutopayInv
<1>7. pass' \in Passes /\ PassInv'
  <2>1. CASE pass' = Lost
    BY <2>1, PassIsLost DEF AutopayInv
  <2>2. CASE pass' = [stage |-> "waiting", call |-> f, answer |-> NoRow, due |-> rest]
    <3>1. /\ pass'.stage = "waiting" /\ pass'.call = f /\ pass'.answer = NoRow /\ pass'.due = rest
          /\ f \notin DOMAIN rest
      BY <1>1, <2>2
    <3>2. pass' \in Passes
      BY <1>1, <2>2 DEF Passes, Stages, Answers
    <3>3. <<f, today'>> = r /\ NoRow \notin {"succeeded", "declined"}
      BY <1>3, <1>4, NoRowIsNothing
    <3>4. PassInOrder'
      BY <1>6, <3>1, <3>3 DEF PassInOrder, RunIs
    <3>5. DueMayBeCharged'
      <4> SUFFICES ASSUME NEW g \in Families
                   PROVE  /\ g \in DOMAIN rest \/ f = g => enrollment[g].failureCount < 3
                          /\ g \in DOMAIN rest => OffLadder(g)
        BY <1>4, <3>1 DEF DueMayBeCharged, OffLadder
      <4> QED
        BY <1>1, <1>4 DEF AutopayInv, PassInv, DueMayBeCharged
    <3> QED
      BY <3>2, <3>4, <3>5 DEF PassInv
  <2> QED
    BY <1>4, <2>1, <2>2
<1>8. RowsFit'
  <2>1. intent' \in [Runs -> {NoRow, "asked", "processing", "succeeded", "declined"}]
    BY <1>4 DEF AutopayInv, RowsFit
  <2> QED
    BY <1>4, <1>6, <1>7, <2>1 DEF AutopayInv, RowsFit
<1>9. LadderIsEarned'
  <2> SUFFICES ASSUME NEW g \in Families PROVE RungIsEarned(g)'
    BY EarnedIs
  <2>1. ASSUME NEW e \in Days, RunIs(<<g, e>>, "failed") PROVE RunIs(<<g, e>>, "failed")'
    <3>1. <<g, e>> \in Runs /\ <<g, e>> # r
      BY <1>4, <2>1 DEF Runs, RunIs
    <3> QED
      BY <1>6, <2>1, <3>1 DEF RunIs
  <2>2. Eased(g)
    BY <1>4 DEF Eased
  <2> QED
    BY <2>1, <2>2, EarnedStays DEF AutopayInv
<1>10. LadderHeeded
  <2>1. OffLadder(f) /\ r[1] = f
    BY <1>3, <1>4 DEF AutopayInv, PassInv, DueMayBeCharged
  <2> QED
    BY <1>6, <2>1 DEF LadderHeeded
<1> QED
  BY <1>5, <1>6, <1>7, <1>8, <1>9, <1>10 DEF Kept, AutopayInv

\* A pass that is told something waits for it.
LEMMA AnsweredIs ==
  ASSUME AutopayInv, NEW f \in Families, pass.call = f
  PROVE  /\ pass.stage = "waiting" /\ f \notin DOMAIN pass.due
         /\ <<f, today>> \in Runs /\ today \in Days
         /\ run[<<f, today>>] # NoRow /\ ~RunIs(<<f, today>>, "failed")
         /\ enrollment[f].failureCount < 3
         /\ pass.answer \in {"succeeded", "declined"} => intent[<<f, today>>] = pass.answer
<1>1. f # NoRow
  BY NoRowIsNothing
<1> QED
  BY <1>1 DEF AutopayInv, PassInv, PassInOrder, DueMayBeCharged, RowsFit, Runs

LEMMA SucceededKeeps ==
  ASSUME AutopayInv, NEW f \in Families, Succeeded(f)
  PROVE  Kept
<1>1. intent[<<f, today>>] = "succeeded" /\ today \in Days
  BY AnsweredIs DEF Succeeded, Answered
<1>2. \/ \E then \in {pass, Onward(pass.due)} : Settle(f, today, then)
      \/ SettlePartly(f, today) /\ pass' \in {pass, Lost, Onward(pass.due)}
  BY DEF Succeeded, SettleCutShort, Dies
<1>3. UNCHANGED <<intent, cursor, today>>
  BY DEF Succeeded
<1> QED
  BY <1>1, <1>2, <1>3, SettleKeeps

\* The pass goes on without any of the books having changed.
LEMMA GoingOnKeeps ==
  ASSUME AutopayInv, pass' = Onward(pass.due) \/ pass' = Lost,
         UNCHANGED <<money, enrollment, run, intent, cursor, today>>
  PROVE  Kept
<1>1. pass.due \in DueMaps /\ DOMAIN pass.due \subseteq Families
  BY DueMapsAre DEF AutopayInv, RowsFit, Passes
<1>2. \A g \in DOMAIN pass.due : enrollment'[g].failureCount < 3 /\ OffLadder(g)'
  BY <1>1 DEF OffLadder, AutopayInv, PassInv, DueMayBeCharged
<1>3. pass' \in Passes /\ PassInv'
  BY <1>1, <1>2, PassGoesOn, PassIsLost DEF AutopayInv
<1>4. LP!CoveredInv'
  BY MoneyStays DEF AutopayInv
<1>5. /\ run' = run /\ intent' = intent /\ \A r \in Runs : payment'[r] = payment[r]
      /\ enrollment' \in [Families -> Enrollment] /\ \A g \in Families : Eased(g)
      /\ cursor' \in 0 .. LastDay /\ today' \in Days
  BY DEF AutopayInv, RowsFit, Eased, money
<1> QED
  BY <1>3, <1>4, <1>5, QuietStep

\* A decline marks the run and takes the family a step down the ladder, unless
\* the process dies in between.
LEMMA DeclinedKeeps ==
  ASSUME AutopayInv, NEW f \in Families, Declined(f)
  PROVE  Kept
<1>1. PICK r \in Runs : r = <<f, today>>
  BY AnsweredIs DEF Declined, Answered
<1>2. /\ f \notin DOMAIN pass.due /\ today \in Days
      /\ ~RunIs(r, "failed") /\ run[r] # NoRow /\ intent[r] = "declined"
      /\ enrollment[f].failureCount < 3
  BY <1>1, AnsweredIs DEF Declined, Answered
<1>3. /\ run' = Marked(r, "failed")
      /\ \/ enrollment' = Demoted(f, today) /\ pass' = Onward(pass.due)
         \/ enrollment' = enrollment /\ pass' = Lost
      /\ money' = money /\ intent' = intent /\ cursor' = cursor /\ today' = today
  BY <1>1 DEF Declined, Dies
<1>4. LP!CoveredInv' /\ \A q \in Runs : payment'[q] = payment[q]
  BY <1>3, MoneyStays DEF AutopayInv, money
<1>5. /\ ChargesInv' /\ OutcomesStand
      /\ run' \in [Runs -> Run \cup {NoRow}]
      /\ RunIs(r, "failed")'
      /\ \A q \in Runs : q # r => run'[q] = run[q]
  BY <1>2, <1>3, <1>4, ChargeDeclined DEF AutopayInv
<1>6. /\ enrollment' \in [Families -> Enrollment]
      /\ \A g \in Families : g # f => enrollment'[g] = enrollment[g]
  BY <1>2, <1>3, DemotedIs DEF AutopayInv, RowsFit
<1>7. pass' \in Passes /\ PassInv'
  <2>1. CASE pass' = Lost
    BY <2>1, PassIsLost DEF AutopayInv
  <2>2. CASE pass' = Onward(pass.due)
    <3>1. pass.due \in DueMaps /\ DOMAIN pass.due \subseteq Families
      BY DueMapsAre DEF AutopayInv, RowsFit, Passes
    <3>2. \A g \in DOMAIN pass.due : enrollment'[g].failureCount < 3 /\ OffLadder(g)'
      BY <1>2, <1>3, <1>6, <3>1 DEF OffLadder, AutopayInv, PassInv, DueMayBeCharged
    <3> QED
      BY <2>2, <3>1, <3>2, PassGoesOn
  <2> QED
    BY <1>3, <2>1, <2>2
<1>8. RowsFit'
  BY <1>3, <1>5, <1>6, <1>7 DEF AutopayInv, RowsFit
<1>9. LadderIsEarned'
  <2> SUFFICES ASSUME NEW g \in Families PROVE RungIsEarned(g)'
    BY EarnedIs
  <2>1. ASSUME NEW e \in Days PROVE <<g, e>> \in Runs /\ (g # f \/ e # today => <<g, e>> # r)
    BY <1>1 DEF Runs
  <2>2. CASE g = f /\ enrollment' = Demoted(f, today)
    <3>1. \A e \in Days : e # today => run'[<<f, e>>] = run[<<f, e>>]
      BY <1>5, <2>1, <2>2
    <3>2. ~RunIs(<<f, today>>, "failed") /\ run'[<<f, today>>] # NoRow /\ run'[<<f, today>>].status = "failed"
      BY <1>1, <1>2, <1>5 DEF RunIs
    <3>3. PICK d \in Days : d = today /\ d' = d
      BY <1>2
    <3> QED
      BY <1>2, <1>3, <2>2, <3>1, <3>2, <3>3, EarnedClimbs DEF AutopayInv, RunIs
  <2>3. CASE g # f \/ enrollment' = enrollment
    <3>1. Eased(g)
      BY <1>6, <2>3 DEF Eased
    <3>2. \A e \in Days : RunIs(<<g, e>>, "failed") => RunIs(<<g, e>>, "failed")'
      BY <1>5, <2>1 DEF RunIs
    <3> QED
      BY <3>1, <3>2, EarnedStays DEF AutopayInv
  <2> QED
    BY <1>3, <2>2, <2>3
<1>10. LadderHeeded
  BY <1>2, <1>5 DEF LadderHeeded
<1> QED
  BY <1>4, <1>5, <1>7, <1>8, <1>9, <1>10 DEF Kept, AutopayInv

\* Steps of Stripe: a request is disposed of, a charge in processing settled.
LEMMA IntentStep ==
  ASSUME AutopayInv, NEW r \in Runs, intent[r] \in {"asked", "processing"},
         NEW o \in Answers, intent' = [intent EXCEPT ![r] = o],
         pass' \in Passes, PassInv',
         UNCHANGED <<money, enrollment, run, cursor, today>>
  PROVE  Kept
<1>1. LP!CoveredInv' /\ \A q \in Runs : payment'[q] = payment[q]
  BY MoneyStays DEF AutopayInv, money
<1>2. ChargesInv' /\ OutcomesStand
  BY <1>1, IntentMoves DEF AutopayInv
<1>3. intent' \in [Runs -> {NoRow, "asked", "processing", "succeeded", "declined"}]
  BY DEF AutopayInv, RowsFit, Answers
<1>4. RowsFit'
  BY <1>3 DEF AutopayInv, RowsFit
<1>5. LadderIsEarned'
  <2> SUFFICES ASSUME NEW g \in Families PROVE RungIsEarned(g)'
    BY EarnedIs
  <2>1. Eased(g) /\ \A e \in Days : RunIs(<<g, e>>, "failed") => RunIs(<<g, e>>, "failed")'
    BY DEF Eased, RunIs
  <2> QED
    BY <2>1, EarnedStays DEF AutopayInv
<1>6. LadderHeeded
  BY DEF LadderHeeded
<1> QED
  BY <1>1, <1>2, <1>4, <1>5, <1>6 DEF Kept, AutopayInv

LEMMA StripeActsKeeps ==
  ASSUME AutopayInv, NEW f \in Families, NEW o \in Answers, StripeActs(f, o)
  PROVE  Kept
<1>1. PICK r \in Runs : r = <<f, today>>
  BY DEF Runs, AutopayInv, RowsFit
<1>2. /\ intent[r] = "asked" /\ intent' = [intent EXCEPT ![r] = o]
      /\ pass' = IF pass.call = f /\ o # NoRow THEN [pass EXCEPT !.answer = o] ELSE pass
      /\ UNCHANGED <<money, enrollment, run, cursor, today>>
  BY <1>1 DEF StripeActs
<1>3. intent'[r] = o /\ \A q \in Runs : q # r => intent'[q] = intent[q]
  BY <1>2 DEF AutopayInv, RowsFit
<1>4. CASE pass.call = f /\ o # NoRow
  <2>1. /\ pass' = [pass EXCEPT !.answer = o] /\ pass \in Passes
        /\ pass.stage = "waiting" /\ f \notin DOMAIN pass.due
        /\ run[r] # NoRow /\ ~RunIs(r, "failed")
    BY <1>1, <1>2, <1>4, AnsweredIs DEF AutopayInv, RowsFit
  <2>2. /\ pass' \in Passes /\ pass'.stage = "waiting" /\ pass'.call = f
        /\ pass'.answer = o /\ pass'.due = pass.due
    BY <1>4, <2>1 DEF Passes
  <2>3. <<f, today'>> = r
    BY <1>1, <1>2
  <2>4. PassInOrder'
    BY <1>2, <1>3, <2>1, <2>2, <2>3 DEF PassInOrder, RunIs
  <2>5. DueMayBeCharged'
    BY <1>2, <1>4, <2>2 DEF AutopayInv, PassInv, DueMayBeCharged, OffLadder
  <2>6. PassInv'
    BY <2>4, <2>5 DEF PassInv
  <2> QED
    BY <1>2, <2>2, <2>6, IntentStep
<1>5. CASE ~(pass.call = f /\ o # NoRow)
  <2>1. pass' = pass
    BY <1>2, <1>5
  <2>2. \A q \in Runs : intent[q] \in {"succeeded", "declined"} => intent'[q] = intent[q]
    BY <1>2, <1>3
  <2>3. \A g \in Families : Eased(g)
    BY <1>2 DEF Eased
  <2>4. \A q \in Runs : /\ run[q] # NoRow => run'[q] # NoRow
                        /\ RunIs(q, "failed")' => RunIs(q, "failed")
    BY <1>2 DEF RunIs
  <2>5. pass' \in Passes /\ PassInv'
    BY <1>2, <2>1, <2>2, <2>3, <2>4, PassStays DEF AutopayInv
  <2> QED
    BY <1>2, <2>5, IntentStep
<1> QED
  BY <1>4, <1>5

LEMMA StripeSettlesKeeps ==
  ASSUME AutopayInv, NEW r \in Runs, NEW o \in Answers, StripeSettles(r, o)
  PROVE  Kept
<1>1. /\ intent[r] = "processing" /\ intent' = [intent EXCEPT ![r] = o]
      /\ pass' = pass /\ UNCHANGED <<money, enrollment, run, cursor, today>>
  BY DEF StripeSettles
<1>2. \A q \in Runs : intent[q] \in {"succeeded", "declined"} => intent'[q] = intent[q]
  BY <1>1 DEF AutopayInv, RowsFit
<1>3. \A g \in Families : Eased(g)
  BY <1>1 DEF Eased
<1>4. \A q \in Runs : /\ run[q] # NoRow => run'[q] # NoRow
                      /\ RunIs(q, "failed")' => RunIs(q, "failed")
  BY <1>1 DEF RunIs
<1>5. pass' \in Passes /\ PassInv'
  BY <1>1, <1>2, <1>3, <1>4, PassStays DEF AutopayInv
<1> QED
  BY <1>1, <1>5, IntentStep

\* Steps during which the pass stays where it is.
LEMMA AsideStep ==
  ASSUME AutopayInv, LP!CoveredInv', run' = run, intent' = intent, pass' = pass, today' = today,
         \A r \in Runs : payment'[r] = payment[r],
         enrollment' \in [Families -> Enrollment], \A f \in Families : Eased(f),
         cursor' \in 0 .. LastDay
  PROVE  Kept
<1>1. \A q \in Runs : /\ run[q] # NoRow => run'[q] # NoRow
                      /\ RunIs(q, "failed")' => RunIs(q, "failed")
                      /\ intent[q] \in {"succeeded", "declined"} => intent'[q] = intent[q]
  BY DEF RunIs
<1>2. pass' \in Passes /\ PassInv'
  BY <1>1, PassStays DEF AutopayInv
<1>3. today' \in Days
  BY DEF AutopayInv, RowsFit
<1> QED
  BY <1>2, <1>3, QuietStep

-----------------------------------------------------------------------------
(* Reconciliation *)

\* What a pass has found and not yet dealt with succeeded at Stripe, and will
\* have succeeded when the pass comes to it.
ScanInv == scan \in Scan /\ \A r \in scan.left : intent[r] = "succeeded"

LEMMA ScanIs ==
  ASSUME ScanInv
  PROVE  /\ scan.on \in BOOLEAN /\ scan.left \subseteq Runs
         /\ scan.latest \in 0 .. LastDay /\ scan.errored \in 1 .. LastDay + 1
         /\ \A r \in scan.left : intent[r] = "succeeded"
BY DEF ScanInv, Scan

LEMMA ReconcileKeeps ==
  ASSUME AutopayInv, ScanInv, NEW f \in Families, NEW d \in Days,
         Reconcile(f, d) \/ ReconcileCutShort(f, d)
  PROVE  Kept
<1>1. intent[<<f, d>>] = "succeeded"
  BY ScanIs DEF Reconcile, ReconcileCutShort
<1>2. UNCHANGED <<intent, cursor, today>>
  BY DEF Reconcile, ReconcileCutShort
<1>3. \/ \E then \in {pass, Onward(pass.due)} : Settle(f, d, then)
      \/ SettlePartly(f, d) /\ pass' \in {pass, Lost, Onward(pass.due)}
  BY DEF Reconcile, ReconcileCutShort, SettleCutShort, Dies
<1> QED
  BY <1>1, <1>2, <1>3, SettleKeeps

\* Steps of reconciliation that leave the books alone.
LEMMA BooksUntouched ==
  ASSUME AutopayInv, UNCHANGED <<money, enrollment, run, intent, pass, today>>,
         cursor' \in 0 .. LastDay
  PROVE  Kept
<1>1. LP!CoveredInv'
  BY MoneyStays DEF AutopayInv
<1>2. /\ \A r \in Runs : payment'[r] = payment[r]
      /\ enrollment' \in [Families -> Enrollment] /\ \A g \in Families : Eased(g)
  BY DEF AutopayInv, RowsFit, Eased, money
<1> QED
  BY <1>1, <1>2, AsideStep

\* A record that throws has done nothing, or a part of what it does.
LEMMA RecordFailsKeeps ==
  ASSUME AutopayInv, ScanInv, NEW f \in Families, NEW d \in Days, RecordFails(f, d)
  PROVE  Kept
<1>1. intent[<<f, d>>] = "succeeded" /\ UNCHANGED <<intent, pass, cursor, today>>
  BY ScanIs DEF RecordFails
<1>2. CASE SettlePartly(f, d)
  BY <1>1, <1>2, SettleKeeps
<1>3. CASE UNCHANGED <<money, enrollment, run>>
  BY <1>1, <1>3, BooksUntouched DEF AutopayInv, RowsFit
<1> QED
  BY <1>2, <1>3 DEF RecordFails

\* The cursor moves to a day there is: the earliest of some.
LEMMA AdvanceCursorKeeps ==
  ASSUME AutopayInv, ScanInv, AdvanceCursor
  PROVE  Kept
<1> DEFINE held == {r[2] - 1 : r \in {q \in Runs : intent[q] = "processing" /\ q[2] >= cursor}}
           most == {scan.latest, scan.errored - 1}
<1>1. ASSUME NEW S, S \subseteq 0 .. LastDay, S # {}
      PROVE  Least(S) \in 0 .. LastDay
  <2>1. S \subseteq Nat
    BY <1>1, DaysAndCrashes
  <2>2. \E c \in S : \A x \in S : c <= x
    BY <1>1, <2>1, Sound, LP!LeastNat
  <2>3. Least(S) \in S
    BY <2>2 DEF Least
  <2> QED
    BY <1>1, <2>3
<1>2. most \subseteq 0 .. LastDay /\ most # {}
  BY ScanIs, DaysAndCrashes
<1>3. held \subseteq 0 .. LastDay
  BY DaysAndCrashes DEF Runs, Days
<1>4. cursor' \in {Least(most), Least(most \cup held)}
  BY DEF AdvanceCursor
<1> HIDE DEF held, most
<1>5. most \cup held \subseteq 0 .. LastDay /\ most \cup held # {}
  BY <1>2, <1>3
<1>6. cursor' \in 0 .. LastDay
  BY <1>1, <1>2, <1>4, <1>5
<1>7. UNCHANGED <<money, enrollment, run, intent, pass, today>>
  BY DEF AdvanceCursor
<1> QED
  BY <1>6, <1>7, BooksUntouched

LEMMA SearchKeeps ==
  ASSUME AutopayInv, ScanFails \/ \E latest \in Days : Search(latest)
  PROVE  Kept
<1>1. UNCHANGED <<money, enrollment, run, intent, pass, cursor, today>>
  BY DEF ScanFails, Search
<1> QED
  BY <1>1, BooksUntouched DEF AutopayInv, RowsFit

-----------------------------------------------------------------------------
(* Parents and finance, time and failure *)

\* What a parent does with autopay: the ladder is cleared or switched off.
LEMMA EnrollmentKeeps ==
  ASSUME AutopayInv, NEW f \in Families, TurnOn(f) \/ TurnOff(f) \/ RemoveCard(f)
  PROVE  Kept
<1>1. PICK e, n, at, c : e = enrollment[f] /\ n = 0 /\ at = NoDate /\ c = today
  OBVIOUS
<1>2. e \in Enrollment /\ FALSE \in BOOLEAN /\ TRUE \in BOOLEAN
  BY <1>1 DEF AutopayInv, RowsFit
<1>3. n \in 0 .. 3 /\ at \in Nat \cup {NoDate} /\ c \in Days \cup {NoDate}
  BY <1>1 DEF AutopayInv, RowsFit
<1>4. PICK row : /\ enrollment' = [enrollment EXCEPT ![f] = row]
                 /\ \/ row = [enabled |-> TRUE, card |-> TRUE, failureCount |-> n,
                              nextAttemptAt |-> at, consentAt |-> c]
                    \/ row = [e EXCEPT !.enabled = FALSE]
                    \/ row = [e EXCEPT !.enabled = FALSE, !.card = FALSE]
  BY <1>1 DEF TurnOn, TurnOff, RemoveCard, AutopayInv, RowsFit
<1>5. /\ row \in Enrollment
      /\ \/ row.failureCount = n /\ row.nextAttemptAt = at
         \/ row.failureCount = e.failureCount /\ row.nextAttemptAt = e.nextAttemptAt /\ row.enabled = FALSE
  <2>1. CASE row = [enabled |-> TRUE, card |-> TRUE, failureCount |-> n,
                    nextAttemptAt |-> at, consentAt |-> c]
    BY <1>2, <1>3, <2>1 DEF Enrollment
  <2>2. CASE row = [e EXCEPT !.enabled = FALSE]
    BY <1>2, <2>2 DEF Enrollment
  <2>3. CASE row = [e EXCEPT !.enabled = FALSE, !.card = FALSE]
    BY <1>2, <2>3 DEF Enrollment
  <2> QED
    BY <1>4, <2>1, <2>2, <2>3
<1>6. enrollment' \in [Families -> Enrollment] /\ \A g \in Families : Eased(g)
  BY <1>1, <1>4, <1>5 DEF AutopayInv, RowsFit, Eased
<1>7. UNCHANGED <<money, run, intent, pass, cursor, today>>
  BY DEF TurnOn, TurnOff, RemoveCard
<1>8. LP!CoveredInv' /\ \A r \in Runs : payment'[r] = payment[r]
  BY <1>7, MoneyStays DEF AutopayInv, money
<1>9. cursor' \in 0 .. LastDay
  BY <1>7 DEF AutopayInv, RowsFit
<1> QED
  BY <1>6, <1>7, <1>8, <1>9, AsideStep

\* What the office does with invoices, and a reversal.
LEMMA LedgerStepKeeps ==
  ASSUME AutopayInv,
         \/ \E i \in Invoices : \E terms \in Terms[i] : Generate(i, terms)
         \/ \E i \in Invoices : Void(i)
         \/ \E k \in Runs \cup ByHand : Reverse(k)
  PROVE  Kept
<1>1. LP!CoveredInv' /\ payment' = payment
  BY GenerateKeepsBooks, VoidKeepsBooks, ReverseKeepsBooks DEF Generate, Void, Reverse, AutopayInv
<1>2. UNCHANGED <<enrollment, run, intent, pass, cursor, today>>
  BY DEF Generate, Void, Reverse
<1>3. /\ enrollment' \in [Families -> Enrollment] /\ \A g \in Families : Eased(g)
      /\ cursor' \in 0 .. LastDay
  BY <1>2 DEF AutopayInv, RowsFit, Eased
<1> QED
  BY <1>1, <1>2, <1>3, AsideStep

\* A payment by hand is none of autopay's.
LEMMA PayKeeps ==
  ASSUME AutopayInv, NEW k \in ByHand, NEW f \in Families, NEW amt \in Amounts, Pay(k, f, amt)
  PROVE  Kept
<1>1. amt \in Nat
  BY LedgerConstants DEF L!SoundConstants
<1>2. Recorded(k, f, amt)
  BY DEF Pay
<1>3. LP!CoveredInv' /\ \A q \in Runs : payment'[q] = payment[q]
  BY <1>1, <1>2, RunsAreAutopays, RecordedIs DEF AutopayInv
<1>4. enrollment' \in {enrollment, Forgiven(f)} /\ pass' \in {pass, Lost}
      /\ UNCHANGED <<run, intent, cursor, today>>
  BY DEF Pay, AfterRecording, Dies
<1>5. enrollment' \in [Families -> Enrollment] /\ \A g \in Families : Eased(g)
  BY <1>4, ForgivenIs DEF AutopayInv, RowsFit, Eased
<1>6. cursor' \in 0 .. LastDay /\ today' \in Days
  BY <1>4 DEF AutopayInv, RowsFit
<1>7. CASE pass' = pass
  BY <1>3, <1>4, <1>5, <1>6, <1>7, AsideStep
<1>8. CASE pass' = Lost
  <2>1. pass' \in Passes /\ PassInv'
    BY <1>8, PassIsLost DEF AutopayInv
  <2> QED
    BY <1>3, <1>4, <1>5, <1>6, <2>1, QuietStep
<1> QED
  BY <1>4, <1>7, <1>8

LEMMA ConfirmKeeps ==
  ASSUME AutopayInv, NEW f \in Families, NEW d \in Days, Confirm(f, d)
  PROVE  Kept
<1>1. /\ intent[<<f, d>>] = "succeeded" /\ intent' = intent
      /\ Recorded(<<f, d>>, f, run[<<f, d>>].amount)
      /\ run' \in {run, Marked(<<f, d>>, "charged")}
      /\ enrollment' \in {enrollment, Forgiven(f)}
      /\ pass' \in {pass, Lost, Onward(pass.due)}
      /\ cursor' = cursor /\ today' = today
  BY DEF Confirm, Pay, AfterRecording, Dies
<1> QED
  BY <1>1, BookedStep

\* A new day begins for a pass that waits for nothing.
LEMMA NewDayKeeps ==
  ASSUME AutopayInv, NewDay
  PROVE  Kept
<1>1. /\ pass.call = NoRow /\ pass.answer = NoRow /\ DOMAIN pass.due = {} /\ pass \in Passes
      /\ pass' = [pass EXCEPT !.stage = "ahead"] /\ today' = today + 1 /\ today < LastDay
      /\ UNCHANGED <<money, enrollment, run, intent, cursor>>
  BY DEF NewDay, AutopayInv, PassInv, PassInOrder, RowsFit
<1>2. /\ pass' \in Passes /\ pass'.stage = "ahead" /\ pass'.due = pass.due
      /\ pass'.call = NoRow /\ pass'.answer = NoRow
  BY <1>1 DEF Passes, Stages
<1>3. PassInv'
  BY <1>1, <1>2, NoRowIsNothing DEF PassInv, PassInOrder, DueMayBeCharged
<1>4. LP!CoveredInv'
  BY <1>1, MoneyStays DEF AutopayInv
<1>5. today' \in Days
  BY <1>1, DaysAndCrashes DEF AutopayInv, RowsFit, Days
<1>6. /\ run' = run /\ intent' = intent /\ \A r \in Runs : payment'[r] = payment[r]
      /\ enrollment' \in [Families -> Enrollment] /\ \A g \in Families : Eased(g)
      /\ cursor' \in 0 .. LastDay
  BY <1>1 DEF AutopayInv, RowsFit, Eased, money
<1> QED
  BY <1>2, <1>3, <1>4, <1>5, <1>6, QuietStep

LEMMA StutterKeeps ==
  ASSUME AutopayInv, UNCHANGED vars
  PROVE  Kept
<1>1. LP!CoveredInv'
  BY MoneyStays DEF vars, AutopayInv
<1>2. /\ run' = run /\ intent' = intent /\ \A r \in Runs : payment'[r] = payment[r]
      /\ enrollment' \in [Families -> Enrollment] /\ \A g \in Families : Eased(g)
      /\ pass' = pass /\ today' = today /\ cursor' \in 0 .. LastDay
  BY DEF vars, AutopayInv, RowsFit, Eased, money
<1> QED
  BY <1>1, <1>2, AsideStep

\* The three parts of a step's promise, for every step there is.
LEMMA StepKeeps ==
  ASSUME AutopayInv, ScanInv, [Next]_vars
  PROVE  Kept
<1>1. CASE PassSteps
  <2>1. CASE StartPass
    BY <2>1, StartPassKeeps
  <2>2. CASE \E f \in Families : Charge(f) \/ Skip(f)
    BY <2>2, ChargeKeeps, SkipKeeps
  <2>3. CASE \E f \in Families : Succeeded(f) \/ Declined(f)
    BY <2>3, SucceededKeeps, DeclinedKeeps
  <2>4. CASE NoAnswer \/ \E f \in Families : StillProcessing(f)
    BY <2>4, GoingOnKeeps DEF NoAnswer, StillProcessing
  <2> QED
    BY <1>1, <2>1, <2>2, <2>3, <2>4 DEF PassSteps
<1>2. CASE StripeSteps
  <2>1. {NoRow, "processing", "succeeded", "declined"} = Answers /\ {"succeeded", "declined"} \subseteq Answers
    BY DEF Answers
  <2> QED
    BY <1>2, <2>1, StripeActsKeeps, StripeSettlesKeeps DEF StripeSteps
<1>3. CASE LoopSteps \/ ScanSteps
  BY <1>3, ReconcileKeeps, RecordFailsKeeps, AdvanceCursorKeeps, SearchKeeps DEF LoopSteps, ScanSteps
<1>4. CASE ParentSteps \/ OfficeSteps
  BY <1>4, EnrollmentKeeps, LedgerStepKeeps, PayKeeps, ConfirmKeeps DEF ParentSteps, OfficeSteps
<1>5. CASE Crash
  BY <1>5, GoingOnKeeps DEF Crash, Dies
<1>6. CASE NewDay
  BY <1>6, NewDayKeeps
<1>7. CASE UNCHANGED vars
  BY <1>7, StutterKeeps
<1> QED
  BY <1>1, <1>2, <1>3, <1>4, <1>5, <1>6, <1>7 DEF Next

-----------------------------------------------------------------------------
(* What a pass of reconciliation has found *)

\* Success is final, whatever else happens.
LEMMA SuccessStays ==
  ASSUME AutopayInv, [Next]_vars, NEW r \in Runs, intent[r] = "succeeded"
  PROVE  intent'[r] = "succeeded"
<1>1. CASE intent' = intent
  BY <1>1
<1>2. ASSUME NEW f \in Families, Charge(f)
      PROVE  intent'[r] = "succeeded"
  <2>1. intent' = intent \/ intent' = [intent EXCEPT ![<<f, today>>] = "asked"]
    BY <1>2 DEF Charge
  <2>2. run[<<f, today>>] = NoRow /\ run[r] # NoRow
    BY <1>2, NoRowIsNothing DEF Charge, Chargeable, AutopayInv, ChargesInv, IntentsHaveRuns
  <2> QED
    BY <2>1, <2>2 DEF AutopayInv, RowsFit
<1>3. ASSUME NEW f \in Families, NEW o, StripeActs(f, o)
      PROVE  intent'[r] = "succeeded"
  BY <1>3 DEF StripeActs, AutopayInv, RowsFit
<1>4. ASSUME NEW q \in Runs, NEW o, StripeSettles(q, o)
      PROVE  intent'[r] = "succeeded"
  BY <1>4 DEF StripeSettles, AutopayInv, RowsFit
<1>5. CASE PassSteps
  <2>1. CASE NoAnswer \/ StartPass \/ \E f \in Families : Skip(f) \/ Succeeded(f) \/ StillProcessing(f) \/ Declined(f)
    BY <1>1, <2>1 DEF StartPass, Skip, Succeeded, StillProcessing, Declined, NoAnswer
  <2> QED
    BY <1>2, <1>5, <2>1 DEF PassSteps
<1>6. CASE LoopSteps \/ ScanSteps
  BY <1>1, <1>6 DEF LoopSteps, ScanSteps, Reconcile, ReconcileCutShort, RecordFails, ScanFails,
     Search, AdvanceCursor
<1>7. CASE ParentSteps \/ OfficeSteps
  BY <1>1, <1>7 DEF ParentSteps, OfficeSteps, TurnOn, TurnOff, RemoveCard, Generate, Void, Pay,
     Confirm, Reverse
<1>8. CASE Crash \/ NewDay \/ UNCHANGED vars
  BY <1>1, <1>8 DEF Crash, NewDay, vars
<1> QED
  BY <1>3, <1>4, <1>5, <1>6, <1>7, <1>8 DEF Next, StripeSteps

LEMMA NoScanFits == NoScan \in Scan /\ NoScan.left = {}
<1>1. PICK on, left, latest, errored : on = FALSE /\ left = {} /\ latest = 0 /\ errored = LastDay + 1
  OBVIOUS
<1>2. on \in BOOLEAN
  BY <1>1
<1>3. left \in SUBSET Runs /\ latest \in 0 .. LastDay /\ errored \in 1 .. LastDay + 1
  BY <1>1, DaysAndCrashes
<1>4. NoScan = [on |-> on, left |-> left, latest |-> latest, errored |-> errored]
  BY <1>1 DEF NoScan
<1> QED
  BY <1>1, <1>2, <1>3, <1>4 DEF Scan

\* A pass deals with what it has found and finds only what succeeded.
LEMMA ScanKept ==
  ASSUME AutopayInv, ScanInv, [Next]_vars
  PROVE  ScanInv'
<1>1. \A r \in Runs : intent[r] = "succeeded" => intent'[r] = "succeeded"
  BY SuccessStays
<1>2. CASE scan' = scan
  BY <1>1, <1>2, ScanIs DEF ScanInv
<1>3. CASE scan' = NoScan
  BY <1>3, NoScanFits DEF ScanInv
<1>4. ASSUME NEW r, NEW m \in 1 .. LastDay + 1,
             scan' = [scan EXCEPT !.left = @ \ {r}, !.errored = m]
      PROVE  ScanInv'
  <2>1. scan' \in Scan /\ scan'.left = scan.left \ {r}
    BY <1>4 DEF ScanInv, Scan
  <2> QED
    BY <1>1, <2>1, ScanIs DEF ScanInv
<1>5. ASSUME NEW f \in Families, NEW d \in Days, Reconcile(f, d)
      PROVE  ScanInv'
  <2>1. scan' = [scan EXCEPT !.left = @ \ {<<f, d>>}, !.errored = scan.errored]
    BY <1>5 DEF Reconcile, DealtWith, ScanInv, Scan
  <2> QED
    BY <1>4, <2>1, ScanIs
<1>6. ASSUME NEW f \in Families, NEW d \in Days, RecordFails(f, d)
      PROVE  ScanInv'
  <2>1. PICK m : m = IF d < scan.errored THEN d ELSE scan.errored
    OBVIOUS
  <2>2. m \in 1 .. LastDay + 1
    BY <2>1, ScanIs, DaysAndCrashes DEF Days
  <2>3. scan' = [scan EXCEPT !.left = @ \ {<<f, d>>}, !.errored = m]
    BY <1>6, <2>1 DEF RecordFails, DealtWith, ScanInv, Scan
  <2> QED
    BY <1>4, <2>2, <2>3
<1>7. ASSUME NEW latest \in Days, Search(latest)
      PROVE  ScanInv'
  <2>1. PICK on, found, errored :
             /\ on = TRUE /\ found = {r \in Runs : intent[r] = "succeeded" /\ r[2] >= cursor}
             /\ errored = LastDay + 1
    OBVIOUS
  <2>2. /\ on \in BOOLEAN /\ found \in SUBSET Runs
        /\ latest \in 0 .. LastDay /\ errored \in 1 .. LastDay + 1
    BY <2>1, DaysAndCrashes DEF Days
  <2>3. /\ scan' = [on |-> on, left |-> found, latest |-> latest, errored |-> errored]
        /\ intent' = intent
    BY <1>7, <2>1 DEF Search
  <2>4. scan' \in Scan /\ scan'.left = found
    BY <2>2, <2>3 DEF Scan
  <2> QED
    BY <2>1, <2>3, <2>4 DEF ScanInv
<1>8. CASE PassSteps
  BY <1>2, <1>3, <1>8 DEF PassSteps, StartPass, Charge, Skip, Succeeded, StillProcessing, Declined,
     NoAnswer, SettleCutShort, Dies
<1>9. CASE LoopSteps \/ ScanSteps
  <2>1. ASSUME NEW f \in Families, NEW d \in Days, ReconcileCutShort(f, d)
        PROVE  ScanInv'
    BY <1>3, <2>1 DEF ReconcileCutShort, SettleCutShort, Dies
  <2>2. CASE ScanFails \/ AdvanceCursor
    BY <1>3, <2>2 DEF ScanFails, AdvanceCursor
  <2> QED
    BY <1>5, <1>6, <1>7, <1>9, <2>1, <2>2 DEF LoopSteps, ScanSteps
<1>10. CASE StripeSteps \/ ParentSteps \/ OfficeSteps
  BY <1>2, <1>3, <1>10 DEF StripeSteps, StripeActs, StripeSettles, ParentSteps, OfficeSteps, TurnOn,
     TurnOff, RemoveCard, Generate, Void, Pay, Confirm, Reverse, Dies
<1>11. CASE Crash \/ NewDay \/ UNCHANGED vars
  BY <1>2, <1>3, <1>11 DEF Crash, Dies, NewDay, vars
<1> QED
  BY <1>8, <1>9, <1>10, <1>11 DEF Next

-----------------------------------------------------------------------------
(* Theorems *)

LEMMA InitFits == Init => AutopayInv
<1> SUFFICES ASSUME Init PROVE AutopayInv
  OBVIOUS
<1>1. LP!CoveredInv
  <2>1. LP!Init
    BY SameInit DEF Init
  <2> QED
    BY <2>1, LadderFits DEF LP!Init, LP!CoveredInv, LP!LedgerInv, LP!TypeOK, LP!Mirrored,
       LP!NothingOnUnissued, LP!VoidIsUnpaid, LP!NeverOverpaid, LP!StatusMatchesMoney,
       LP!Live, LP!Issued, LP!Numbered, LP!AllocationsAreCovered
<1>2. \A f \in Families : /\ enrollment[f].failureCount = 0
                          /\ enrollment[f].nextAttemptAt = NoDate
  BY DEF Init
<1>3. enrollment \in [Families -> Enrollment]
  <2>1. PICK row, n, at : /\ n = 0 /\ at = NoDate
                          /\ row = [enabled |-> FALSE, card |-> FALSE, failureCount |-> n,
                                    nextAttemptAt |-> at, consentAt |-> at]
    OBVIOUS
  <2>2. n \in 0 .. 3 /\ at \in Nat \cup {NoDate} /\ at \in Days \cup {NoDate} /\ FALSE \in BOOLEAN
    BY <2>1
  <2>3. row \in Enrollment
    BY <2>1, <2>2 DEF Enrollment
  <2> QED
    BY <2>1, <2>3 DEF Init
<1>4. pass \in Passes /\ PassInv
  <2>1. PICK due : due = <<>>
    OBVIOUS
  <2>2. due \in DueMaps /\ DOMAIN due = {}
    BY <2>1, DueMapsAre
  <2>3. pass = [stage |-> "ahead", due |-> due, call |-> NoRow, answer |-> NoRow]
    BY <2>1 DEF Init
  <2>4. pass \in Passes
    BY <2>2, <2>3 DEF Passes, Stages, Answers
  <2>5. pass.stage = "ahead" /\ pass.call = NoRow /\ pass.answer = NoRow /\ pass.due = due
    BY <2>3
  <2> QED
    BY <2>2, <2>4, <2>5, NoRowIsNothing DEF PassInv, PassInOrder, DueMayBeCharged
<1>5. RowsFit
  <2>1. /\ run \in [Runs -> Run \cup {NoRow}]
        /\ intent \in [Runs -> {NoRow, "asked", "processing", "succeeded", "declined"}]
    BY DEF Init
  <2>2. cursor \in 0 .. LastDay /\ today \in 1 .. LastDay
    BY DaysAndCrashes DEF Init
  <2> QED
    BY <1>3, <1>4, <2>1, <2>2 DEF RowsFit, Days
<1>6. ChargesInv
  <2>1. \A r \in Runs : run[r] = NoRow /\ intent[r] = NoRow /\ payment[r] = NoRow
    BY DEF Init, L!Init
  <2>2. \A f \in Families : \A d \in Days : <<f, d>> \in Runs
    BY DEF Runs
  <2> QED
    BY <2>1, <2>2, NoRowIsNothing DEF ChargesInv, IntentsHaveRuns, BooksAgreeWithStripe,
       OneUnsettledCharge, Unsettled, RunIs
<1>7. LadderIsEarned
  <2> SUFFICES ASSUME NEW f \in Families PROVE RungIsEarned(f)
    BY EarnedIs
  <2>1. Cardinality(Failed(f)) \in Nat
    BY FailedFinite
  <2> QED
    BY <1>2, <2>1 DEF RungIsEarned
<1> QED
  BY <1>1, <1>4, <1>5, <1>6, <1>7 DEF AutopayInv

LEMMA AutopayInvHolds == Spec => [](AutopayInv /\ ScanInv)
<1>1. AutopayInv /\ ScanInv /\ [Next]_vars => AutopayInv' /\ ScanInv'
  BY StepKeeps, ScanKept DEF Kept
<1>2. Init => ScanInv
  BY NoScanFits DEF Init, ScanInv
<1> QED
  BY InitFits, <1>1, <1>2, PTL DEF Spec

\* Rows keep their types, those of the ledger under autopay included.
THEOREM TypeCorrect == Spec => []TypeOK
<1>1. AutopayInv /\ ScanInv => TypeOK
  BY SameTypes, DueMapsAre DEF AutopayInv, ScanInv, TypeOK, RowsFit, Passes, Answers, LP!CoveredInv, LP!LedgerInv
<1> QED
  BY <1>1, AutopayInvHolds, PTL

\* The pending-run guard of chargeFamily is enough: whatever the order in which
\* charges, answers, crashes and reconciliation come, a family never has two
\* charges that the ledger does not reflect yet.
THEOREM OneUnsettledChargeHolds == Spec => []OneUnsettledCharge
BY AutopayInvHolds, PTL DEF AutopayInv, ChargesInv

\* What is booked of a charge, and what its run says of it, is what Stripe did.
THEOREM BooksAgreeHolds == Spec => []BooksAgreeWithStripe
BY AutopayInvHolds, PTL DEF AutopayInv, ChargesInv

\* The retry ladder rests on failed runs, and ends after three (markRunFailed).
THEOREM LadderIsEarnedHolds == Spec => []LadderIsEarned
BY AutopayInvHolds, PTL DEF AutopayInv

\* onAutopaySucceeded overwrites the status of a run without looking at it, yet
\* no run that failed is ever marked charged.
THEOREM RunOutcomeIsFinalHolds == Spec => RunOutcomeIsFinal
<1>1. AutopayInv /\ ScanInv /\ [Next]_vars => [OutcomesStand]_vars
  BY StepKeeps DEF Kept
<1>2. [][OutcomesStand]_vars => RunOutcomeIsFinal
  BY PTL DEF OutcomesStand, RunOutcomeIsFinal
<1> QED
  BY <1>1, <1>2, AutopayInvHolds, PTL DEF Spec

\* No charge is made before the day that the ladder names, although the pass
\* takes stock long before it makes the charge.
THEOREM ChargesWaitHolds == Spec => ChargesWaitForTheLadder
<1>1. AutopayInv /\ ScanInv /\ [Next]_vars => [LadderHeeded]_vars
  BY StepKeeps DEF Kept
<1>2. [][LadderHeeded]_vars => ChargesWaitForTheLadder
  BY PTL DEF LadderHeeded, ChargesWaitForTheLadder
<1> QED
  BY <1>1, <1>2, AutopayInvHolds, PTL DEF Spec

-----------------------------------------------------------------------------
(* The ledger, and the account it implements, under autopay *)

LEMMA SameFamilyBalance == \A f : L!FamilyBalance(f) = LP!FamilyBalance(f)
<1> SUFFICES ASSUME NEW f PROVE L!FamilyBalance(f) = LP!FamilyBalance(f)
  OBVIOUS
<1>1. [i \in Invoices |-> IF i[1] = f /\ L!Live(i) THEN invoice[i].total ELSE 0]
        = [i \in Invoices |-> IF i[1] = f /\ LP!Live(i) THEN invoice[i].total ELSE 0]
  BY SameLive
<1>2. L!Invoiced(f) = LP!Invoiced(f)
  BY <1>1, SameSum DEF L!Invoiced, LP!Invoiced
<1>3. L!Received(f) = LP!Received(f) /\ L!Returned(f) = LP!Returned(f)
  BY SameSum DEF L!Received, LP!Received, L!Returned, LP!Returned
<1> QED
  BY <1>2, <1>3 DEF L!FamilyBalance, LP!FamilyBalance

LEMMA SameLiveAll == \A i : L!Issued(i) = LP!Issued(i) /\ L!Live(i) = LP!Live(i)
BY SameLive

LEMMA SameAfter ==
  /\ \A f : L!FamilyBalance(f)' = LP!FamilyBalance(f)'
  /\ \A i : L!Issued(i)' = LP!Issued(i)' /\ L!Live(i)' = LP!Live(i)'
<1>1. (\A f : L!FamilyBalance(f) = LP!FamilyBalance(f))'
  BY SameFamilyBalance, PTL
<1>2. (\A i : L!Issued(i) = LP!Issued(i) /\ L!Live(i) = LP!Live(i))'
  BY SameLiveAll, PTL
<1> QED
  BY <1>1, <1>2

\* What a step may do to the ledger: nothing, or one whole operation of it.
BooksStep ==
  \/ UNCHANGED money
  \/ \E i \in Invoices : \E terms \in Terms[i] : L!GenerateForFamily(i, terms)
  \/ \E i \in Invoices : L!VoidInvoice(i)
  \/ \E k \in Runs \cup ByHand : L!ReversePayment(k)
  \/ \E k \in Runs \cup ByHand, f \in Families, amt \in Nat : Recorded(k, f, amt)

LEMMA StepIsOfTheBooks ==
  ASSUME AutopayInv, ScanInv, [Next]_vars
  PROVE  BooksStep
<1>1. ASSUME NEW f \in Families, NEW d \in Days, intent[<<f, d>>] = "succeeded",
             Recorded(<<f, d>>, f, run[<<f, d>>].amount)
      PROVE  BooksStep
  <2>1. PICK r \in Runs : r = <<f, d>>
    BY DEF Runs
  <2>2. run[r].amount \in Nat
    BY <1>1, <2>1, NoRowIsNothing DEF AutopayInv, ChargesInv, IntentsHaveRuns, RowsFit, Run
  <2> QED
    BY <1>1, <2>1, <2>2 DEF BooksStep
<1>2. CASE \E f \in Families : Succeeded(f)
  <2>1. PICK f \in Families : Succeeded(f)
    BY <1>2
  <2>2. Recorded(<<f, today>>, f, run[<<f, today>>].amount)
    BY <2>1 DEF Succeeded, Settle, SettleCutShort, SettlePartly
  <2>3. intent[<<f, today>>] = "succeeded" /\ today \in Days
    BY <2>1, AnsweredIs DEF Succeeded, Answered
  <2> QED
    BY <1>1, <2>2, <2>3
<1>3. CASE LoopSteps \/ ScanSteps
  <2>1. ASSUME NEW f \in Families, NEW d \in Days, Reconcile(f, d) \/ ReconcileCutShort(f, d)
        PROVE  BooksStep
    <3>1. intent[<<f, d>>] = "succeeded"
      BY <2>1, ScanIs DEF Reconcile, ReconcileCutShort
    <3> QED
      BY <1>1, <2>1, <3>1 DEF Reconcile, ReconcileCutShort, Settle, SettleCutShort, SettlePartly
  <2>2. ASSUME NEW f \in Families, NEW d \in Days, RecordFails(f, d)
        PROVE  BooksStep
    <3>1. intent[<<f, d>>] = "succeeded"
      BY <2>2, ScanIs DEF RecordFails
    <3>2. UNCHANGED money \/ Recorded(<<f, d>>, f, run[<<f, d>>].amount)
      BY <2>2 DEF RecordFails, SettlePartly
    <3> QED
      BY <1>1, <3>1, <3>2 DEF BooksStep
  <2>3. CASE ScanFails \/ AdvanceCursor \/ \E latest \in Days : Search(latest)
    BY <2>3 DEF ScanFails, AdvanceCursor, Search, BooksStep
  <2> QED
    BY <1>3, <2>1, <2>2, <2>3 DEF LoopSteps, ScanSteps
<1>4. CASE ParentSteps \/ OfficeSteps
  <2>1. ASSUME NEW f \in Families, NEW d \in Days, Confirm(f, d)
        PROVE  BooksStep
    BY <1>1, <2>1 DEF Confirm, Pay
  <2>2. ASSUME NEW k \in ByHand, NEW f \in Families, NEW amt \in Amounts, Pay(k, f, amt)
        PROVE  BooksStep
    <3>1. amt \in Nat
      BY Sound, LP!PaymentsArePositive
    <3> QED
      BY <2>2, <3>1 DEF Pay, BooksStep
  <2> QED
    BY <1>4, <2>1, <2>2 DEF ParentSteps, OfficeSteps, BooksStep, TurnOn, TurnOff, RemoveCard, Generate, Void, Reverse
<1>5. CASE StartPass \/ NoAnswer \/ \E f \in Families : Charge(f) \/ Skip(f) \/ StillProcessing(f) \/ Declined(f)
  <2>1. UNCHANGED money
    BY <1>5 DEF StartPass, Charge, Skip, StillProcessing, Declined, NoAnswer
  <2> QED
    BY <2>1 DEF BooksStep
<1>6. CASE StripeSteps \/ Crash \/ NewDay \/ UNCHANGED vars
  BY <1>6 DEF StripeSteps, StripeActs, StripeSettles, Crash, NewDay, vars, BooksStep
<1> QED
  BY <1>2, <1>3, <1>4, <1>5, <1>6 DEF Next, PassSteps

\* The account of FamilyAccount, as it is derived from the rows, in any sums.
Account == INSTANCE FamilyAccount WITH
  Bills   <- Invoices,
  Keys    <- Runs \cup ByHand,
  Sums    <- Nat,
  balance <- [f \in Families |-> L!FamilyBalance(f)],
  bill    <- [i \in Invoices |->
                IF L!Issued(i) THEN [amount |-> invoice[i].total, waived |-> ~L!Live(i)]
                               ELSE NoRow],
  receipt <- [k \in Runs \cup ByHand |->
                IF payment[k] = NoRow THEN NoRow
                ELSE [family |-> payment[k].family, amount |-> payment[k].amount,
                      returned |-> reversal[k] # NoRow]]

LEMMA SameAccount ==
  /\ [f \in Families |-> L!FamilyBalance(f)] = LP!AccountBalance
  /\ [f \in Families |-> L!FamilyBalance(f)]' = LP!AccountBalance'
  /\ [i \in Invoices |->
        IF L!Issued(i) THEN [amount |-> invoice[i].total, waived |-> ~L!Live(i)] ELSE NoRow]
       = LP!AccountBill
  /\ [i \in Invoices |->
        IF L!Issued(i) THEN [amount |-> invoice[i].total, waived |-> ~L!Live(i)] ELSE NoRow]'
       = LP!AccountBill'
BY SameFamilyBalance, SameLive, SameAfter DEF LP!AccountBalance, LP!AccountBill


LEMMA StepIsOfTheAccount ==
  ASSUME LP!CoveredInv, BooksStep
  PROVE  [Account!Next]_(Account!account)
<1> DEFINE receipts == [k \in Runs \cup ByHand |->
                IF payment[k] = NoRow THEN NoRow
                ELSE [family |-> payment[k].family, amount |-> payment[k].amount,
                      returned |-> reversal[k] # NoRow]]
<1>1. /\ LP!TypeOK /\ LP!Mirrored /\ receipts = LP!AccountReceipt
  BY DEF LP!CoveredInv, LP!LedgerInv, LP!AccountReceipt
<1>2. ASSUME UNCHANGED money
      PROVE  UNCHANGED Account!account
  <2>1. UNCHANGED <<LP!AccountBalance, LP!AccountBill, LP!AccountReceipt>>
    BY <1>2, Sound, LP!NothingMoves DEF money
  <2> QED
    BY <2>1, SameAccount DEF Account!account, LP!AccountReceipt
<1>3. ASSUME NEW i \in Invoices, NEW terms \in Terms[i], L!GenerateForFamily(i, terms)
      PROVE  Account!Next
  <2>1. LP!Account!Issue(i, terms.total)
    BY <1>1, <1>3, Sound, SameGeneration, LP!GenerateIssues
  <2>2. terms.total \in Nat
    BY Sound DEF LP!SoundConstants
  <2>3. Account!Issue(i, terms.total)
    BY <2>1, SameAccount DEF LP!Account!Issue, Account!Issue, LP!Account!Moves, Account!Moves,
       LP!AccountBalance, LP!AccountBill, LP!AccountReceipt
  <2> QED
    BY <2>2, <2>3 DEF Account!Next
<1>4. ASSUME NEW i \in Invoices, L!VoidInvoice(i)
      PROVE  Account!Next
  <2>1. LP!Account!Waive(i)
    BY <1>1, <1>4, Sound, SameVoiding, LP!VoidWaives
  <2>2. Account!Waive(i)
    BY <2>1, SameAccount DEF LP!Account!Waive, Account!Waive, LP!Account!Moves, Account!Moves,
       LP!AccountBalance, LP!AccountBill, LP!AccountReceipt
  <2> QED
    BY <2>2 DEF Account!Next
<1>5. ASSUME NEW k \in Runs \cup ByHand, L!ReversePayment(k)
      PROVE  Account!Next
  <2>1. LP!Account!Return(k)
    BY <1>1, <1>5, Sound, SameReversal, LP!ReverseReturns
  <2>2. Account!Return(k)
    BY <2>1, SameAccount DEF LP!Account!Return, Account!Return, LP!Account!Moves, Account!Moves,
       LP!AccountBalance, LP!AccountBill, LP!AccountReceipt
  <2> QED
    BY <2>2 DEF Account!Next
<1>6. ASSUME NEW k \in Runs \cup ByHand, NEW f \in Families, NEW amt \in Nat,
             payment[k] = NoRow, Recorded(k, f, amt)
      PROVE  Account!Next
  <2> DEFINE alloc == LP!OldestDueFirst(f, amt)
  <2>1. LP!RecordRows(k, f, amt, alloc)
    BY <1>6, SameLoop, SameRecording DEF Recorded
  <2>2. alloc \in [Invoices -> Nat]
    BY Sound, LP!LoopWithinBalance DEF LP!CoveredInv, LP!LedgerInv
  <2> HIDE DEF alloc
  <2>3. LP!Account!Receive(k, f, amt)
    BY <1>1, <2>1, <2>2, Sound, LadderFits, LP!RecordReceives
  <2>4. Account!Receive(k, f, amt)
    BY <2>3, SameAccount DEF LP!Account!Receive, Account!Receive, LP!Account!Moves, Account!Moves,
       LP!AccountBalance, LP!AccountBill, LP!AccountReceipt
  <2> QED
    BY <2>4 DEF Account!Next
<1>7. ASSUME NEW k \in Runs \cup ByHand, NEW f \in Families, NEW amt \in Nat, Recorded(k, f, amt)
      PROVE  Account!Next \/ UNCHANGED money
  BY <1>6, <1>7 DEF Recorded
<1> QED
  BY <1>2, <1>3, <1>4, <1>5, <1>7 DEF BooksStep

LEMMA InitIsOfTheAccount ==
  ASSUME Init
  PROVE  Account!Init
<1>1. LP!Account!Init
  BY Sound, SameInit, LP!InitRefines DEF Init
<1> QED
  BY <1>1, SameAccount DEF LP!Account!Init, Account!Init, LP!AccountBalance, LP!AccountBill,
     LP!AccountReceipt

\* What the ledger promises by itself it keeps under autopay: through charges,
\* answers that are lost, crashes, reconciliation and people's own doings no
\* invoice is overpaid, every status agrees with the money, a void invoice holds
\* none and a payment covers its allocations.
BooksAreSound ==
  L!NeverOverpaid /\ L!StatusMatchesMoney /\ L!VoidHoldsNoMoney /\ L!AllocationsAreCovered

LEMMA SamePromises ==
  /\ L!NeverOverpaid = LP!NeverOverpaid
  /\ L!StatusMatchesMoney = LP!StatusMatchesMoney
  /\ L!VoidHoldsNoMoney = LP!VoidHoldsNoMoney
  /\ L!AllocationsAreCovered = LP!AllocationsAreCovered
<1>1. L!NeverOverpaid = LP!NeverOverpaid
  BY SameLive, SamePaid DEF L!NeverOverpaid, LP!NeverOverpaid
<1>2. L!StatusMatchesMoney = LP!StatusMatchesMoney
  BY SameLive, SamePaid DEF L!StatusMatchesMoney, LP!StatusMatchesMoney, L!StatusFor, LP!StatusFor
<1>3. L!VoidHoldsNoMoney = LP!VoidHoldsNoMoney
  BY SameLive DEF L!VoidHoldsNoMoney, LP!VoidHoldsNoMoney, L!Applied, LP!Applied
<1>4. L!AllocationsAreCovered = LP!AllocationsAreCovered
  BY SameLive, SameSum DEF L!AllocationsAreCovered, LP!AllocationsAreCovered
<1> QED
  BY <1>1, <1>2, <1>3, <1>4

\* A charge is booked by the ledger's own operations, so what the ledger
\* promises it goes on promising under autopay.
THEOREM BooksStaySound == Spec => []BooksAreSound
<1>1. AutopayInv => BooksAreSound
  BY Sound, SamePromises, LP!VoidIsClear DEF BooksAreSound, AutopayInv, LP!CoveredInv, LP!LedgerInv
<1> QED
  BY <1>1, AutopayInvHolds, PTL

\* Autopay is no other way to move a family's balance: whatever is answered
\* late, repeated by reconciliation or cut short by a crash, each step issues one
\* bill, waives one, receives one payment or returns one, or moves nothing.
THEOREM AutopayImplementsAccount == Spec => Account!Spec
<1>1. Init => Account!Init
  BY InitIsOfTheAccount
<1>2. AutopayInv /\ ScanInv /\ [Next]_vars => [Account!Next]_(Account!account)
  BY StepIsOfTheBooks, StepIsOfTheAccount DEF AutopayInv
<1> QED
  BY <1>1, <1>2, AutopayInvHolds, PTL DEF Spec, Account!Spec
=============================================================================
